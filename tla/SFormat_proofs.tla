--------------------------- MODULE SFormat_proofs ---------------------------
(***************************************************************************)
(* Proofs about SFormat for every set of messages and tables and all       *)
(* structures: its types, what a handler can rely on when it has parsed a  *)
(* message (DirectionRespected, MandatoryDelivered, FieldsInitialised,     *)
(* FieldTypesMatch), what is freed (OnlyListsLeak), and that a message     *)
(* arrives as it was sent (DeliveredAsSent).                               *)
(*                                                                         *)
(* The parser goes through the table once, so that the invariant says of   *)
(* the entries it has passed what the properties say of all of them.  The  *)
(* proof shows what the two ways to end a step, GoOn and Fail, keep; the   *)
(* actions of the parser are instances.                                    *)
(***************************************************************************)
EXTENDS SFormat, SequenceTheorems, TLAPS

Sending ==
    /\ source \in Source[msg][sender]
    /\ pc = "send" => pos = 1
    /\ change.kind # "empty" => \A n \in DOMAIN wire : wire[n].form # "empty"

\* The entries before an entry are dealt with, and its field is initialised.
Passed(f, p) ==
    /\ \A r \in Fields[msg] : r <= p => f[r] # Unset
    /\ change.kind # "empty" =>
         \A r \in Fields[msg] \ Lists[msg] : r < p /\ StatusOf(r) = "MANDATORY" => f[r] \in Name

Parsing ==
    /\ pc = "parse" => Passed(fields, pos)
    /\ pc = "use" => Passed(fields, End(msg))

IInv == TypeOK /\ Sending /\ Parsing /\ DirectionRespected

-----------------------------------------------------------------------------
(* Tables *)

\* What the assumptions say of one table.
LEMMA Table ==
    ASSUME NEW m \in Message
    PROVE  /\ Desc[m] \in Seq(Entry) /\ Len(Desc[m]) \in Nat \ {0}
           /\ End(m) \in Nat
           /\ Fields[m] \subseteq 1..Len(Desc[m])
           /\ Lists[m] \subseteq Fields[m]
           /\ 1 \in Fields[m]
           /\ \A p \in 1..Len(Desc[m]) :
                /\ Desc[m][p].ie \in Name
                /\ \A side \in Side : Desc[m][p][side] \in Status
                /\ FieldOf(m, p) \in Fields[m]
                /\ Desc[m][p].repeat => p - 1 \in Lists[m] /\ p + 1 \in Fields[m] /\ p \notin Fields[m]
                /\ ~Desc[m][p].repeat => p \in Fields[m]
<1>1. /\ Desc[m] \in Seq(Entry) /\ Len(Desc[m]) \in Nat \ {0}
      /\ ~Desc[m][1].repeat
      /\ Desc[m][Len(Desc[m])].ie # Repeat
      /\ ~Desc[m][Len(Desc[m])].repeat
      /\ \A p \in 1..(Len(Desc[m]) - 1) :
            /\ Desc[m][p].ie = Repeat <=> Desc[m][p + 1].repeat
            /\ ~(Desc[m][p].ie = Repeat /\ Desc[m][p].repeat)
  BY DescAssumption
<1>2. Fields[m] = {p \in 1..Len(Desc[m]) : ~Desc[m][p].repeat}
  BY DEF Fields, Positions
<1>3. Lists[m] = {p \in 1..Len(Desc[m]) : Desc[m][p].ie = Repeat}
  BY DEF Lists, Positions
<1>4. \A p \in 1..Len(Desc[m]) : Desc[m][p] \in Entry
  BY <1>1
<1>5. ASSUME NEW p \in 1..Len(Desc[m])
      PROVE  Desc[m][p].ie \in Name /\ Desc[m][p].repeat \in BOOLEAN
                /\ \A side \in Side : Desc[m][p][side] \in Status
  BY <1>4 DEF Entry, Side
<1>6. Lists[m] \subseteq Fields[m]
  <2> SUFFICES ASSUME NEW p \in 1..Len(Desc[m]), Desc[m][p].ie = Repeat
               PROVE  ~Desc[m][p].repeat
    BY <1>2, <1>3
  <2>1. p \in 1..(Len(Desc[m]) - 1)
    BY <1>1
  <2> QED
    BY <2>1, <1>1
<1>7. ASSUME NEW p \in 1..Len(Desc[m]), Desc[m][p].repeat
      PROVE  p - 1 \in Lists[m] /\ p + 1 \in Fields[m] /\ p \notin Fields[m]
  <2>1. p # 1 /\ p # Len(Desc[m])
    BY <1>1, <1>7
  <2>2. p - 1 \in 1..(Len(Desc[m]) - 1) /\ p \in 1..(Len(Desc[m]) - 1) /\ p = (p - 1) + 1
    BY <2>1, <1>1
  <2>3. Desc[m][p - 1].ie = Repeat
    BY <2>2, <1>1, <1>7
  <2>4. Desc[m][p].ie # Repeat
    BY <2>2, <1>1, <1>7
  <2>5. ~Desc[m][p + 1].repeat
    BY <2>2, <2>4, <1>1
  <2> QED
    BY <2>2, <2>3, <2>5, <1>1, <1>2, <1>3, <1>7
<1> QED
  BY <1>1, <1>2, <1>5, <1>6, <1>7 DEF End, FieldOf

\* InitFields changes the fields it is about, and makes no element of them.
LEMMA Initialised ==
    ASSUME NEW m \in Message, NEW f \in [Fields[m] -> Content], NEW from \in Nat, NEW to \in Nat
    PROVE  /\ InitFields(m, f, from, to) \in [Fields[m] -> Content]
           /\ \A p \in Fields[m] :
                /\ p \notin from..to => InitFields(m, f, from, to)[p] = f[p]
                /\ p \in from..to => InitFields(m, f, from, to)[p] \in {Null, EmptyList}
  BY DEF InitFields, Content

\* The three other contents of a field are no elements.
LEMMA NoElement == Unset \notin Name /\ Null \notin Name /\ EmptyList \notin Name /\ Null # Unset
                     /\ EmptyList # Unset
  BY NameAssumption DEF Unset, Null, EmptyList

-----------------------------------------------------------------------------
(* Building *)

\* What is built for an entry are elements with a known name.
LEMMA BuiltType ==
    ASSUME IInv, NEW p \in 1..Len(Desc[msg])
    PROVE  /\ SentBy(p) \in Seq(Wire)
           /\ \A n \in DOMAIN SentBy(p) : SentBy(p)[n].form = "ok"
           /\ BuildResult(p) \in Result
<1>1. msg \in Message /\ sender \in Side /\ source \in Source[msg][sender]
  BY DEF IInv, TypeOK, Sending
<1> DEFINE elements == ElementsOf(p)
<1>2. /\ elements \in Seq(Form)
      /\ \A i \in DOMAIN elements : elements[i] = "long" => Type(p) \in DOMAIN Multi
  <2>1. CASE Desc[msg][p].repeat
    <3>1. p - 1 \in Lists[msg] /\ p - 1 \in Fields[msg] /\ p \notin Lists[msg]
      BY <1>1, <2>1, Table
    <3>2. Desc[msg][p - 1].ie = Repeat /\ Repeat \notin DOMAIN Multi
      BY <3>1, <1>1, NameAssumption DEF Lists
    <3>3. elements = source[p - 1]
      BY <2>1, <3>1 DEF ElementsOf
    <3> QED
      BY <1>1, <3>1, <3>2, <3>3, SourceAssumption
  <2>2. CASE ~Desc[msg][p].repeat /\ p \in Lists[msg]
    <3>1. elements \in {<<"ok">>, <<>>}
      BY <2>2 DEF ElementsOf
    <3>2. <<"ok">> \in Seq(Form) /\ <<>> \in Seq(Form)
      BY DEF Form
    <3>3. ASSUME NEW i \in DOMAIN elements PROVE elements[i] = "ok"
      BY <3>1
    <3> QED
      BY <3>1, <3>2, <3>3
  <2>3. CASE ~Desc[msg][p].repeat /\ p \notin Lists[msg]
    <3>1. elements = source[p] /\ p \in Fields[msg]
      BY <1>1, <2>3, Table DEF ElementsOf
    <3> QED
      BY <1>1, <3>1, SourceAssumption DEF Type
  <2> QED
    BY <2>1, <2>2, <2>3
<1>3. ASSUME NEW i \in DOMAIN elements
      PROVE  SentAs(Type(p), elements[i]) \in Name
  BY <1>1, <1>2, NameAssumption, Table DEF SentAs, Type
<1>4. p \in Nat /\ Len(elements) \in Nat /\ DOMAIN elements = 1..Len(elements)
  BY <1>1, <1>2, Table
<1>5. SentBy(p) = <<>> \/ SentBy(p) = [i \in 1..Len(elements) |->
                 [ie |-> SentAs(Type(p), elements[i]), form |-> "ok", entry |-> p]]
  BY <1>4 DEF SentBy
<1>6. ASSUME NEW i \in 1..Len(elements)
      PROVE  [ie |-> SentAs(Type(p), elements[i]), form |-> "ok", entry |-> p] \in Wire
  BY <1>3, <1>4 DEF Wire, WireForm
<1>7. [i \in 1..Len(elements) |->
         [ie |-> SentAs(Type(p), elements[i]), form |-> "ok", entry |-> p]] \in Seq(Wire)
  BY <1>4, <1>6
<1>8. \A n \in DOMAIN SentBy(p) : SentBy(p)[n].form = "ok"
  BY <1>4, <1>5
<1>9. BuildResult(p) \in Result
  BY DEF BuildResult, Result
<1>10. <<>> \in Seq(Wire)
  OBVIOUS
<1>11. SentBy(p) \in Seq(Wire)
  BY <1>5, <1>7, <1>10
<1> QED
  BY <1>8, <1>9, <1>11

LEMMA BuildKeeps == IInv /\ (BuildElements \/ BuildEnd) => IInv'
<1> SUFFICES ASSUME IInv, BuildElements \/ BuildEnd PROVE IInv'
  OBVIOUS
<1>1. msg \in Message /\ Len(Desc[msg]) \in Nat /\ End(msg) = Len(Desc[msg]) + 1 /\ pos \in 1..End(msg)
  BY Table DEF IInv, TypeOK, End
<1>2. CASE BuildElements
  <2>1. PICK p \in pos..Len(Desc[msg]) :
            \/ /\ BuildResult(p) = "OK"
               /\ wire' = wire \o SentBy(p)
               /\ pos' = p + 1
               /\ UNCHANGED <<result, pc>>
            \/ /\ BuildResult(p) # "OK"
               /\ result' = BuildResult(p)
               /\ pc' = "rejected"
               /\ UNCHANGED <<wire, pos>>
    BY <1>2 DEF BuildElements
  <2>2. pc = "build" /\ UNCHANGED <<msg, sender, source, change, fields, lost>>
    BY <1>2 DEF BuildElements
  <2>3. p \in 1..Len(Desc[msg]) /\ p + 1 \in 1..End(msg)
    BY <1>1
  <2>4. /\ SentBy(p) \in Seq(Wire) /\ BuildResult(p) \in Result
        /\ \A n \in DOMAIN SentBy(p) : SentBy(p)[n].form = "ok"
    BY <2>3, BuiltType
  <2>5. wire \in Seq(Wire)
    BY DEF IInv, TypeOK
  <2>6. wire \o SentBy(p) \in Seq(Wire)
    BY <2>4, <2>5
  <2>7. TypeOK'
    BY <2>1, <2>2, <2>3, <2>4, <2>6 DEF IInv, TypeOK
  <2>8. Sending'
    <3>1. pc' # "send"
      BY <2>1, <2>2
    <3>2. ASSUME change.kind # "empty", NEW n \in DOMAIN (wire \o SentBy(p))
          PROVE  (wire \o SentBy(p))[n].form # "empty"
      <4>1. n \in 1..Len(wire) \/ n - Len(wire) \in 1..Len(SentBy(p))
        BY <2>4, <2>5, <3>2
      <4>2. CASE n \in 1..Len(wire)
        BY <4>2, <2>4, <2>5, <3>2 DEF IInv, Sending
      <4>3. CASE n - Len(wire) \in 1..Len(SentBy(p))
        BY <4>3, <2>4, <2>5, <3>2
      <4> QED
        BY <4>1, <4>2, <4>3
    <3> QED
      BY <2>1, <2>2, <3>1, <3>2 DEF IInv, Sending
  <2>9. Parsing' /\ DirectionRespected'
    BY <2>1, <2>2 DEF IInv, Parsing, DirectionRespected, StatusOf
  <2> QED
    BY <2>7, <2>8, <2>9 DEF IInv
<1>3. CASE BuildEnd
  BY <1>1, <1>3 DEF BuildEnd, IInv, TypeOK, Sending, Parsing, DirectionRespected, StatusOf
<1> QED
  BY <1>2, <1>3

\* A message that is changed on its way is still a sequence of elements.
LEMMA DisturbKeeps == IInv /\ Disturb => IInv'
<1> SUFFICES ASSUME IInv, Disturb PROVE IInv'
  OBVIOUS
<1>1. UNCHANGED <<msg, sender, source, pos, fields, lost, result, pc>>
         /\ pc = "send" /\ change.kind = "none"
  BY DEF Disturb
<1>2. wire \in Seq(Wire) /\ \A n \in DOMAIN wire : wire[n].form # "empty"
  BY <1>1 DEF IInv, TypeOK, Sending
<1>3. PICK n \in DOMAIN wire, kind \in Kind \ {"none"} :
        /\ change' = [kind |-> kind, entry |-> wire[n].entry]
        /\ CASE kind = "corrupt" -> wire[n].ie \in Checked
             [] kind = "truncated" -> n = Len(wire)
             [] kind = "empty" -> wire[n].ie \in VariableLen
             [] kind = "moved" -> n < Len(wire) /\ wire[n] # wire[n + 1]
             [] OTHER -> TRUE
        /\ CASE kind = "missing" -> wire' = SubSeq(wire, 1, n - 1) \o SubSeq(wire, n + 1, Len(wire))
             [] kind = "moved" -> wire' = [wire EXCEPT ![n] = wire[n + 1], ![n + 1] = wire[n]]
             [] kind = "foreign" -> \E ie \in Foreign :
                    wire' = SubSeq(wire, 1, n - 1) \o <<[ie |-> ie, form |-> "ok", entry |-> 0]>>
                              \o SubSeq(wire, n, Len(wire))
             [] OTHER -> wire' = [wire EXCEPT ![n].form = kind]
  BY DEF Disturb
<1> DEFINE Sound(w) == w \in Seq(Wire) /\ (kind # "empty" => \A i \in DOMAIN w : w[i].form # "empty")
<1>4. n \in 1..Len(wire) /\ Len(wire) \in Nat /\ wire[n] \in Wire
  BY <1>2, <1>3
<1>5. ASSUME NEW u \in Seq(Wire), NEW v \in Seq(Wire), Sound(u), Sound(v)
      PROVE  Sound(u \o v)
  <2>1. u \o v \in Seq(Wire)
    OBVIOUS
  <2>2. ASSUME kind # "empty", NEW i \in DOMAIN (u \o v)
        PROVE  (u \o v)[i].form # "empty"
    <3>1. i \in 1..Len(u) \/ i - Len(u) \in 1..Len(v)
      BY <2>2
    <3>2. CASE i \in 1..Len(u)
      BY <1>5, <2>2, <3>2
    <3>3. CASE i - Len(u) \in 1..Len(v)
      BY <1>5, <2>2, <3>3
    <3> QED
      BY <3>1, <3>2, <3>3
  <2> QED
    BY <2>1, <2>2
<1>6. ASSUME NEW a \in 1..(Len(wire) + 1), NEW b \in 0..Len(wire)
      PROVE  SubSeq(wire, a, b) \in Seq(Wire) /\ Sound(SubSeq(wire, a, b))
  BY <1>2, <1>4
<1>7. Sound(wire')
  <2>1. CASE kind = "missing"
    <3>1. wire' = SubSeq(wire, 1, n - 1) \o SubSeq(wire, n + 1, Len(wire))
      BY <1>3, <2>1
    <3>2. n - 1 \in 0..Len(wire) /\ n + 1 \in 1..(Len(wire) + 1)
          /\ 1 \in 1..(Len(wire) + 1) /\ Len(wire) \in 0..Len(wire)
      BY <1>4
    <3> QED
      BY <1>5, <1>6, <3>1, <3>2
  <2>2. CASE kind = "moved"
    <3>1. wire' = [wire EXCEPT ![n] = wire[n + 1], ![n + 1] = wire[n]] /\ n + 1 \in 1..Len(wire)
      BY <1>3, <1>4, <2>2
    <3>2. wire[n + 1] \in Wire
      BY <1>2, <3>1
    <3>3. wire' \in Seq(Wire) /\ DOMAIN wire' = DOMAIN wire
      BY <1>2, <1>4, <3>1, <3>2
    <3> QED
      BY <1>2, <1>4, <2>2, <3>1, <3>3
  <2>3. CASE kind = "foreign"
    <3>1. PICK ie \in Foreign :
             wire' = SubSeq(wire, 1, n - 1) \o <<[ie |-> ie, form |-> "ok", entry |-> 0]>>
                       \o SubSeq(wire, n, Len(wire))
      BY <1>3, <2>3
    <3> DEFINE new == <<[ie |-> ie, form |-> "ok", entry |-> 0]>>
    <3>2. [ie |-> ie, form |-> "ok", entry |-> 0] \in Wire
      BY NameAssumption DEF Wire, WireForm
    <3>3. new \in Seq(Wire) /\ Sound(new)
      BY <3>2
    <3>4. n - 1 \in 0..Len(wire) /\ n \in 1..(Len(wire) + 1)
          /\ 1 \in 1..(Len(wire) + 1) /\ Len(wire) \in 0..Len(wire)
      BY <1>4
    <3>5. SubSeq(wire, 1, n - 1) \o new \in Seq(Wire) /\ Sound(SubSeq(wire, 1, n - 1) \o new)
      BY <1>5, <1>6, <3>3, <3>4
    <3> HIDE DEF new, Sound
    <3>6. Sound((SubSeq(wire, 1, n - 1) \o new) \o SubSeq(wire, n, Len(wire)))
      BY <1>5, <1>6, <3>4, <3>5
    <3> QED
      BY <3>1, <3>6 DEF new
  <2>4. CASE kind \in {"corrupt", "truncated", "empty"}
    <3>1. wire' = [wire EXCEPT ![n].form = kind]
      BY <1>3, <2>4
    <3>2. [wire[n] EXCEPT !.form = kind] \in Wire
      BY <1>4, <2>4 DEF Wire, WireForm
    <3>3. wire' = [wire EXCEPT ![n] = [wire[n] EXCEPT !.form = kind]]
      BY <3>1
    <3>4. wire' \in Seq(Wire) /\ DOMAIN wire' = DOMAIN wire
      BY <1>2, <1>4, <3>2, <3>3
    <3>5. ASSUME kind # "empty", NEW i \in DOMAIN wire' PROVE wire'[i].form # "empty"
      BY <1>2, <1>4, <3>2, <3>3, <3>4, <3>5 DEF Wire
    <3> QED
      BY <3>4, <3>5
  <2> QED
    BY <2>1, <2>2, <2>3, <2>4 DEF Kind
<1>8. change'.kind = kind /\ change'.kind \in Kind
  BY <1>3
<1>9. TypeOK'
  BY <1>1, <1>7, <1>8 DEF IInv, TypeOK
<1>10. Sending'
  BY <1>1, <1>7, <1>8 DEF IInv, Sending
<1>11. Parsing' /\ DirectionRespected'
  BY <1>1 DEF IInv, Parsing, DirectionRespected, StatusOf
<1> QED
  BY <1>9, <1>10, <1>11 DEF IInv

-----------------------------------------------------------------------------
(* Parsing *)

\* What the invariant says when a message is being parsed.
LEMMA AtParse ==
    ASSUME IInv, pc = "parse"
    PROVE  /\ msg \in Message /\ fields \in [Fields[msg] -> Content] /\ lost \subseteq Name
           /\ Len(Desc[msg]) \in Nat /\ End(msg) = Len(Desc[msg]) + 1
           /\ pos \in 1..End(msg) /\ pos \in Nat
           /\ wire \in Seq(Wire)
           /\ Passed(fields, pos)
           /\ \A r \in Fields[msg] : fields[r] \in Name => StatusOf(r) # "NONE"
           /\ Fields[msg] \subseteq 1..Len(Desc[msg])
  BY Table DEF IInv, TypeOK, Parsing, DirectionRespected, End

\* The elements in fields are elements.
LEMMA ElementsInFields == \A f : InFields(f) \subseteq Name
  BY DEF InFields

\* A failing step leaves no field with an element its sender must not send.
LEMMA FailKeeps ==
    ASSUME IInv, pc = "parse",
           NEW error \in Result, NEW reached \in [Fields[msg] -> Content],
           \A r \in Fields[msg] : reached[r] \in Name => StatusOf(r) # "NONE",
           Fail(error, reached),
           pos' \in 1..End(msg),
           UNCHANGED <<msg, sender, source, wire, change>>
    PROVE  IInv'
<1>1. TypeOK'
  BY ElementsInFields DEF IInv, TypeOK, Fail
<1>2. Sending' /\ Parsing'
  BY DEF IInv, Sending, Parsing, Fail
<1>3. DirectionRespected'
  BY DEF DirectionRespected, Fail, StatusOf
<1> QED
  BY <1>1, <1>2, <1>3 DEF IInv

\* What holds of the entries up to the one that was found holds of the entries
\* before the next one: a repeated element, which is stored in the field of the
\* next entry whatever its status, is overwritten.
LEMMA GoOnKeeps ==
    ASSUME IInv, pc = "parse", wire # <<>>,
           NEW q \in pos..Len(Desc[msg]), NEW reached \in [Fields[msg] -> Content],
           \A r \in Fields[msg] : r <= q => reached[r] # Unset,
           \A r \in Fields[msg] : r # q + 1 /\ reached[r] \in Name => StatusOf(r) # "NONE",
           change.kind # "empty" =>
             \A r \in Fields[msg] \ Lists[msg] :
               r < q + 1 /\ StatusOf(r) = "MANDATORY" => reached[r] \in Name,
           GoOn(reached, q),
           UNCHANGED <<msg, sender, source, change>>
    PROVE  IInv'
<1>1. /\ msg \in Message /\ Len(Desc[msg]) \in Nat /\ End(msg) = Len(Desc[msg]) + 1
      /\ pos \in Nat /\ pos \in 1..End(msg) /\ wire \in Seq(Wire) /\ lost \subseteq Name
      /\ Fields[msg] \subseteq 1..Len(Desc[msg])
  BY AtParse
<1>2. q \in Nat /\ q + 1 \in Nat /\ q + 1 \in 1..End(msg)
  BY <1>1
<1> DEFINE next == InitFields(msg, reached, q + 1, q + 1)
<1>3. /\ next \in [Fields[msg] -> Content]
      /\ \A r \in Fields[msg] : r # q + 1 => next[r] = reached[r]
      /\ \A r \in Fields[msg] : r = q + 1 => next[r] \in {Null, EmptyList}
  <2>1. /\ next \in [Fields[msg] -> Content]
        /\ \A r \in Fields[msg] :
             /\ r \notin (q + 1)..(q + 1) => next[r] = reached[r]
             /\ r \in (q + 1)..(q + 1) => next[r] \in {Null, EmptyList}
    BY <1>1, <1>2, Initialised, Zenon
  <2>2. \A r \in Fields[msg] : r \in (q + 1)..(q + 1) <=> r = q + 1
    BY <1>1, <1>2
  <2> QED
    BY <2>1, <2>2
<1>4. /\ fields' = next /\ pos' = q + 1 /\ wire' = Tail(wire)
      /\ lost' = lost \cup Overwritten(reached, q + 1, q + 1)
      /\ UNCHANGED <<result, pc>>
  BY DEF GoOn
<1>5. Tail(wire) \in Seq(Wire) /\ Len(Tail(wire)) = Len(wire) - 1
         /\ \A n \in 1..Len(Tail(wire)) : Tail(wire)[n] = wire[n + 1]
  BY <1>1
<1>6. TypeOK'
  BY <1>1, <1>2, <1>3, <1>4, <1>5, ElementsInFields DEF IInv, TypeOK, Overwritten
<1>7. Sending'
  <2>1. ASSUME change.kind # "empty", NEW n \in DOMAIN Tail(wire)
        PROVE  Tail(wire)[n].form # "empty"
    BY <1>1, <1>5, <2>1 DEF IInv, Sending
  <2> QED
    BY <1>4, <2>1 DEF IInv, Sending
<1>8. Parsing'
  <2>1. \A r \in Fields[msg] : r <= q + 1 => next[r] # Unset
    BY <1>1, <1>2, <1>3, NoElement
  <2>2. ASSUME change.kind # "empty", NEW r \in Fields[msg] \ Lists[msg],
               r < q + 1, StatusOf(r) = "MANDATORY"
        PROVE  next[r] \in Name
    BY <1>1, <1>2, <1>3, <2>2
  <2>3. Passed(next, q + 1)
    BY <2>1, <2>2 DEF Passed
  <2> QED
    BY <1>4, <2>3 DEF Parsing, Passed, StatusOf
<1>9. DirectionRespected'
  BY <1>2, <1>3, <1>4, NoElement DEF DirectionRespected, StatusOf
<1> QED
  BY <1>6, <1>7, <1>8, <1>9 DEF IInv

\* The fields after the search for an element that ends at entry q, before which
\* there is no mandatory one.
LEMMA Searched ==
    ASSUME IInv, pc = "parse", NEW q \in pos..End(msg),
           \A p \in pos..(q - 1) : StatusOf(p) # "MANDATORY"
    PROVE  LET here == InitFields(msg, fields, pos + 1, q)
           IN  /\ here \in [Fields[msg] -> Content]
               /\ \A r \in Fields[msg] : r <= q => here[r] # Unset
               /\ \A r \in Fields[msg] : here[r] \in Name => StatusOf(r) # "NONE"
               /\ change.kind # "empty" =>
                    \A r \in Fields[msg] \ Lists[msg] :
                      r < q /\ StatusOf(r) = "MANDATORY" => here[r] \in Name
<1> DEFINE here == InitFields(msg, fields, pos + 1, q)
<1>1. /\ msg \in Message /\ fields \in [Fields[msg] -> Content]
      /\ Len(Desc[msg]) \in Nat /\ End(msg) = Len(Desc[msg]) + 1
      /\ pos \in Nat /\ pos \in 1..End(msg)
      /\ Passed(fields, pos)
      /\ \A r \in Fields[msg] : fields[r] \in Name => StatusOf(r) # "NONE"
      /\ Fields[msg] \subseteq 1..Len(Desc[msg])
  BY AtParse
<1>2. pos + 1 \in Nat /\ q \in Nat
  BY <1>1
<1>3. /\ here \in [Fields[msg] -> Content]
      /\ \A r \in Fields[msg] : r \notin (pos + 1)..q => here[r] = fields[r]
      /\ \A r \in Fields[msg] : r \in (pos + 1)..q => here[r] \in {Null, EmptyList}
  BY <1>1, <1>2, Initialised
<1>4. ASSUME NEW r \in Fields[msg], r <= q PROVE here[r] # Unset
  <2>1. r \in Nat /\ (r <= pos \/ r \in (pos + 1)..q)
    BY <1>1, <1>2, <1>4
  <2>2. CASE r <= pos
    BY <1>1, <1>3, <2>1, <2>2 DEF Passed
  <2>3. CASE r \in (pos + 1)..q
    BY <1>3, <2>3, NoElement
  <2> QED
    BY <2>1, <2>2, <2>3
<1>5. ASSUME NEW r \in Fields[msg], here[r] \in Name PROVE StatusOf(r) # "NONE"
  BY <1>1, <1>3, <1>5, NoElement
<1>6. ASSUME change.kind # "empty", NEW r \in Fields[msg] \ Lists[msg],
             r < q, StatusOf(r) = "MANDATORY"
      PROVE  here[r] \in Name
  <2>1. r \in Nat /\ r < pos
    BY <1>1, <1>2, <1>6
  <2> QED
    BY <1>1, <1>3, <1>6, <2>1 DEF Passed
<1> QED
  BY <1>3, <1>4, <1>5, <1>6

LEMMA ReceiveKeeps == IInv /\ Receive => IInv'
<1> SUFFICES ASSUME IInv, Receive PROVE IInv'
  OBVIOUS
<1>1. /\ pc = "send" /\ pc' = "parse" /\ fields' = InitFields(msg, fields, 1, 1)
      /\ UNCHANGED <<msg, sender, source, wire, change, pos, lost, result>>
  BY DEF Receive
<1>2. msg \in Message /\ fields \in [Fields[msg] -> Content] /\ pos = 1
      /\ Fields[msg] \subseteq 1..Len(Desc[msg]) /\ Len(Desc[msg]) \in Nat
  BY <1>1, Table DEF IInv, TypeOK, Sending
<1>3. /\ fields' \in [Fields[msg] -> Content]
      /\ \A r \in Fields[msg] : r \notin 1..1 => fields'[r] = fields[r]
      /\ \A r \in Fields[msg] : r \in 1..1 => fields'[r] \in {Null, EmptyList}
  <2>1. 1 \in Nat
    OBVIOUS
  <2>2. /\ InitFields(msg, fields, 1, 1) \in [Fields[msg] -> Content]
        /\ \A r \in Fields[msg] :
             /\ r \notin 1..1 => InitFields(msg, fields, 1, 1)[r] = fields[r]
             /\ r \in 1..1 => InitFields(msg, fields, 1, 1)[r] \in {Null, EmptyList}
    BY <1>2, <2>1, Initialised, Zenon
  <2>3. fields' = InitFields(msg, fields, 1, 1)
    BY <1>1
  <2> QED
    BY <2>2, <2>3
<1>4. TypeOK' /\ Sending'
  BY <1>1, <1>3 DEF IInv, TypeOK, Sending
<1>5. DirectionRespected'
  BY <1>1, <1>2, <1>3, NoElement DEF IInv, DirectionRespected, StatusOf
<1>6. Passed(fields', 1)
  BY <1>2, <1>3, NoElement DEF Passed
<1>7. Parsing'
  BY <1>1, <1>2, <1>6 DEF Parsing, Passed, StatusOf
<1> QED
  BY <1>4, <1>5, <1>7 DEF IInv

LEMMA RefusalKeeps == IInv /\ (Truncated \/ Refused) => IInv'
<1> SUFFICES ASSUME IInv, Truncated \/ Refused PROVE IInv'
  OBVIOUS
<1>1. pc = "parse"
  BY DEF Truncated, Refused
<1>2. "MANDATORY_IE_MISSING" \in Result
  BY DEF Result
<1>3. /\ msg \in Message /\ fields \in [Fields[msg] -> Content]
      /\ Len(Desc[msg]) \in Nat /\ End(msg) = Len(Desc[msg]) + 1
      /\ pos \in Nat /\ pos \in 1..End(msg)
      /\ \A r \in Fields[msg] : fields[r] \in Name => StatusOf(r) # "NONE"
  BY <1>1, AtParse
<1>4. CASE Truncated
  <2>1. Fail("MANDATORY_IE_MISSING", fields) /\ UNCHANGED <<msg, sender, source, wire, change, pos>>
    BY <1>4 DEF Truncated
  <2> QED
    BY <1>1, <1>2, <1>3, <2>1, FailKeeps
<1>5. CASE Refused
  <2>1. PICK q \in pos..Len(Desc[msg]) :
            /\ FoundAt(q, Head(wire).ie)
            /\ Fail("MANDATORY_IE_MISSING", InitFields(msg, fields, pos + 1, q))
            /\ pos' = q
            /\ UNCHANGED <<msg, sender, source, wire, change>>
    BY <1>5 DEF Refused
  <2>2. q \in pos..End(msg) /\ q \in 1..End(msg)
    BY <1>3
  <2>3. \A p \in pos..(q - 1) : StatusOf(p) # "MANDATORY"
    BY <2>1, <2>2 DEF FoundAt, Stops
  <2>4. /\ InitFields(msg, fields, pos + 1, q) \in [Fields[msg] -> Content]
        /\ \A r \in Fields[msg] :
             InitFields(msg, fields, pos + 1, q)[r] \in Name => StatusOf(r) # "NONE"
    BY <1>1, <2>2, <2>3, Searched
  <2> QED
    BY <1>1, <1>2, <2>1, <2>2, <2>4, FailKeeps
<1> QED
  BY <1>4, <1>5

\* dst points at the field of the entry that was found or, for a repeated one, at
\* the next field; the table allows the element in the former case.
LEMMA StoreKeeps ==
    ASSUME IInv, pc = "parse", wire # <<>>, NEW q \in pos..Len(Desc[msg]),
           FoundAt(q, Head(wire).ie), Matches(q, Head(wire).ie), StatusOf(q) # "NONE",
           Store(Head(wire), q, InitFields(msg, fields, pos + 1, q)),
           UNCHANGED <<msg, sender, source, change>>
    PROVE  IInv'
<1> DEFINE h == Head(wire)
           here == InitFields(msg, fields, pos + 1, q)
           stored == [here EXCEPT ![FieldOf(msg, q)] = h.ie]
<1>1. /\ msg \in Message /\ Len(Desc[msg]) \in Nat /\ End(msg) = Len(Desc[msg]) + 1
      /\ pos \in Nat /\ pos \in 1..End(msg) /\ wire \in Seq(Wire)
      /\ Fields[msg] \subseteq 1..Len(Desc[msg])
  BY AtParse
<1>2. q \in Nat /\ q \in 1..Len(Desc[msg]) /\ q \in pos..End(msg) /\ q \in 1..End(msg)
  BY <1>1
<1>3. \A p \in pos..(q - 1) : StatusOf(p) # "MANDATORY"
  BY <1>1, <1>2 DEF FoundAt, Stops
<1>4. /\ here \in [Fields[msg] -> Content]
      /\ \A r \in Fields[msg] : r <= q => here[r] # Unset
      /\ \A r \in Fields[msg] : here[r] \in Name => StatusOf(r) # "NONE"
      /\ change.kind # "empty" =>
           \A r \in Fields[msg] \ Lists[msg] :
             r < q /\ StatusOf(r) = "MANDATORY" => here[r] \in Name
  BY <1>1, <1>2, <1>3, Searched
<1>5. h \in Wire /\ h = wire[1] /\ 1 \in DOMAIN wire
  BY <1>1
<1>6. FieldOf(msg, q) \in Fields[msg] /\ (Desc[msg][q].repeat => q \notin Fields[msg])
         /\ FieldOf(msg, q) = IF Desc[msg][q].repeat THEN q + 1 ELSE q
  BY <1>1, <1>2, Table DEF FieldOf
<1>7. h.ie \in Name /\ h.ie \in Content /\ h.ie # Unset
  BY <1>5, NoElement DEF Wire, Content
<1>8. stored \in [Fields[msg] -> Content]
  BY <1>4, <1>6, <1>7
<1>9. \A r \in Fields[msg] : stored[r] = IF r = FieldOf(msg, q) THEN h.ie ELSE here[r]
  BY <1>4, <1>8
<1> HIDE DEF stored, here
<1>10. ASSUME GoOn(stored, q) PROVE IInv'
  <2>1. \A r \in Fields[msg] : r <= q => stored[r] # Unset
    BY <1>4, <1>7, <1>9
  <2>2. \A r \in Fields[msg] : r # q + 1 /\ stored[r] \in Name => StatusOf(r) # "NONE"
    BY <1>4, <1>6, <1>9
  <2>3. ASSUME change.kind # "empty", NEW r \in Fields[msg] \ Lists[msg],
               r < q + 1, StatusOf(r) = "MANDATORY"
        PROVE  stored[r] \in Name
    <3>1. r \in Nat /\ (r < q \/ r = q)
      BY <1>1, <1>2, <2>3
    <3>2. CASE r < q
      BY <1>2, <1>4, <1>6, <1>7, <1>9, <2>3, <3>1, <3>2
    <3>3. CASE r = q
      BY <1>6, <1>7, <1>9, <2>3, <3>3
    <3> QED
      BY <3>1, <3>2, <3>3
  <2> QED
    BY <1>8, <1>10, <2>1, <2>2, <2>3, GoOnKeeps
<1>11. ASSUME GoOn(here, q), q \notin Fields[msg] \/ q \in Lists[msg] \/ StatusOf(q) # "MANDATORY"
                               \/ change.kind = "empty"
       PROVE  IInv'
  <2>1. ASSUME change.kind # "empty", NEW r \in Fields[msg] \ Lists[msg],
               r < q + 1, StatusOf(r) = "MANDATORY"
        PROVE  here[r] \in Name
    <3>1. r \in Nat /\ (r < q \/ r = q)
      BY <1>1, <1>2, <2>1
    <3> QED
      BY <1>4, <1>11, <2>1, <3>1
  <2> QED
    BY <1>4, <1>11, <2>1, GoOnKeeps
<1>12. ASSUME NEW error \in Result, Fail(error, here), UNCHANGED <<wire, pos>> PROVE IInv'
  BY <1>1, <1>4, <1>12, FailKeeps
<1>13. h.ie = Repeat => q \in Lists[msg] \/ StatusOf(q) # "MANDATORY"
  BY <1>1, <1>2 DEF Matches, Type, Lists, Positions
<1>14. h.form = "empty" => change.kind = "empty"
  BY <1>5 DEF IInv, Sending
<1>15. "undefined" \in Result /\ "MANDATORY_IE_ERROR" \in Result
  BY DEF Result
<1>16. Store(h, q, here)
  BY DEF here
<1>17. \/ h.form = "empty" /\ GoOn(here, q)
       \/ h.ie = Repeat /\ GoOn(here, q)
       \/ GoOn(stored, q)
       \/ Fail("undefined", here) /\ UNCHANGED <<wire, pos>>
       \/ Fail("MANDATORY_IE_ERROR", here) /\ UNCHANGED <<wire, pos>>
       \/ StatusOf(q) # "MANDATORY" /\ GoOn(here, q)
  BY <1>16 DEF Store, stored
<1> QED
  BY <1>1, <1>10, <1>11, <1>12, <1>13, <1>14, <1>15, <1>17

\* The last step of the parser: no mandatory entry is left, or it fails.
LEMMA EndKeeps == IInv /\ (PastEnd \/ Finish) => IInv'
<1> SUFFICES ASSUME IInv, PastEnd \/ Finish PROVE IInv'
  OBVIOUS
<1>1. pc = "parse"
  BY DEF PastEnd, Finish
<1>2. /\ msg \in Message /\ fields \in [Fields[msg] -> Content] /\ lost \subseteq Name
      /\ Len(Desc[msg]) \in Nat /\ End(msg) = Len(Desc[msg]) + 1
      /\ pos \in Nat /\ pos \in 1..End(msg) /\ wire \in Seq(Wire)
      /\ Fields[msg] \subseteq 1..Len(Desc[msg])
  BY <1>1, AtParse
<1>3. End(msg) \in pos..End(msg) /\ End(msg) \in 1..End(msg) /\ End(msg) - 1 = Len(Desc[msg])
         /\ End(msg) \in Nat /\ pos + 1 \in Nat
  BY <1>2
<1> DEFINE here == InitFields(msg, fields, pos + 1, Len(Desc[msg]))
<1>4. here = InitFields(msg, fields, pos + 1, End(msg))
  <2>1. \A p \in Fields[msg] : p \in (pos + 1)..Len(Desc[msg]) <=> p \in (pos + 1)..End(msg)
    BY <1>2, <1>3
  <2>2. DOMAIN fields = Fields[msg]
    BY <1>2
  <2> QED
    BY <2>1, <2>2 DEF InitFields
<1>5. ASSUME \A p \in pos..Len(Desc[msg]) : StatusOf(p) # "MANDATORY"
      PROVE  /\ here \in [Fields[msg] -> Content]
             /\ Passed(here, End(msg))
             /\ \A r \in Fields[msg] : here[r] \in Name => StatusOf(r) # "NONE"
  <2>1. \A p \in pos..(End(msg) - 1) : StatusOf(p) # "MANDATORY"
    BY <1>3, <1>5
  <2> QED
    BY <1>1, <1>3, <1>4, <2>1, Searched DEF Passed
<1> HIDE DEF here
<1>6. ASSUME \A p \in pos..Len(Desc[msg]) : StatusOf(p) # "MANDATORY",
             fields' = here, pos' = End(msg), wire' \in {<<>>, wire}, pc' \in {"parse", "use"},
             UNCHANGED <<msg, sender, source, change, lost, result>>
      PROVE  IInv'
  <2>1. /\ here \in [Fields[msg] -> Content]
        /\ Passed(here, End(msg))
        /\ \A r \in Fields[msg] : here[r] \in Name => StatusOf(r) # "NONE"
    BY <1>5, <1>6
  <2>2. TypeOK'
    <3>1. wire' \in Seq(Wire)
      <4>1. wire \in Seq(Wire) /\ <<>> \in Seq(Wire)
        BY <1>2
      <4>2. wire' = <<>> \/ wire' = wire
        BY <1>6
      <4> QED
        BY <4>1, <4>2
    <3>2. pos' \in 1..End(msg)
      BY <1>3, <1>6
    <3> QED
      BY <1>6, <2>1, <3>1, <3>2 DEF IInv, TypeOK
  <2>3. Sending'
    BY <1>6 DEF IInv, Sending
  <2>4. Parsing'
    BY <1>6, <2>1 DEF Parsing, Passed, StatusOf, End
  <2>5. DirectionRespected'
    BY <1>6, <2>1 DEF DirectionRespected, StatusOf
  <2> QED
    BY <2>2, <2>3, <2>4, <2>5 DEF IInv
<1>7. CASE PastEnd
  <2>1. /\ fields' = here /\ pos' = End(msg) /\ wire' = <<>>
        /\ UNCHANGED <<msg, sender, source, change, lost, result, pc>>
        /\ FoundAt(End(msg), Head(wire).ie)
    BY <1>7 DEF PastEnd, here
  <2>2. \A p \in pos..Len(Desc[msg]) : StatusOf(p) # "MANDATORY"
    BY <1>2, <1>3, <2>1 DEF FoundAt, Stops
  <2> QED
    BY <1>1, <1>6, <2>1, <2>2
<1>8. CASE Finish
  <2>1. UNCHANGED <<msg, sender, source, wire, change>>
    BY <1>8 DEF Finish
  <2>2. CASE ~\E p \in pos..Len(Desc[msg]) : StatusOf(p) = "MANDATORY"
    <3>1. /\ fields' = here /\ pos' = End(msg) /\ pc' = "use"
          /\ UNCHANGED <<lost, result>>
      BY <1>8, <2>2 DEF Finish, here
    <3> QED
      BY <1>6, <2>1, <2>2, <3>1
  <2>3. CASE \E p \in pos..Len(Desc[msg]) : StatusOf(p) = "MANDATORY"
    <3>1. PICK p \in pos..Len(Desc[msg]) :
             /\ \A q \in pos..(p - 1) : StatusOf(q) # "MANDATORY"
             /\ Fail("MANDATORY_IE_MISSING", InitFields(msg, fields, pos + 1, p))
             /\ pos' = p
      BY <1>8, <2>3 DEF Finish
    <3>2. p \in pos..End(msg) /\ p \in 1..End(msg)
      BY <1>2
    <3>3. /\ InitFields(msg, fields, pos + 1, p) \in [Fields[msg] -> Content]
          /\ \A r \in Fields[msg] :
               InitFields(msg, fields, pos + 1, p)[r] \in Name => StatusOf(r) # "NONE"
      BY <1>1, <3>1, <3>2, Searched
    <3>4. "MANDATORY_IE_MISSING" \in Result
      BY DEF Result
    <3> QED
      BY <1>1, <2>1, <3>1, <3>2, <3>3, <3>4, FailKeeps
  <2> QED
    BY <2>2, <2>3
<1> QED
  BY <1>7, <1>8

LEMMA FreeKeeps == IInv /\ Free => IInv'
<1> SUFFICES ASSUME IInv, Free PROVE IInv'
  OBVIOUS
<1>1. /\ pc' = "freed" /\ UNCHANGED <<msg, sender, source, wire, change, pos>>
      /\ lost' = lost \cup InFields(fields')
      /\ result' \in {result, "undefined"}
  BY DEF Free
<1>2. PICK put \in {PointersOf(FreedAs[msg])} :
        fields' = [p \in Fields[msg] |->
                    IF Address[msg][p] \in put /\ p \notin Lists[msg] THEN Null ELSE fields[p]]
  BY DEF Free
<1>3. fields \in [Fields[msg] -> Content]
  BY DEF IInv, TypeOK
<1>4. /\ fields' \in [Fields[msg] -> Content]
      /\ \A r \in Fields[msg] : fields'[r] \in {Null, fields[r]}
  BY <1>2, <1>3 DEF Content
<1>5. TypeOK'
  BY <1>1, <1>4, ElementsInFields DEF IInv, TypeOK, Result
<1>6. Sending' /\ Parsing'
  BY <1>1 DEF IInv, Sending, Parsing
<1>7. DirectionRespected'
  BY <1>1, <1>4, NoElement DEF IInv, DirectionRespected, StatusOf
<1> QED
  BY <1>5, <1>6, <1>7 DEF IInv

-----------------------------------------------------------------------------
(* The theorems *)

\* The invariant holds when the structure is filled, and every action keeps it.
LEMMA InitInv == Init => IInv
<1> SUFFICES ASSUME Init PROVE IInv
  OBVIOUS
<1>1. /\ msg \in Message /\ sender \in Side /\ source \in Source[msg][sender]
      /\ wire = <<>> /\ change = [kind |-> "none", entry |-> 0] /\ pos = 1
      /\ fields = [p \in Fields[msg] |-> Unset] /\ lost = {} /\ result = "OK" /\ pc = "build"
  BY DEF Init
<1>2. End(msg) \in Nat /\ pos \in 1..End(msg)
  BY <1>1, Table DEF End
<1>3. fields \in [Fields[msg] -> Content] /\ \A r \in Fields[msg] : fields[r] = Unset
  BY <1>1 DEF Content
<1>4. wire \in Seq(Wire) /\ change.kind \in Kind /\ result \in Result /\ DOMAIN wire = {}
  BY <1>1 DEF Kind, Result
<1>5. TypeOK
  BY <1>1, <1>2, <1>3, <1>4 DEF TypeOK
<1>6. Sending /\ Parsing
  BY <1>1, <1>4 DEF Sending, Parsing
<1>7. DirectionRespected
  BY <1>3, NoElement DEF DirectionRespected
<1> QED
  BY <1>5, <1>6, <1>7 DEF IInv

LEMMA StepInv == IInv /\ [Next]_vars => IInv'
<1> SUFFICES ASSUME IInv, [Next]_vars PROVE IInv'
  OBVIOUS
<1>1. CASE ParseElement
  <2>1. PICK q \in pos..Len(Desc[msg]) :
            /\ FoundAt(q, Head(wire).ie)
            /\ Matches(q, Head(wire).ie) /\ StatusOf(q) # "NONE"
            /\ Store(Head(wire), q, InitFields(msg, fields, pos + 1, q))
    BY <1>1 DEF ParseElement
  <2>2. pc = "parse" /\ wire # <<>> /\ UNCHANGED <<msg, sender, source, change>>
    BY <1>1 DEF ParseElement
  <2> QED
    BY <2>1, <2>2, StoreKeeps
<1>2. CASE BuildElements \/ BuildEnd
  BY <1>2, BuildKeeps
<1>3. CASE Disturb
  BY <1>3, DisturbKeeps
<1>4. CASE Receive
  BY <1>4, ReceiveKeeps
<1>5. CASE Truncated \/ Refused
  BY <1>5, RefusalKeeps
<1>6. CASE PastEnd \/ Finish
  BY <1>6, EndKeeps
<1>7. CASE Free
  BY <1>7, FreeKeeps
<1>8. CASE UNCHANGED vars
  BY <1>8 DEF vars, IInv, TypeOK, Sending, Parsing, Passed, DirectionRespected, StatusOf
<1> QED
  BY <1>1, <1>2, <1>3, <1>4, <1>5, <1>6, <1>7, <1>8 DEF Next

LEMMA Invariant == Spec => []IInv
<1>1. Init => IInv
  BY InitInv
<1>2. IInv /\ [Next]_vars => IInv'
  BY StepInv
<1> QED
  BY <1>1, <1>2, PTL DEF Spec

\* Whatever the tables, the structures and the message that arrives are, the
\* variables have their types: no position is beyond the table, and no field
\* holds anything but what dect_msg_ie_init or a parser has put there.
THEOREM TypeCorrect == Spec => []TypeOK
<1>1. IInv => TypeOK
  BY DEF IInv
<1> QED
  BY <1>1, Invariant, PTL

\* For every table a field never holds an element that the sender must not send.
THEOREM DirectionCorrect == Spec => []DirectionRespected
<1>1. IInv => DirectionRespected
  BY DEF IInv
<1> QED
  BY <1>1, Invariant, PTL

\* For every table the handlers find all mandatory elements of a message that is
\* accepted, unless one of its elements came without contents.
THEOREM MandatoryCorrect == Spec => []MandatoryDelivered
<1>1. IInv => MandatoryDelivered
  <2> SUFFICES ASSUME IInv, pc = "use", change.kind # "empty",
                      NEW p \in Fields[msg] \ Lists[msg], StatusOf(p) = "MANDATORY"
               PROVE  fields[p] \in Name
    BY DEF MandatoryDelivered
  <2>1. msg \in Message /\ Passed(fields, End(msg))
    BY DEF IInv, TypeOK, Parsing
  <2>2. p < End(msg)
    BY <2>1, Table DEF End
  <2> QED
    BY <2>1, <2>2 DEF Passed
<1> QED
  BY <1>1, Invariant, PTL

\* For every table a handler sees no field that was not initialised.
THEOREM InitialisedCorrect == Spec => []FieldsInitialised
<1>1. IInv => FieldsInitialised
  <2> SUFFICES ASSUME IInv, pc = "use", NEW p \in Fields[msg]
               PROVE  fields[p] # Unset
    BY DEF FieldsInitialised
  <2>1. msg \in Message /\ Passed(fields, End(msg))
    BY DEF IInv, TypeOK, Parsing
  <2>2. p <= End(msg)
    BY <2>1, Table DEF End
  <2> QED
    BY <2>1, <2>2 DEF Passed
<1> QED
  BY <1>1, Invariant, PTL

-----------------------------------------------------------------------------
(***************************************************************************)
(* What the fields hold.  The tables say which elements a field is for;    *)
(* this follows them through the parser and dect_msg_free.                 *)
(***************************************************************************)

\* What the entry of a field lets it hold, initialised or not
FieldOK(f, r) ==
    IF r \in Lists[msg] THEN f[r] \in {Unset, EmptyList}
    ELSE f[r] \in {Unset, Null} \cup {ie \in FormsOf(Type(r)) : Handlers[ie].parse}

RepeatedTypes == {Type(p) : p \in {r \in Positions(msg) : Desc[msg][r].repeat}}

\* Fields hold what is meant for them, those the parser has not reached nothing, and
\* only elements of lists have got lost.
Kept ==
    /\ \A r \in Fields[msg] : FieldOK(fields, r)
    /\ pc \in {"build", "send"} => \A r \in Fields[msg] : fields[r] = Unset
    /\ pc = "parse" => \A r \in Fields[msg] : r > pos => fields[r] = Unset
    /\ pc \in {"build", "send", "parse", "use"} => lost \subseteq RepeatedTypes
    /\ OnlyListsLeak

\* What InitFields puts into a field
LEMMA InitialisedAs ==
    ASSUME NEW m \in Message, NEW f \in [Fields[m] -> Content], NEW from \in Nat, NEW to \in Nat,
           NEW p \in Fields[m]
    PROVE  InitFields(m, f, from, to)[p] =
             IF p \in from..to THEN IF p \in Lists[m] THEN EmptyList ELSE Null ELSE f[p]
<1>1. p \in Lists[m] <=> Desc[m][p].ie = Repeat
  BY Table DEF Lists, Positions
<1> QED
  BY <1>1 DEF InitFields

\* An initialised field may hold what it holds.
LEMMA InitFits ==
    ASSUME IInv, NEW f \in [Fields[msg] -> Content], NEW from \in Nat, NEW to \in Nat,
           NEW r \in Fields[msg], r \in from..to \/ FieldOK(f, r)
    PROVE  FieldOK(InitFields(msg, f, from, to), r)
<1>1. msg \in Message
  BY DEF IInv, TypeOK
<1> QED
  BY <1>1, InitialisedAs DEF FieldOK

\* A step to the next entry keeps the fields, if nothing but an element of a list
\* is in the field it initialises.
LEMMA GoOnKept ==
    ASSUME IInv, Kept, pc = "parse",
           NEW q \in pos..Len(Desc[msg]), NEW reached \in [Fields[msg] -> Content],
           \A r \in Fields[msg] : r # q + 1 => FieldOK(reached, r),
           \A r \in Fields[msg] : r > q + 1 => reached[r] = Unset,
           q + 1 \in Fields[msg] /\ reached[q + 1] \in Name => reached[q + 1] \in RepeatedTypes,
           GoOn(reached, q),
           UNCHANGED <<msg, sender, source, change>>
    PROVE  Kept'
<1>1. /\ msg \in Message /\ Len(Desc[msg]) \in Nat /\ pos \in Nat
      /\ Fields[msg] \subseteq 1..Len(Desc[msg])
  BY AtParse
<1>2. q \in Nat /\ q + 1 \in Nat /\ (q + 1)..(q + 1) = {q + 1}
  BY <1>1
<1> DEFINE next == InitFields(msg, reached, q + 1, q + 1)
<1>3. /\ fields' = next /\ pos' = q + 1
      /\ lost' = lost \cup Overwritten(reached, q + 1, q + 1)
      /\ UNCHANGED <<result, pc>>
  BY DEF GoOn
<1>4. ASSUME NEW r \in Fields[msg] PROVE FieldOK(next, r)
  BY <1>1, <1>2, InitFits
<1>5. ASSUME NEW r \in Fields[msg], r > q + 1 PROVE next[r] = Unset
  BY <1>1, <1>2, <1>5, InitialisedAs
<1>6. Overwritten(reached, q + 1, q + 1) \subseteq RepeatedTypes
  BY <1>2 DEF Overwritten, InFields
<1>7. lost \subseteq RepeatedTypes
  BY DEF Kept
<1> HIDE DEF next
<1> QED
  BY <1>3, <1>4, <1>5, <1>6, <1>7 DEF Kept, FieldOK, Type, RepeatedTypes, OnlyListsLeak

\* The fields after the search for an element that ends at entry q
LEMMA SearchedKept ==
    ASSUME IInv, Kept, pc = "parse", NEW q \in pos..End(msg)
    PROVE  LET here == InitFields(msg, fields, pos + 1, q)
           IN  /\ here \in [Fields[msg] -> Content]
               /\ \A r \in Fields[msg] : FieldOK(here, r)
               /\ \A r \in Fields[msg] : r > q => here[r] = Unset
<1>1. /\ msg \in Message /\ fields \in [Fields[msg] -> Content]
      /\ Len(Desc[msg]) \in Nat /\ End(msg) = Len(Desc[msg]) + 1
      /\ pos \in Nat /\ Fields[msg] \subseteq 1..Len(Desc[msg])
  BY AtParse
<1>2. pos + 1 \in Nat /\ q \in Nat /\ q >= pos
  BY <1>1
<1> DEFINE here == InitFields(msg, fields, pos + 1, q)
<1>3. here \in [Fields[msg] -> Content]
  BY <1>1, <1>2, Initialised
<1>4. ASSUME NEW r \in Fields[msg] PROVE FieldOK(here, r)
  BY <1>1, <1>2, InitFits DEF Kept
<1>5. ASSUME NEW r \in Fields[msg], r > q PROVE here[r] = Unset
  <2>1. r \notin (pos + 1)..q /\ r > pos
    BY <1>1, <1>2, <1>5
  <2> QED
    BY <1>1, <1>2, <2>1, InitialisedAs DEF Kept
<1> QED
  BY <1>3, <1>4, <1>5

\* A step that ends the parsing keeps the fields.
LEMMA EndKept ==
    ASSUME IInv, Kept, pc = "parse", NEW q \in pos..End(msg), UNCHANGED msg,
           fields' = InitFields(msg, fields, pos + 1, q) \/ fields' = fields,
           \/ pc' = "failed"
           \/ pc' = "use" /\ lost' = lost
    PROVE  Kept'
<1>1. ASSUME NEW r \in Fields[msg] PROVE FieldOK(fields', r)
  BY SearchedKept DEF Kept
<1> QED
  BY <1>1 DEF Kept, FieldOK, Type, RepeatedTypes, OnlyListsLeak

\* What is stored is an element of the entry that was found.
LEMMA StoreKept ==
    ASSUME IInv, Kept, pc = "parse", wire # <<>>, NEW q \in pos..Len(Desc[msg]),
           Matches(q, Head(wire).ie),
           Store(Head(wire), q, InitFields(msg, fields, pos + 1, q)),
           UNCHANGED <<msg, sender, source, change>>
    PROVE  Kept'
<1> DEFINE h == Head(wire)
           here == InitFields(msg, fields, pos + 1, q)
           stored == [here EXCEPT ![FieldOf(msg, q)] = h.ie]
<1>1. /\ msg \in Message /\ Len(Desc[msg]) \in Nat /\ End(msg) = Len(Desc[msg]) + 1
      /\ pos \in Nat /\ pos \in 1..End(msg) /\ wire \in Seq(Wire)
      /\ Fields[msg] \subseteq 1..Len(Desc[msg]) /\ sender \in Side
  BY AtParse DEF IInv, TypeOK
<1>2. q \in Nat /\ q \in 1..Len(Desc[msg]) /\ q \in pos..End(msg)
  BY <1>1
<1>3. /\ here \in [Fields[msg] -> Content]
      /\ \A r \in Fields[msg] : FieldOK(here, r)
      /\ \A r \in Fields[msg] : r > q => here[r] = Unset
  BY <1>2, SearchedKept
<1>4. h \in Wire /\ h.ie \in Name /\ h.ie \in Content
  <2>1. h = wire[1] /\ 1 \in DOMAIN wire
    BY <1>1
  <2>2. h \in Wire
    BY <1>1, <2>1
  <2> QED
    BY <2>2 DEF Wire, Content
<1>5. /\ FieldOf(msg, q) \in Fields[msg]
      /\ FieldOf(msg, q) = IF Desc[msg][q].repeat THEN q + 1 ELSE q
      /\ Desc[msg][q].repeat => q \notin Fields[msg]
  BY <1>1, <1>2, Table DEF FieldOf
<1>6. h.ie \in FormsOf(Type(q))
  BY DEF Matches, FormsOf
<1>7. Desc[msg][q].repeat => h.ie \in RepeatedTypes
  BY <1>1, <1>2, <1>6, FormsAssumption DEF FormsOf, RepeatedTypes, Type, Positions
<1>8. ASSUME NEW r \in Fields[msg]
      PROVE  stored[r] = IF r = FieldOf(msg, q) THEN h.ie ELSE here[r]
  BY <1>3
<1>9. stored \in [Fields[msg] -> Content]
  BY <1>3, <1>4, <1>5
<1>10. q + 1 \in Fields[msg] => here[q + 1] \notin Name
  BY <1>2, <1>3, NoElement
<1> HIDE DEF here, stored
<1>11. ASSUME GoOn(here, q) PROVE Kept'
  <2>1. \A r \in Fields[msg] : r > q + 1 => here[r] = Unset
    BY <1>1, <1>2, <1>3
  <2> QED
    BY <1>3, <1>10, <1>11, <2>1, GoOnKept
<1>12. ASSUME GoOn(stored, q), h.ie # Repeat, Handlers[h.ie].parse PROVE Kept'
  <2>1. \A r \in Fields[msg] : r > q + 1 => stored[r] = Unset
    BY <1>1, <1>2, <1>3, <1>5, <1>8
  <2>2. q + 1 \in Fields[msg] /\ stored[q + 1] \in Name => stored[q + 1] \in RepeatedTypes
    BY <1>2, <1>5, <1>7, <1>8, <1>10
  <2>3. ASSUME NEW r \in Fields[msg], r # q + 1 PROVE FieldOK(stored, r)
    <3>1. CASE r # FieldOf(msg, q)
      BY <1>3, <1>8, <3>1 DEF FieldOK
    <3>2. CASE r = FieldOf(msg, q)
      <4>1. r = q
        BY <1>5, <2>3, <3>2
      <4>2. CASE q \in Lists[msg]
        <5>1. Type(q) = Repeat
          BY <1>1, <4>2 DEF Lists, Type
        <5> QED
          BY <1>6, <1>12, <5>1, NameAssumption DEF FormsOf
      <4>3. CASE q \notin Lists[msg]
        BY <1>6, <1>8, <1>12, <3>2, <4>1, <4>3 DEF FieldOK
      <4> QED
        BY <4>2, <4>3
    <3> QED
      BY <3>1, <3>2
  <2> QED
    BY <1>9, <1>12, <2>1, <2>2, <2>3, GoOnKept
<1>13. ASSUME NEW error, Fail(error, here) PROVE Kept'
  BY <1>2, <1>13, EndKept DEF Fail, here
<1>14. \/ GoOn(here, q)
       \/ GoOn(stored, q) /\ h.ie # Repeat /\ Handlers[h.ie].parse
       \/ \E error \in Result : Fail(error, here)
  BY DEF Store, stored, here, Result
<1> QED
  BY <1>11, <1>12, <1>13, <1>14

\* dect_msg_free reaches all pointers of a structure but those in lists.
LEMMA FreeKept == IInv /\ Kept /\ Free => Kept'
<1> SUFFICES ASSUME IInv, Kept, Free PROVE Kept'
  OBVIOUS
<1>1. /\ pc = "use" /\ pc' = "freed" /\ UNCHANGED <<msg, sender, source, wire, change, pos>>
      /\ lost' = lost \cup InFields(fields')
  BY DEF Free
<1>2. fields' = [p \in Fields[msg] |->
                   IF Address[msg][p] \in PointersOf(FreedAs[msg]) /\ p \notin Lists[msg]
                   THEN Null ELSE fields[p]]
  BY DEF Free
<1>3. msg \in Message /\ lost \subseteq RepeatedTypes /\ \A r \in Fields[msg] : FieldOK(fields, r)
  BY <1>1 DEF Kept, IInv, TypeOK
<1>4. \A r \in Fields[msg] : FieldOK(fields', r)
  BY <1>2, <1>3 DEF FieldOK
<1>5. ASSUME msg \notin {"cc_service_change", "cc_service_reject"}
      PROVE  InFields(fields') = {}
  <2>1. ASSUME NEW r \in Fields[msg] PROVE fields'[r] \notin Name
    <3>1. CASE r \in Lists[msg]
      BY <1>2, <1>3, <3>1, NoElement DEF FieldOK
    <3>2. CASE r \notin Lists[msg]
      <4>1. Address[msg][r] \in PointersOf(FreedAs[msg])
        BY <1>3, <1>5, <3>2, FreedAssumption DEF PointersOf
      <4> QED
        BY <1>2, <3>2, <4>1, NoElement
    <3> QED
      BY <3>1, <3>2
  <2> QED
    BY <1>2, <2>1 DEF InFields
<1> QED
  BY <1>1, <1>3, <1>4, <1>5 DEF Kept, FieldOK, Type, RepeatedTypes, OnlyListsLeak

LEMMA StepKept == IInv /\ Kept /\ [Next]_vars => Kept'
<1> SUFFICES ASSUME IInv, Kept, [Next]_vars PROVE Kept'
  OBVIOUS
<1>1. CASE BuildElements \/ BuildEnd \/ Disturb
  <2>1. UNCHANGED <<msg, sender, fields, lost>> /\ pc \in {"build", "send"}
        /\ pc' \in {"build", "rejected", "send"}
    BY <1>1 DEF BuildElements, BuildEnd, Disturb
  <2> QED
    BY <2>1 DEF Kept, FieldOK, Type, RepeatedTypes, OnlyListsLeak
<1>2. CASE Receive
  <2>1. /\ pc = "send" /\ pc' = "parse" /\ fields' = InitFields(msg, fields, 1, 1)
        /\ UNCHANGED <<msg, sender, pos, lost>>
    BY <1>2 DEF Receive
  <2>2. msg \in Message /\ fields \in [Fields[msg] -> Content] /\ pos = 1
        /\ Fields[msg] \subseteq 1..Len(Desc[msg]) /\ Len(Desc[msg]) \in Nat
    BY <2>1, Table DEF IInv, TypeOK, Sending
  <2>3. ASSUME NEW r \in Fields[msg] PROVE FieldOK(fields', r)
    BY <2>1, <2>2, InitFits DEF Kept
  <2>4. ASSUME NEW r \in Fields[msg], r > 1 PROVE fields'[r] = Unset
    BY <2>1, <2>2, <2>4, InitialisedAs DEF Kept
  <2> QED
    BY <2>1, <2>2, <2>3, <2>4 DEF Kept, FieldOK, Type, RepeatedTypes, OnlyListsLeak
<1>3. ASSUME pc = "parse" PROVE pos \in pos..End(msg) /\ Len(Desc[msg]) \in pos - 1..End(msg)
                                 /\ End(msg) = Len(Desc[msg]) + 1 /\ pos \in Nat
  BY <1>3, AtParse
<1>4. CASE Truncated
  BY <1>3, <1>4, EndKept DEF Truncated, Fail
<1>5. CASE Refused
  <2>1. PICK q \in pos..Len(Desc[msg]) :
            /\ pc' = "failed" /\ fields' = InitFields(msg, fields, pos + 1, q)
    BY <1>5 DEF Refused, Fail
  <2>2. pc = "parse" /\ UNCHANGED msg
    BY <1>5 DEF Refused
  <2>3. q \in pos..End(msg)
    BY <1>3, <2>2
  <2> QED
    BY <2>1, <2>2, <2>3, EndKept
<1>6. CASE ParseElement
  <2>1. PICK q \in pos..Len(Desc[msg]) :
            /\ Matches(q, Head(wire).ie)
            /\ Store(Head(wire), q, InitFields(msg, fields, pos + 1, q))
    BY <1>6 DEF ParseElement
  <2>2. pc = "parse" /\ wire # <<>> /\ UNCHANGED <<msg, sender, source, change>>
    BY <1>6 DEF ParseElement
  <2> QED
    BY <2>1, <2>2, StoreKept
<1>7. ASSUME pc = "parse"
      PROVE  /\ InitFields(msg, fields, pos + 1, Len(Desc[msg])) = InitFields(msg, fields, pos + 1, End(msg))
             /\ End(msg) \in pos..End(msg)
  <2>1. \A p \in Fields[msg] : p \in (pos + 1)..Len(Desc[msg]) <=> p \in (pos + 1)..End(msg)
    BY <1>7, AtParse
  <2>2. DOMAIN fields = Fields[msg] /\ End(msg) \in pos..End(msg)
    BY <1>7, AtParse
  <2> QED
    BY <2>1, <2>2 DEF InitFields
<1>8. CASE PastEnd
  <2>1. /\ pc = "parse" /\ pos' = End(msg) /\ fields' = InitFields(msg, fields, pos + 1, End(msg))
        /\ UNCHANGED <<msg, sender, lost, pc>>
    BY <1>7, <1>8 DEF PastEnd
  <2>2. \A r \in Fields[msg] : FieldOK(fields', r)
    BY <1>7, <2>1, SearchedKept
  <2>3. \A r \in Fields[msg] : ~ r > End(msg)
    BY <2>1, AtParse
  <2> QED
    BY <2>1, <2>2, <2>3 DEF Kept, FieldOK, Type, RepeatedTypes, OnlyListsLeak, End
<1>9. CASE Finish
  <2>1. pc = "parse" /\ UNCHANGED msg
    BY <1>9 DEF Finish
  <2>2. CASE pc' = "use"
    BY <1>7, <1>9, <2>1, <2>2, EndKept DEF Finish, Fail
  <2>3. CASE pc' # "use"
    <3>1. PICK p \in pos..Len(Desc[msg]) :
             pc' = "failed" /\ fields' = InitFields(msg, fields, pos + 1, p)
      BY <1>9, <2>3 DEF Finish, Fail
    <3>2. p \in pos..End(msg)
      BY <1>3, <2>1
    <3> QED
      BY <2>1, <3>1, <3>2, EndKept
  <2> QED
    BY <2>2, <2>3
<1>10. CASE Free
  BY <1>10, FreeKept
<1>11. CASE UNCHANGED vars
  BY <1>11 DEF vars, Kept, FieldOK, Type, RepeatedTypes, OnlyListsLeak
<1> QED
  BY <1>1, <1>2, <1>4, <1>5, <1>6, <1>8, <1>9, <1>10, <1>11 DEF Next

LEMMA KeptInvariant == Spec => []Kept
<1>1. Init => Kept
  BY DEF Init, Kept, FieldOK, OnlyListsLeak
<1>2. Kept /\ IInv /\ [Next]_vars => Kept'
  BY StepKept
<1> QED
  BY <1>1, <1>2, Invariant, PTL DEF Spec

\* For every table and every structure, an accepted message loses no elements but
\* those of lists, if the table it is freed with has all its pointers.
THEOREM OnlyListsLeakCorrect == Spec => []OnlyListsLeak
<1>1. Kept => OnlyListsLeak
  BY DEF Kept
<1> QED
  BY <1>1, KeptInvariant, PTL

\* If the structure of a message has a field of the right C type for every entry of
\* its table, no field ever holds an element of another one when it is used.
THEOREM FieldTypesCorrect == Spec => []FieldTypesMatch
<1>1. Kept /\ FieldsInitialised /\ TypeOK => FieldTypesMatch
  <2> SUFFICES ASSUME Kept, FieldsInitialised, TypeOK, pc = "use" PROVE FieldTypesMatch
    BY DEF FieldTypesMatch
  <2>1. msg \in Message
    BY DEF TypeOK
  <2>2. Len(Struct[msg]) = Cardinality(Fields[msg])
    BY <2>1, StructAssumption
  <2>3. ASSUME NEW p \in Fields[msg]
        PROVE  LET type == Struct[msg][FieldNumber[msg][p]]
               IN  \/ fields[p] = EmptyList /\ type = "list"
                   \/ fields[p] = Null /\ type # "list"
                   \/ fields[p] \in Name /\ type = Handlers[fields[p]].struct
    <3> DEFINE type == Struct[msg][FieldNumber[msg][p]]
    <3>1. /\ type = "list" <=> p \in Lists[msg]
          /\ p \notin Lists[msg] =>
               \A ie \in FormsOf(Type(p)) : Handlers[ie].parse => type = Handlers[ie].struct
      BY <2>1, StructAssumption DEF Type
    <3>2. FieldOK(fields, p) /\ fields[p] # Unset
      BY DEF Kept, FieldsInitialised
    <3>3. CASE p \in Lists[msg]
      BY <3>1, <3>2, <3>3 DEF FieldOK
    <3>4. CASE p \notin Lists[msg] /\ fields[p] = Null
      BY <3>1, <3>4
    <3>5. CASE p \notin Lists[msg] /\ fields[p] # Null
      <4>1. fields[p] \in FormsOf(Type(p)) /\ Handlers[fields[p]].parse
        BY <3>2, <3>5 DEF FieldOK
      <4>2. fields[p] \in Name
        BY <2>1, <4>1, NameAssumption, Table DEF FormsOf, Type
      <4> QED
        BY <3>1, <3>5, <4>1, <4>2
    <3> QED
      BY <3>3, <3>4, <3>5
  <2> QED
    BY <2>2, <2>3 DEF FieldTypesMatch
<1> QED
  BY <1>1, KeptInvariant, InitialisedCorrect, TypeCorrect, PTL

-----------------------------------------------------------------------------
(***************************************************************************)
(* Delivery.  The message is in the order of the table, and the parser     *)
(* goes through both: of the elements that are on the wire those that it   *)
(* has not read belong to entries that it has not passed.                  *)
(***************************************************************************)

\* The entries an element is sent for, its name there, and the form in which it
\* comes after what happened to the message
Sends == {p \in Positions(msg) : ElementsOf(p) # <<>> /\ Sent(Type(p), ElementsOf(p)[1])}
Bearing(p) == SentAs(Type(p), ElementsOf(p)[1])
FormOf(p) ==
    IF change.kind \in {"empty", "corrupt"} /\ change.entry = p THEN change.kind ELSE "ok"
Present == {p \in Sends : ~(change.kind = "missing" /\ change.entry = p)}

\* A message has the elements of some entries and is in the order of the table.
Carries(w, S) ==
    /\ \A i, j \in DOMAIN w : i < j => w[i].entry < w[j].entry
    /\ \A n \in DOMAIN w : /\ w[n].entry \in S
                           /\ w[n].ie = Bearing(w[n].entry)
                           /\ w[n].form = FormOf(w[n].entry)
    /\ \A p \in S : \E n \in DOMAIN w : w[n].entry = p

\* No list is sent with a repeat indicator, and no element is out of its place.
Short == \A p \in Lists[msg] : Len(source[p]) <= 1
Mild == Short /\ change.kind \in {"none", "missing", "empty", "corrupt"}

AllBuilt == \A p \in Positions(msg) : BuildResult(p) = "OK"

\* What dect_msg_ie_init makes of a field
Initial(r) == IF r \in Lists[msg] THEN EmptyList ELSE Null

Faithful ==
    /\ pc = "build" => change.kind = "none"
    /\ pc = "build" /\ Mild =>
         /\ Carries(wire, {p \in Sends : p < pos})
         /\ \A p \in Positions(msg) : p < pos => BuildResult(p) = "OK"
    /\ pc = "send" /\ Mild => AllBuilt /\ Carries(wire, Present)
    /\ pc = "parse" /\ Regular =>
         /\ AllBuilt
         /\ Carries(wire, {p \in Present : p >= pos})
         /\ \A r \in Fields[msg] : r < pos => fields[r] = Delivered(r)
         /\ pos \in Fields[msg] => fields[pos] = Initial(pos)
    /\ DeliveredAsSent

\* Nothing of this depends on the place in the table or on what has been parsed.
LEMMA Stable ==
    ASSUME UNCHANGED <<msg, sender, source>>
    PROVE  /\ Short' <=> Short
           /\ AllBuilt' <=> AllBuilt
           /\ Sends' = Sends
           /\ \A p : Bearing(p)' = Bearing(p) /\ BuildResult(p)' = BuildResult(p)
           /\ \A p : StatusOf(p)' = StatusOf(p)
           /\ \A p : Initial(p)' = Initial(p)
<1>1. ASSUME NEW p
      PROVE  Type(p)' = Type(p) /\ StatusOf(p)' = StatusOf(p) /\ ElementsOf(p)' = ElementsOf(p)
  BY DEF Type, StatusOf, ElementsOf
<1>2. ASSUME NEW p
      PROVE  Bearing(p)' = Bearing(p) /\ BuildResult(p)' = BuildResult(p) /\ Initial(p)' = Initial(p)
  BY <1>1 DEF Bearing, BuildResult, Initial
<1>3. Positions(msg)' = Positions(msg)
  OBVIOUS
<1>4. Sends' = Sends
  BY <1>1, <1>3 DEF Sends
<1> QED
  BY <1>1, <1>2, <1>3, <1>4 DEF Short, AllBuilt

LEMMA StableToo ==
    ASSUME UNCHANGED <<msg, sender, source, change>>
    PROVE  /\ Mild' <=> Mild
           /\ Regular' <=> Regular
           /\ Present' = Present
           /\ \A w, S : Carries(w, S)' <=> Carries(w, S)
           /\ \A p : Delivered(p)' = Delivered(p)
<1>1. ASSUME NEW p
      PROVE  Type(p)' = Type(p) /\ StatusOf(p)' = StatusOf(p) /\ FormOf(p)' = FormOf(p)
  BY DEF Type, StatusOf, FormOf
<1>2. (Mild' <=> Mild) /\ Present' = Present
  BY Stable DEF Mild, Present
<1>3. Regular' <=> Regular
  BY <1>1 DEF Regular
<1>4. ASSUME NEW w, NEW S PROVE Carries(w, S)' <=> Carries(w, S)
  BY <1>1, Stable DEF Carries
<1>5. ASSUME NEW p PROVE Delivered(p)' = Delivered(p)
  BY <1>1 DEF Delivered
<1> QED
  BY <1>2, <1>3, <1>4, <1>5

-----------------------------------------------------------------------------
(* What is sent *)

\* Without repeat indicators each entry has one element or none.
LEMMA Elements ==
    ASSUME IInv, Short, NEW p \in 1..Len(Desc[msg])
    PROVE  /\ ElementsOf(p) \in Seq(Form) /\ Len(ElementsOf(p)) <= 1
           /\ p \in Lists[msg] => ElementsOf(p) = <<>>
           /\ p \in Fields[msg] \ Lists[msg] => ElementsOf(p) = source[p]
           /\ Desc[msg][p].repeat =>
                /\ ElementsOf(p) = source[p - 1]
                /\ ElementsOf(p) # <<>> => ElementsOf(p)[1] = "ok"
           /\ ElementsOf(p) # <<>> /\ ElementsOf(p)[1] = "long" => Type(p) \in DOMAIN Multi
<1>1. msg \in Message /\ sender \in Side /\ source \in Source[msg][sender]
  BY DEF IInv, TypeOK, Sending
<1>2. CASE Desc[msg][p].repeat
  <2>1. p - 1 \in Lists[msg] /\ p - 1 \in Fields[msg] /\ p \notin Fields[msg] /\ p \notin Lists[msg]
    BY <1>1, <1>2, Table
  <2>2. ElementsOf(p) = source[p - 1]
    BY <1>2, <2>1 DEF ElementsOf
  <2>3. source[p - 1] \in Seq(Form) /\ \A i \in DOMAIN source[p - 1] : source[p - 1][i] = "ok"
    BY <1>1, <2>1, SourceAssumption
  <2>4. Len(source[p - 1]) <= 1
    BY <2>1 DEF Short
  <2>5. source[p - 1] # <<>> => source[p - 1][1] = "ok"
    BY <2>3
  <2> QED
    BY <1>2, <2>1, <2>2, <2>3, <2>4, <2>5
<1>3. CASE ~Desc[msg][p].repeat /\ p \in Lists[msg]
  <2>1. ~ Len(source[p]) > 1
    <3>1. source[p] \in Seq(Form)
      BY <1>1, <1>3, Table, SourceAssumption
    <3>2. Len(source[p]) \in Nat
      BY <3>1
    <3> QED
      BY <1>3, <3>2 DEF Short
  <2>2. ElementsOf(p) = <<>>
    BY <1>3, <2>1 DEF ElementsOf
  <2> QED
    BY <1>3, <2>2
<1>4. CASE ~Desc[msg][p].repeat /\ p \notin Lists[msg]
  <2>1. p \in Fields[msg]
    BY <1>1, <1>4, Table
  <2>2. ElementsOf(p) = source[p]
    BY <1>4 DEF ElementsOf
  <2>3. /\ source[p] \in Seq(Form) /\ Len(source[p]) <= 1
        /\ \A i \in DOMAIN source[p] : source[p][i] = "long" => Type(p) \in DOMAIN Multi
    BY <1>1, <1>4, <2>1, SourceAssumption DEF Type
  <2> QED
    BY <1>4, <2>2, <2>3
<1> QED
  BY <1>2, <1>3, <1>4

\* What is sent for an entry
LEMMA SentOnce ==
    ASSUME IInv, Short, NEW p \in 1..Len(Desc[msg])
    PROVE  SentBy(p) = IF p \in Sends THEN <<[ie |-> Bearing(p), form |-> "ok", entry |-> p]>> ELSE <<>>
<1> DEFINE elements == ElementsOf(p)
<1>1. elements \in Seq(Form) /\ Len(elements) <= 1
  BY Elements
<1>2. CASE elements = <<>>
  <2>1. p \notin Sends
    BY <1>2 DEF Sends
  <2>2. SentBy(p) = <<>>
    BY <1>2 DEF SentBy
  <2> QED
    BY <2>1, <2>2
<1>3. CASE elements # <<>>
  <2>1. Len(elements) = 1 /\ DOMAIN elements = {1}
    <3> HIDE DEF elements
    <3>1. Len(elements) # 0 /\ Len(elements) \in Nat /\ DOMAIN elements = 1..Len(elements)
      BY <1>1, <1>3
    <3>2. Len(elements) = 1
      BY <1>1, <3>1
    <3> QED
      BY <3>1, <3>2
  <2>2. p \in Sends <=> Sent(Type(p), elements[1])
    BY <1>3 DEF Sends, Positions
  <2>3. p \in Sends => SentBy(p) = [i \in {1} |-> [ie |-> SentAs(Type(p), elements[i]), form |-> "ok", entry |-> p]]
    BY <2>1, <2>2 DEF SentBy
  <2>4. [i \in {1} |-> [ie |-> SentAs(Type(p), elements[i]), form |-> "ok", entry |-> p]]
           = <<[ie |-> Bearing(p), form |-> "ok", entry |-> p]>>
    BY DEF Bearing
  <2>5. p \notin Sends => SentBy(p) = <<>>
    BY <2>1, <2>2 DEF SentBy
  <2> QED
    BY <2>3, <2>4, <2>5
<1> QED
  BY <1>2, <1>3

\* An element that is sent has a builder, and a name the entry can have.
LEMMA SentForms ==
    ASSUME IInv, Short, NEW p \in Sends
    PROVE  /\ p \in 1..Len(Desc[msg]) /\ p \notin Lists[msg]
           /\ Bearing(p) \in FormsOf(Type(p)) /\ Handlers[Bearing(p)].build
           /\ Bearing(p) # Repeat
<1>1. msg \in Message /\ p \in 1..Len(Desc[msg]) /\ ElementsOf(p) # <<>>
  BY DEF IInv, TypeOK, Sends, Positions
<1>2. p \notin Lists[msg]
  BY <1>1, Elements
<1>3. Type(p) # Repeat
  BY <1>1, <1>2 DEF Lists, Type, Positions
<1>4. ElementsOf(p)[1] = "long" => Type(p) \in DOMAIN Multi
  BY <1>1, Elements
<1>5. Bearing(p) \in FormsOf(Type(p)) /\ Bearing(p) # Repeat
  BY <1>3, <1>4, NameAssumption DEF Bearing, SentAs, FormsOf
<1>6. Handlers[Bearing(p)].build
  BY DEF Sends, Bearing, Sent
<1> QED
  BY <1>1, <1>2, <1>5, <1>6

\* A field whose element has not come should be empty.
LEMMA Undelivered ==
    ASSUME IInv, Mild, NEW r \in Fields[msg], r \notin Present
    PROVE  Delivered(r) = Initial(r)
<1>1. msg \in Message /\ r \in 1..Len(Desc[msg])
  BY Table DEF IInv, TypeOK
<1>2. CASE r \in Lists[msg]
  BY <1>2 DEF Delivered, Initial
<1>3. CASE r \notin Lists[msg]
  <2>1. ElementsOf(r) = source[r]
    BY <1>1, <1>3, Elements DEF Mild
  <2>2. \/ source[r] = <<>>
        \/ ~Sent(Type(r), source[r][1])
        \/ change.kind # "none" /\ change.entry = r
    BY <1>1, <2>1 DEF Present, Sends, Positions
  <2> QED
    BY <1>3, <2>2 DEF Delivered, Initial
<1> QED
  BY <1>2, <1>3

\* A field whose element has come should hold it if it can be parsed.
LEMMA ToDeliver ==
    ASSUME IInv, Mild, NEW r \in Fields[msg], r \in Present
    PROVE  Delivered(r) = IF FormOf(r) = "ok" /\ Handlers[Bearing(r)].parse THEN Bearing(r) ELSE Null
<1>1. msg \in Message /\ r \in 1..Len(Desc[msg]) /\ r \notin Lists[msg] /\ r \in Sends
  BY Table, SentForms DEF IInv, TypeOK, Present, Mild
<1>2. ElementsOf(r) = source[r]
  BY <1>1, Elements DEF Mild
<1>3. Bearing(r) = SentAs(Type(r), source[r][1]) /\ source[r] # <<>> /\ Sent(Type(r), source[r][1])
  BY <1>1, <1>2 DEF Bearing, Sends
<1>4. FormOf(r) = "ok" <=> (change.kind = "none" \/ change.entry # r)
  BY DEF FormOf, Mild, Present
<1> QED
  BY <1>1, <1>3, <1>4 DEF Delivered

\* Every mandatory element is on its way, can be parsed and has not been touched.
LEMMA MandatoryOnWire ==
    ASSUME IInv, Regular, AllBuilt, NEW p \in 1..Len(Desc[msg]), StatusOf(p) = "MANDATORY"
    PROVE  /\ p \in Present /\ FormOf(p) = "ok"
           /\ Bearing(p) = Type(p) /\ Handlers[Bearing(p)].parse
<1>1. msg \in Message /\ sender \in Side
  BY DEF IInv, TypeOK
<1>2. Short /\ Mild
  BY DEF Regular, Short, Mild
<1>3. Type(p) # Repeat /\ Type(p) \notin DOMAIN Multi
         /\ (Desc[msg][p].repeat => Handlers[Type(p)].build /\ Handlers[Type(p)].parse)
  BY <1>1, FormsAssumption DEF Positions, Type, StatusOf
<1>4. p \notin Lists[msg]
  BY <1>1, <1>3 DEF Lists, Type, Positions
<1>5. ElementsOf(p) # <<>> /\ Sent(Type(p), ElementsOf(p)[1]) /\ Handlers[Type(p)].parse
  <2>1. CASE Desc[msg][p].repeat
    <3>1. p - 1 \in Lists[msg] /\ StatusOf((p - 1) + 1) = "MANDATORY"
      <4>1. p - 1 \in Lists[msg] /\ (p - 1) + 1 = p
        BY <1>1, <2>1, Table
      <4> QED
        BY <4>1
    <3>2. source[p - 1] # <<>>
      BY <3>1 DEF Regular
    <3>3. ElementsOf(p) = source[p - 1] /\ ElementsOf(p)[1] = "ok"
      BY <1>2, <2>1, <3>2, Elements
    <3> QED
      BY <1>3, <2>1, <3>2, <3>3 DEF Sent, SentAs
  <2>2. CASE ~Desc[msg][p].repeat
    <3>1. p \in Fields[msg] /\ ElementsOf(p) = source[p]
      BY <1>1, <1>2, <1>4, <2>2, Table, Elements
    <3>2. BuildResult(p) = "OK"
      BY DEF AllBuilt, Positions
    <3>3. ElementsOf(p) # <<>>
      BY <1>4, <2>2, <3>2 DEF BuildResult
    <3> QED
      BY <3>1, <3>3 DEF Regular
  <2> QED
    BY <2>1, <2>2
<1>6. ElementsOf(p)[1] # "long"
  BY <1>2, <1>3, <1>5, Elements
<1>7. ~(change.kind # "none" /\ change.entry = p)
  BY DEF Regular
<1> QED
  BY <1>3, <1>5, <1>6, <1>7 DEF Present, Sends, FormOf, Bearing, SentAs, Positions

\* What comes next on the wire is the element of the first entry that is left, and
\* the parser finds this entry.
LEMMA NextFound ==
    ASSUME IInv, Regular, AllBuilt, pc = "parse", wire # <<>>,
           Carries(wire, {p \in Present : p >= pos})
    PROVE  LET h == Head(wire)
               e == h.entry
           IN  /\ e \in pos..Len(Desc[msg]) /\ e \in Present
               /\ h.ie = Bearing(e) /\ h.form = FormOf(e)
               /\ \A p \in Present : p >= pos => p >= e
               /\ Matches(e, h.ie) /\ StatusOf(e) # "NONE"
               /\ \A q \in pos..End(msg) : FoundAt(q, h.ie) => q = e
<1> DEFINE h == Head(wire)
           e == h.entry
<1>1. /\ msg \in Message /\ sender \in Side /\ wire \in Seq(Wire)
      /\ Len(Desc[msg]) \in Nat /\ End(msg) = Len(Desc[msg]) + 1 /\ pos \in Nat /\ pos >= 1
  BY AtParse DEF IInv, TypeOK
<1>2. Short /\ Mild
  BY DEF Regular, Short, Mild
<1>3. h = wire[1] /\ 1 \in DOMAIN wire /\ DOMAIN wire = 1..Len(wire) /\ Len(wire) \in Nat
  BY <1>1
<1>4. e \in Present /\ e >= pos /\ h.ie = Bearing(e) /\ h.form = FormOf(e)
  BY <1>3 DEF Carries
<1>5. /\ e \in Sends /\ e \in 1..Len(Desc[msg]) /\ e \notin Lists[msg]
      /\ Bearing(e) \in FormsOf(Type(e)) /\ Handlers[Bearing(e)].build /\ Bearing(e) # Repeat
  BY <1>2, <1>4, SentForms DEF Present
<1>6. e \in pos..Len(Desc[msg]) /\ e \in Nat
  BY <1>1, <1>4, <1>5
<1>7. ASSUME NEW p \in Present, p >= pos PROVE p >= e
  <2>1. PICK n \in DOMAIN wire : wire[n].entry = p
    BY <1>7 DEF Carries
  <2>2. CASE n = 1
    BY <1>3, <1>6, <2>1, <2>2
  <2>3. CASE n # 1
    <3>1. 1 < n
      BY <1>3, <2>1, <2>3
    <3>2. wire[1].entry < wire[n].entry
      BY <1>3, <2>1, <3>1 DEF Carries
    <3>3. p \in Nat
      BY <1>1, <1>7 DEF Present, Sends, Positions
    <3> QED
      BY <1>3, <1>6, <2>1, <3>2, <3>3
  <2> QED
    BY <2>2, <2>3
<1>8. StatusOf(e) # "NONE"
  <2>1. BuildResult(e) = "OK" /\ ElementsOf(e) # <<>>
    BY <1>5 DEF AllBuilt, Positions, Sends
  <2> QED
    BY <2>1 DEF BuildResult
<1>9. StatusOf(e) \in {"MANDATORY", "OPTIONAL"}
  BY <1>1, <1>5, <1>8, Table DEF StatusOf, Status
<1>10. Matches(e, h.ie)
  <2>1. CASE StatusOf(e) = "MANDATORY"
    BY <1>4, <1>5, <2>1, MandatoryOnWire DEF Matches
  <2>2. CASE StatusOf(e) = "OPTIONAL"
    BY <1>4, <1>5, <2>2 DEF Matches, FormsOf
  <2> QED
    BY <1>9, <2>1, <2>2
<1>11. ASSUME NEW p \in pos..(e - 1) PROVE StatusOf(p) # "MANDATORY"
  <2>1. p \in 1..Len(Desc[msg]) /\ p >= pos /\ ~ p >= e
    BY <1>1, <1>6
  <2> QED
    BY <1>7, <2>1, MandatoryOnWire
<1>12. ASSUME NEW p \in pos..(e - 1) PROVE ~Stops(p, h.ie)
  <2>1. p \in 1..(e - 1) /\ p # End(msg)
    BY <1>1, <1>5, <1>6
  <2>2. ASSUME h.ie \in FormsOf(Type(p)) PROVE FALSE
    <3>1. \E r \in p..(e - 1) : Desc[msg][r][sender] = "MANDATORY"
      BY <1>1, <1>4, <1>5, <1>8, <2>1, <2>2, DistinctAssumption DEF Positions, Type, StatusOf
    <3>2. \A r \in p..(e - 1) : r \in pos..(e - 1)
      BY <1>1, <1>6
    <3> QED
      BY <1>11, <3>1, <3>2 DEF StatusOf
  <2>3. ~Matches(p, h.ie)
    BY <2>2 DEF Matches, FormsOf
  <2> QED
    BY <1>11, <2>1, <2>3 DEF Stops
<1>13. Stops(e, h.ie)
  BY <1>10 DEF Stops
<1>14. ASSUME NEW q \in pos..End(msg), FoundAt(q, h.ie) PROVE q = e
  <2>1. ~ e \in pos..(q - 1)
    BY <1>13, <1>14 DEF FoundAt
  <2>2. ~ q \in pos..(e - 1)
    BY <1>12, <1>14 DEF FoundAt
  <2> QED
    BY <1>1, <1>6, <2>1, <2>2
<1> QED
  BY <1>4, <1>6, <1>7, <1>8, <1>10, <1>14

-----------------------------------------------------------------------------
(* The steps up to the reception *)

\* Adding an element behind all others
LEMMA CarriesMore ==
    ASSUME NEW w \in Seq(Wire), NEW S \in SUBSET Nat, NEW x \in Wire, Carries(w, S),
           \A p \in S : p < x.entry,
           x.ie = Bearing(x.entry), x.form = FormOf(x.entry)
    PROVE  Carries(w \o <<x>>, S \cup {x.entry})
<1> DEFINE v == w \o <<x>>
<1>1. /\ Len(w) \in Nat /\ DOMAIN w = 1..Len(w) /\ DOMAIN v = 1..(Len(w) + 1)
      /\ \A i \in 1..Len(w) : v[i] = w[i]
      /\ v[Len(w) + 1] = x
  <2>1. <<x>> \in Seq(Wire) /\ Len(<<x>>) = 1 /\ <<x>>[1] = x
    OBVIOUS
  <2> DEFINE one == <<x>>
  <2> HIDE DEF one
  <2>2. one \in Seq(Wire) /\ Len(one) = 1 /\ one[1] = x
    BY <2>1 DEF one
  <2>3. /\ Len(w) \in Nat /\ DOMAIN w = 1..Len(w) /\ DOMAIN (w \o one) = 1..(Len(w) + 1)
        /\ \A i \in 1..Len(w) : (w \o one)[i] = w[i]
        /\ (w \o one)[Len(w) + 1] = one[1]
    <3>1. /\ w \o one \in Seq(Wire) /\ Len(w \o one) = Len(w) + Len(one)
          /\ \A i \in 1..(Len(w) + Len(one)) :
               (w \o one)[i] = IF i <= Len(w) THEN w[i] ELSE one[i - Len(w)]
      BY <2>2, ConcatProperties, Zenon
    <3>2. Len(w) \in Nat /\ DOMAIN w = 1..Len(w) /\ (Len(w) + 1) - Len(w) = 1
      OBVIOUS
    <3>3. DOMAIN (w \o one) = 1..Len(w \o one)
      BY <3>1
    <3> QED
      BY <2>2, <3>1, <3>2, <3>3
  <2> QED
    BY <2>2, <2>3 DEF one
<1> HIDE DEF v
<1>2. \A i \in DOMAIN v : (i \in DOMAIN w /\ v[i] = w[i]) \/ (i = Len(w) + 1 /\ v[i] = x)
  BY <1>1
<1>3. ASSUME NEW i \in DOMAIN v, NEW j \in DOMAIN v, i < j PROVE v[i].entry < v[j].entry
  <2>1. i \in DOMAIN w /\ v[i] = w[i]
    BY <1>1, <1>2, <1>3
  <2>2. CASE j \in DOMAIN w /\ v[j] = w[j]
    BY <1>3, <2>1, <2>2 DEF Carries
  <2>3. CASE v[j] = x
    BY <2>1, <2>3 DEF Carries
  <2> QED
    BY <1>2, <2>2, <2>3
<1>4. ASSUME NEW n \in DOMAIN v
      PROVE  v[n].entry \in S \cup {x.entry} /\ v[n].ie = Bearing(v[n].entry)
                /\ v[n].form = FormOf(v[n].entry)
  BY <1>2 DEF Carries
<1>5. ASSUME NEW p \in S \cup {x.entry} PROVE \E n \in DOMAIN v : v[n].entry = p
  <2>1. CASE p \in S
    <3>1. PICK n \in DOMAIN w : w[n].entry = p
      BY <2>1 DEF Carries
    <3> QED
      BY <1>1, <3>1
  <2>2. CASE p = x.entry
    <3>1. Len(w) + 1 \in DOMAIN v
      BY <1>1
    <3> QED
      BY <1>1, <2>2, <3>1
  <2> QED
    BY <2>1, <2>2
<1> QED
  BY <1>3, <1>4, <1>5 DEF Carries, v

LEMMA BuildFaithful == IInv /\ Faithful /\ (BuildElements \/ BuildEnd) => Faithful'
<1> SUFFICES ASSUME IInv, Faithful, BuildElements \/ BuildEnd PROVE Faithful'
  OBVIOUS
<1>1. /\ pc = "build" /\ change.kind = "none" /\ UNCHANGED <<msg, sender, source, change>>
      /\ msg \in Message /\ Len(Desc[msg]) \in Nat /\ End(msg) = Len(Desc[msg]) + 1
      /\ pos \in Nat /\ pos \in 1..End(msg) /\ wire \in Seq(Wire)
  BY Table DEF BuildElements, BuildEnd, Faithful, IInv, TypeOK, End
<1>2. /\ Mild' <=> Mild
      /\ Present' = Present
      /\ \A w, S : Carries(w, S)' <=> Carries(w, S)
      /\ Sends' = Sends /\ (AllBuilt' <=> AllBuilt)
      /\ \A p : BuildResult(p)' = BuildResult(p)
  BY <1>1, Stable, StableToo
<1>3. Mild => /\ Carries(wire, {p \in Sends : p < pos})
              /\ \A p \in Positions(msg) : p < pos => BuildResult(p) = "OK"
  BY <1>1 DEF Faithful
<1>4. \A p \in pos..Len(Desc[msg]) : ~Due(p) => p \notin Sends /\ BuildResult(p) = "OK"
  BY DEF Due, Sends
<1>5. pc' \notin {"use", "failed"} => DeliveredAsSent'
  BY DEF DeliveredAsSent
<1>6. CASE BuildElements
  <2>1. PICK p \in pos..Len(Desc[msg]) :
            /\ \A q \in pos..(p - 1) : ~Due(q)
            /\ \/ /\ BuildResult(p) = "OK"
                  /\ wire' = wire \o SentBy(p)
                  /\ pos' = p + 1
                  /\ UNCHANGED <<result, pc>>
               \/ /\ BuildResult(p) # "OK"
                  /\ result' = BuildResult(p)
                  /\ pc' = "rejected"
                  /\ UNCHANGED <<wire, pos>>
    BY <1>6 DEF BuildElements
  <2>2. CASE pc' = "rejected"
    BY <1>5, <2>2 DEF Faithful
  <2>3. CASE BuildResult(p) = "OK" /\ wire' = wire \o SentBy(p) /\ pos' = p + 1 /\ pc' = pc
    <3>1. p \in 1..Len(Desc[msg]) /\ p \in Nat /\ p >= pos
      BY <1>1
    <3>2. ASSUME Mild, NEW q \in Positions(msg), q < p + 1 PROVE BuildResult(q) = "OK"
      <4>1. q < pos \/ q \in pos..(p - 1) \/ q = p
        BY <1>1, <3>1, <3>2 DEF Positions
      <4>2. \A r \in pos..(p - 1) : r \in pos..Len(Desc[msg])
        BY <1>1, <3>1
      <4> QED
        BY <1>3, <1>4, <2>1, <2>3, <3>2, <4>1, <4>2
    <3>3. ASSUME NEW q \in Sends, q < p PROVE q < pos
      <4>1. q < pos \/ q \in pos..(p - 1)
        BY <1>1, <3>1, <3>3 DEF Sends, Positions
      <4>2. q \in pos..(p - 1) => q \in pos..Len(Desc[msg])
        BY <1>1, <3>1
      <4> QED
        BY <1>4, <2>1, <4>1, <4>2
    <3>4. Sends \in SUBSET Nat
      BY <1>1 DEF Sends, Positions
    <3>5. ASSUME Mild PROVE Carries(wire', {q \in Sends : q < p + 1})
      <4>1. SentBy(p) = IF p \in Sends THEN <<[ie |-> Bearing(p), form |-> "ok", entry |-> p]>> ELSE <<>>
        BY <3>1, <3>5, SentOnce DEF Mild
      <4>2. Carries(wire, {q \in Sends : q < p})
        <5>1. \A q \in Sends : q < pos <=> q < p
          BY <1>1, <3>1, <3>3, <3>4
        <5>2. {q \in Sends : q < pos} = {q \in Sends : q < p}
          BY <5>1
        <5> QED
          BY <1>3, <3>5, <5>2
      <4>3. CASE p \in Sends
        <5> DEFINE x == [ie |-> Bearing(p), form |-> "ok", entry |-> p]
        <5>1. SentBy(p) \in Seq(Wire)
          BY <3>1, BuiltType
        <5>2. SentBy(p) = <<x>> /\ x = SentBy(p)[1] /\ 1 \in DOMAIN SentBy(p)
          BY <4>1, <4>3
        <5>3. x \in Wire
          BY <5>1, <5>2
        <5>4. x.ie = Bearing(x.entry) /\ x.form = FormOf(x.entry) /\ x.entry = p
          BY <1>1 DEF FormOf
        <5> HIDE DEF x
        <5>5. Carries(wire \o <<x>>, {q \in Sends : q < p} \cup {x.entry})
          BY <1>1, <3>4, <4>2, <5>3, <5>4, CarriesMore
        <5>6. {q \in Sends : q < p} \cup {p} = {q \in Sends : q < p + 1}
          <6>1. \A q \in Sends : q < p + 1 <=> q < p \/ q = p
            BY <3>1, <3>4
          <6> QED
            BY <4>3, <6>1
        <5> QED
          BY <2>3, <5>2, <5>4, <5>5, <5>6
      <4>4. CASE p \notin Sends
        <5>1. wire' = wire
          BY <1>1, <2>3, <4>1, <4>4
        <5>2. {q \in Sends : q < p} = {q \in Sends : q < p + 1}
          <6>1. \A q \in Sends : q < p + 1 <=> q < p
            BY <3>1, <3>4, <4>4
          <6> QED
            BY <6>1
        <5> QED
          BY <4>2, <5>1, <5>2
      <4> QED
        BY <4>3, <4>4
    <3>6. Positions(msg)' = Positions(msg)
      BY <1>1
    <3> QED
      BY <1>1, <1>2, <1>5, <2>3, <3>2, <3>5, <3>6 DEF Faithful
  <2> QED
    BY <2>1, <2>2, <2>3
<1>7. CASE BuildEnd
  <2>1. pc' = "send" /\ wire' = wire /\ \A p \in pos..Len(Desc[msg]) : ~Due(p)
    BY <1>7 DEF BuildEnd
  <2>2. ASSUME NEW p \in Positions(msg) PROVE p < pos \/ p \in pos..Len(Desc[msg])
    BY <1>1 DEF Positions
  <2>3. Mild => AllBuilt
    BY <1>3, <1>4, <2>1, <2>2 DEF AllBuilt
  <2>4. {p \in Sends : p < pos} = Sends
    BY <1>4, <2>1, <2>2 DEF Sends
  <2>5. Present = Sends
    BY <1>1 DEF Present
  <2> QED
    BY <1>2, <1>3, <1>5, <2>1, <2>3, <2>4, <2>5 DEF Faithful
<1> QED
  BY <1>6, <1>7

\* A message from which an element is missing, or in which one has changed, is still
\* in order.
LEMMA DisturbFaithful == IInv /\ Faithful /\ Disturb => Faithful'
<1> SUFFICES ASSUME IInv, Faithful, Disturb PROVE Faithful'
  OBVIOUS
<1>1. /\ UNCHANGED <<msg, sender, source, pos, fields, lost, result, pc>>
      /\ pc = "send" /\ change.kind = "none" /\ wire \in Seq(Wire)
  BY DEF Disturb, IInv, TypeOK
<1>2. PICK n \in DOMAIN wire, kind \in Kind \ {"none"} :
        /\ change' = [kind |-> kind, entry |-> wire[n].entry]
        /\ CASE kind = "missing" -> wire' = SubSeq(wire, 1, n - 1) \o SubSeq(wire, n + 1, Len(wire))
             [] kind = "moved" -> wire' = [wire EXCEPT ![n] = wire[n + 1], ![n + 1] = wire[n]]
             [] kind = "foreign" -> \E ie \in Foreign :
                    wire' = SubSeq(wire, 1, n - 1) \o <<[ie |-> ie, form |-> "ok", entry |-> 0]>>
                              \o SubSeq(wire, n, Len(wire))
             [] OTHER -> wire' = [wire EXCEPT ![n].form = kind]
  BY DEF Disturb
<1> SUFFICES ASSUME Mild' PROVE AllBuilt' /\ Carries(wire, Present)'
  BY <1>1 DEF Faithful, DeliveredAsSent
<1>3. /\ AllBuilt' <=> AllBuilt
      /\ Sends' = Sends
      /\ \A p : Bearing(p)' = Bearing(p)
      /\ Short' <=> Short
  BY <1>1, Stable
<1>4. Mild /\ kind \in {"missing", "empty", "corrupt"}
  BY <1>1, <1>2, <1>3 DEF Mild
<1>5. AllBuilt /\ Carries(wire, Present)
  BY <1>1, <1>4 DEF Faithful
<1>6. Present = Sends /\ \A p : FormOf(p) = "ok"
  BY <1>1 DEF Present, FormOf
<1> DEFINE gone == wire[n].entry
<1>7. /\ DOMAIN wire = 1..Len(wire) /\ Len(wire) \in Nat
      /\ \A i \in 1..Len(wire) : wire[i] \in Wire
  BY <1>1
<1>8. \A i \in DOMAIN wire : wire[i].entry \in Nat /\ (wire[i].entry = gone <=> i = n)
  <2> SUFFICES ASSUME NEW i \in DOMAIN wire, i # n PROVE wire[i].entry # gone
    BY <1>7 DEF Wire
  <2>1. i < n \/ n < i
    BY <1>7
  <2>2. wire[i].entry \in Nat /\ gone \in Nat
    BY <1>7 DEF Wire
  <2> QED
    BY <1>5, <2>1, <2>2 DEF Carries
<1>9. ASSUME NEW p PROVE FormOf(p)' = IF kind \in {"empty", "corrupt"} /\ p = gone THEN kind ELSE "ok"
  BY <1>2 DEF FormOf
<1>10. CASE kind = "missing"
  <2>1. wire' = SubSeq(wire, 1, n - 1) \o SubSeq(wire, n + 1, Len(wire))
    BY <1>2, <1>10
  <2>2. Present' = Sends \ {gone}
    BY <1>2, <1>3, <1>10 DEF Present
  <2>3. /\ DOMAIN wire' = 1..(Len(wire) - 1)
        /\ \A i \in 1..(Len(wire) - 1) : wire'[i] = IF i < n THEN wire[i] ELSE wire[i + 1]
    <3> DEFINE u == SubSeq(wire, 1, n - 1)
               v == SubSeq(wire, n + 1, Len(wire))
    <3>1. u \in Seq(Wire) /\ Len(u) = n - 1 /\ \A i \in 1..(n - 1) : u[i] = wire[i]
      BY <1>1, <1>7
    <3>2. v \in Seq(Wire) /\ Len(v) = Len(wire) - n /\ \A i \in 1..(Len(wire) - n) : v[i] = wire[i + n]
      BY <1>1, <1>7
    <3> HIDE DEF u, v
    <3>3. /\ DOMAIN (u \o v) = 1..(Len(wire) - 1)
          /\ \A i \in 1..(Len(wire) - 1) : (u \o v)[i] = IF i < n THEN u[i] ELSE v[i - (n - 1)]
      <4>1. /\ Len(u) \in Nat /\ Len(v) \in Nat /\ Len(u \o v) = Len(u) + Len(v)
            /\ DOMAIN (u \o v) = 1..(Len(u) + Len(v))
            /\ \A i \in 1..(Len(u) + Len(v)) : (u \o v)[i] = IF i <= Len(u) THEN u[i] ELSE v[i - Len(u)]
        <5>1. /\ u \o v \in Seq(Wire) /\ Len(u \o v) = Len(u) + Len(v)
              /\ \A i \in 1..(Len(u) + Len(v)) :
                   (u \o v)[i] = IF i <= Len(u) THEN u[i] ELSE v[i - Len(u)]
          BY <3>1, <3>2, ConcatProperties, Zenon
        <5>2. DOMAIN (u \o v) = 1..Len(u \o v)
          BY <5>1
        <5> QED
          BY <3>1, <3>2, <5>1, <5>2
      <4>2. Len(u) + Len(v) = Len(wire) - 1 /\ \A i \in 1..(Len(wire) - 1) : i <= Len(u) <=> i < n
        BY <1>7, <3>1, <3>2
      <4> QED
        BY <3>1, <4>1, <4>2
    <3>4. ASSUME NEW i \in 1..(Len(wire) - 1), ~ i < n PROVE v[i - (n - 1)] = wire[i + 1]
      <4>1. i - (n - 1) \in 1..(Len(wire) - n) /\ (i - (n - 1)) + n = i + 1
        BY <1>7, <3>4
      <4> QED
        BY <3>2, <4>1
    <3>5. ASSUME NEW i \in 1..(Len(wire) - 1), i < n PROVE u[i] = wire[i]
      BY <1>7, <3>1, <3>5
    <3> QED
      BY <2>1, <3>3, <3>4, <3>5 DEF u, v
  <2> DEFINE at(i) == IF i < n THEN i ELSE i + 1
  <2>4. /\ \A i \in DOMAIN wire' : at(i) \in DOMAIN wire /\ at(i) # n /\ wire'[i] = wire[at(i)]
        /\ \A i, j \in DOMAIN wire' : i < j => at(i) < at(j)
        /\ \A i \in DOMAIN wire : i # n => \E j \in DOMAIN wire' : at(j) = i
    <3>1. ASSUME NEW i \in DOMAIN wire, i # n PROVE \E j \in DOMAIN wire' : at(j) = i
      <4>1. CASE i < n
        <5>1. i \in DOMAIN wire' /\ at(i) = i
          BY <1>7, <2>3, <4>1
        <5> QED
          BY <5>1
      <4>2. CASE ~ i < n
        <5>1. i - 1 \in DOMAIN wire' /\ at(i - 1) = i
          BY <1>7, <2>3, <3>1, <4>2
        <5> QED
          BY <5>1
      <4> QED
        BY <4>1, <4>2
    <3> QED
      BY <1>7, <2>3, <3>1
  <2> HIDE DEF at
  <2>5. ASSUME NEW i \in DOMAIN wire', NEW j \in DOMAIN wire', i < j
        PROVE  wire'[i].entry < wire'[j].entry
    BY <1>5, <2>4, <2>5 DEF Carries
  <2>6. ASSUME NEW i \in DOMAIN wire'
        PROVE  wire'[i].entry \in Sends \ {gone} /\ wire'[i].ie = Bearing(wire'[i].entry)
                  /\ wire'[i].form = "ok"
    BY <1>5, <1>6, <1>8, <2>4 DEF Carries
  <2>7. ASSUME NEW p \in Sends \ {gone} PROVE \E i \in DOMAIN wire' : wire'[i].entry = p
    <3>1. PICK i \in DOMAIN wire : wire[i].entry = p
      BY <1>5, <1>6 DEF Carries
    <3>2. PICK j \in DOMAIN wire' : at(j) = i
      BY <1>8, <2>4, <3>1
    <3> QED
      BY <2>4, <3>1, <3>2
  <2>8. \A p : FormOf(p)' = "ok"
    BY <1>9, <1>10
  <2> QED
    BY <1>3, <1>5, <2>2, <2>5, <2>6, <2>7, <2>8 DEF Carries
<1>11. CASE kind \in {"empty", "corrupt"}
  <2>1. wire' = [wire EXCEPT ![n].form = kind]
    BY <1>2, <1>11
  <2>2. Present' = Sends
    BY <1>2, <1>3, <1>11 DEF Present
  <2>3. /\ DOMAIN wire' = DOMAIN wire
        /\ \A i \in DOMAIN wire : wire'[i].entry = wire[i].entry /\ wire'[i].ie = wire[i].ie
        /\ \A i \in DOMAIN wire : wire'[i].form = IF i = n THEN kind ELSE wire[i].form
    BY <1>7, <2>1 DEF Wire
  <2>4. ASSUME NEW i \in DOMAIN wire
        PROVE  wire'[i].form = IF wire[i].entry = gone THEN kind ELSE "ok"
    BY <1>5, <1>6, <1>8, <2>3, <2>4 DEF Carries
  <2>5. \A p : FormOf(p)' = IF p = gone THEN kind ELSE "ok"
    BY <1>9, <1>11
  <2>6. /\ \A i, j \in DOMAIN wire : i < j => wire[i].entry < wire[j].entry
        /\ \A i \in DOMAIN wire : wire[i].entry \in Sends /\ wire[i].ie = Bearing(wire[i].entry)
        /\ \A p \in Sends : \E i \in DOMAIN wire : wire[i].entry = p
    BY <1>5, <1>6 DEF Carries
  <2> HIDE DEF gone
  <2>7. /\ \A i, j \in DOMAIN wire' : i < j => wire'[i].entry < wire'[j].entry
        /\ \A i \in DOMAIN wire' : /\ wire'[i].entry \in Sends
                                   /\ wire'[i].ie = Bearing(wire'[i].entry)
                                   /\ wire'[i].form = IF wire'[i].entry = gone THEN kind ELSE "ok"
        /\ \A p \in Sends : \E i \in DOMAIN wire' : wire'[i].entry = p
    BY <2>3, <2>4, <2>6
  <2> QED
    BY <1>3, <1>5, <2>2, <2>5, <2>7 DEF Carries
<1> QED
  BY <1>4, <1>10, <1>11

-----------------------------------------------------------------------------
(* The steps of the parser *)

\* What the invariant says of a regular message that is being parsed.
LEMMA AtDelivery ==
    ASSUME IInv, Faithful, Regular, pc = "parse"
    PROVE  /\ Mild /\ AllBuilt
           /\ Carries(wire, {p \in Present : p >= pos})
           /\ \A r \in Fields[msg] : r < pos => fields[r] = Delivered(r)
           /\ pos \in Fields[msg] => fields[pos] = Initial(pos)
           /\ Present \subseteq 1..Len(Desc[msg])
  BY DEF Faithful, Regular, Mild, Short, Present, Sends, Positions

\* Nothing is claimed of other messages.
LEMMA Irregular ==
    ASSUME UNCHANGED <<msg, sender, source, change>>, ~Regular, pc' \notin {"build", "send"}
    PROVE  Faithful'
  BY StableToo DEF Faithful, DeliveredAsSent

\* Initialising one field
LEMMA InitialisedOne ==
    ASSUME NEW f \in [Fields[msg] -> Content], NEW q \in Nat, NEW r \in Fields[msg],
           msg \in Message
    PROVE  InitFields(msg, f, q + 1, q + 1)[r] = IF r = q + 1 THEN Initial(r) ELSE f[r]
<1>1. r \in Nat
  BY Table
<1>2. r \in (q + 1)..(q + 1) <=> r = q + 1
  BY <1>1
<1>3. q + 1 \in Nat
  OBVIOUS
<1> QED
  BY <1>2, <1>3, InitialisedAs DEF Initial

\* Reading the first element
LEMMA CarriesLess ==
    ASSUME NEW w \in Seq(Wire), NEW S \in SUBSET Nat, w # <<>>, Carries(w, S)
    PROVE  Carries(Tail(w), {p \in S : p >= w[1].entry + 1})
<1> DEFINE t == Tail(w)
<1>1. t \in Seq(Wire) /\ Len(t) = Len(w) - 1 /\ \A i \in 1..Len(t) : t[i] = w[i + 1]
  BY HeadTailProperties, Zenon
<1>2. /\ Len(w) \in Nat \ {0} /\ DOMAIN w = 1..Len(w) /\ DOMAIN t = 1..Len(t)
      /\ \A i \in 1..Len(w) : w[i] \in Wire
  BY <1>1
<1> HIDE DEF t
<1>3. \A i \in DOMAIN t : i + 1 \in DOMAIN w /\ 1 \in DOMAIN w /\ 1 < i + 1 /\ t[i] = w[i + 1]
  BY <1>1, <1>2
<1>4. \A i \in DOMAIN w : w[i].entry \in Nat
  BY <1>2 DEF Wire
<1>5. ASSUME NEW i \in DOMAIN t
      PROVE  /\ t[i].entry \in {p \in S : p >= w[1].entry + 1}
             /\ t[i].ie = Bearing(t[i].entry) /\ t[i].form = FormOf(t[i].entry)
  <2>1. w[1].entry < w[i + 1].entry
    BY <1>3 DEF Carries
  <2>2. w[i + 1].entry \in S /\ w[1].entry \in Nat /\ w[i + 1].entry \in Nat
    BY <1>3, <1>4 DEF Carries
  <2>3. w[i + 1].entry >= w[1].entry + 1
    BY <2>1, <2>2
  <2> QED
    BY <1>3, <2>2, <2>3 DEF Carries
<1>6. ASSUME NEW i \in DOMAIN t, NEW j \in DOMAIN t, i < j PROVE t[i].entry < t[j].entry
  <2>1. i + 1 < j + 1
    BY <1>2, <1>6
  <2> QED
    BY <1>3, <2>1 DEF Carries
<1>7. ASSUME NEW p \in S, p >= w[1].entry + 1 PROVE \E i \in DOMAIN t : t[i].entry = p
  <2>1. PICK n \in DOMAIN w : w[n].entry = p
    BY DEF Carries
  <2>2. n # 1
    BY <1>4, <1>7, <2>1
  <2>3. n - 1 \in DOMAIN t /\ (n - 1) + 1 = n
    BY <1>1, <1>2, <2>1, <2>2
  <2> QED
    BY <1>3, <2>1, <2>3
<1> QED
  BY <1>5, <1>6, <1>7 DEF Carries, t

\* The fields the search has passed are as they should be.
LEMMA SearchedFaithful ==
    ASSUME IInv, Faithful, Regular, pc = "parse", NEW q \in pos..End(msg),
           \A p \in Present : p >= pos => p >= q
    PROVE  LET here == InitFields(msg, fields, pos + 1, q)
           IN  /\ \A r \in Fields[msg] : r < q => here[r] = Delivered(r)
               /\ q \in Fields[msg] => here[q] = Initial(q)
<1> DEFINE here == InitFields(msg, fields, pos + 1, q)
<1>1. /\ msg \in Message /\ fields \in [Fields[msg] -> Content]
      /\ Len(Desc[msg]) \in Nat /\ End(msg) = Len(Desc[msg]) + 1
      /\ pos \in Nat /\ Fields[msg] \subseteq 1..Len(Desc[msg])
  BY AtParse
<1>2. q \in Nat /\ pos + 1 \in Nat /\ q >= pos
  BY <1>1
<1>3. ASSUME NEW r \in Fields[msg]
      PROVE  here[r] = IF r \in (pos + 1)..q THEN Initial(r) ELSE fields[r]
  BY <1>1, <1>2, InitialisedAs DEF Initial
<1>4. ASSUME NEW r \in Fields[msg], r >= pos, r <= q PROVE here[r] = Initial(r)
  <2>1. r = pos \/ r \in (pos + 1)..q
    BY <1>1, <1>2, <1>4
  <2> QED
    BY <1>3, <2>1, AtDelivery
<1>5. ASSUME NEW r \in Fields[msg], r < q PROVE here[r] = Delivered(r)
  <2>1. CASE r < pos
    <3>1. r \notin (pos + 1)..q
      BY <1>1, <1>2, <2>1
    <3> QED
      BY <1>3, <2>1, <3>1, AtDelivery
  <2>2. CASE ~ r < pos
    <3>1. r >= pos /\ r <= q /\ ~ r >= q
      BY <1>1, <1>2, <1>5, <2>2
    <3>2. r \notin Present
      BY <3>1
    <3>3. Delivered(r) = Initial(r)
      BY <3>2, Undelivered, AtDelivery
    <3> QED
      BY <1>4, <3>1, <3>3
  <2> QED
    BY <2>1, <2>2
<1>6. q \in Fields[msg] => here[q] = Initial(q)
  BY <1>2, <1>4
<1> QED
  BY <1>5, <1>6

LEMMA ReceiveFaithful == IInv /\ Faithful /\ Receive => Faithful'
<1> SUFFICES ASSUME IInv, Faithful, Receive PROVE Faithful'
  OBVIOUS
<1>1. /\ pc = "send" /\ pc' = "parse" /\ fields' = InitFields(msg, fields, 1, 1)
      /\ UNCHANGED <<msg, sender, source, wire, change, pos, lost, result>>
  BY DEF Receive
<1>2. /\ msg \in Message /\ fields \in [Fields[msg] -> Content] /\ pos = 1
      /\ Len(Desc[msg]) \in Nat /\ Fields[msg] \subseteq 1..Len(Desc[msg])
  BY <1>1, Table DEF IInv, TypeOK, Sending
<1>3. CASE ~Regular
  BY <1>1, <1>3, Irregular
<1>4. CASE Regular
  <2>1. Mild /\ AllBuilt /\ Carries(wire, Present)
    BY <1>1, <1>4 DEF Faithful, Regular, Mild, Short
  <2>2. {p \in Present : p >= pos} = Present
    BY <1>2 DEF Present, Sends, Positions
  <2>3. 1 \in Fields[msg] => fields'[1] = Initial(1)
    BY <1>1, <1>2, InitialisedAs DEF Initial
  <2>4. \A r \in Fields[msg] : ~ r < 1
    BY <1>2
  <2>5. /\ AllBuilt' /\ Present' = Present /\ (\A w, S : Carries(w, S)' <=> Carries(w, S))
        /\ \A p : Initial(p)' = Initial(p)
    BY <1>1, <2>1, Stable, StableToo
  <2> QED
    BY <1>1, <1>2, <2>1, <2>2, <2>3, <2>4, <2>5 DEF Faithful, DeliveredAsSent
<1> QED
  BY <1>3, <1>4

\* The element that is read goes where it belongs, and only there.
LEMMA ParseFaithful == IInv /\ Faithful /\ ParseElement => Faithful'
<1> SUFFICES ASSUME IInv, Faithful, ParseElement PROVE Faithful'
  OBVIOUS
<1>1. pc = "parse" /\ wire # <<>> /\ UNCHANGED <<msg, sender, source, change>>
  BY DEF ParseElement
<1>2. /\ msg \in Message /\ fields \in [Fields[msg] -> Content] /\ sender \in Side
      /\ Len(Desc[msg]) \in Nat /\ End(msg) = Len(Desc[msg]) + 1 /\ wire \in Seq(Wire)
      /\ pos \in Nat /\ pos \in 1..End(msg) /\ Fields[msg] \subseteq 1..Len(Desc[msg])
  BY <1>1, AtParse DEF IInv, TypeOK
<1> DEFINE h == Head(wire)
<1>3. PICK q \in pos..Len(Desc[msg]) :
          /\ FoundAt(q, h.ie)
          /\ Store(h, q, InitFields(msg, fields, pos + 1, q))
  BY DEF ParseElement
<1> DEFINE here == InitFields(msg, fields, pos + 1, q)
           stored == [here EXCEPT ![FieldOf(msg, q)] = h.ie]
<1>4. \/ h.form = "empty" /\ GoOn(here, q)
      \/ h.form = "ok" /\ Handlers[h.ie].parse /\ h.ie = Repeat /\ GoOn(here, q)
      \/ h.form = "ok" /\ Handlers[h.ie].parse /\ h.ie # Repeat /\ GoOn(stored, q)
      \/ /\ h.form # "empty" /\ ~(h.form = "ok" /\ Handlers[h.ie].parse)
         /\ \/ h.ie = Repeat /\ pc' = "failed"
            \/ h.ie # Repeat /\ StatusOf(q) = "MANDATORY" /\ pc' = "failed"
            \/ h.ie # Repeat /\ StatusOf(q) # "MANDATORY" /\ GoOn(here, q)
  BY <1>3 DEF Store, Fail
<1>5. pc' \notin {"build", "send"}
  BY <1>1, <1>4 DEF GoOn
<1>6. CASE ~Regular
  BY <1>1, <1>5, <1>6, Irregular
<1>7. CASE Regular
  <2>1. /\ Mild /\ Short /\ AllBuilt
        /\ Carries(wire, {p \in Present : p >= pos})
        /\ Present \subseteq 1..Len(Desc[msg])
    BY <1>1, <1>7, AtDelivery DEF Mild
  <2>2. /\ q = h.entry /\ q \in Present /\ h.ie = Bearing(q) /\ h.form = FormOf(q)
        /\ \A p \in Present : p >= pos => p >= q
    <3>1. q \in pos..End(msg)
      BY <1>2
    <3> QED
      BY <1>1, <1>3, <1>7, <2>1, <3>1, NextFound
  <2>3. q \in 1..Len(Desc[msg]) /\ q \in Nat /\ q >= pos /\ q \notin Lists[msg] /\ h.ie # Repeat
    BY <1>2, <2>1, <2>2, SentForms DEF Present
  <2>4. StatusOf(q) = "MANDATORY" => h.form = "ok" /\ Handlers[h.ie].parse
    BY <1>7, <2>1, <2>2, <2>3, MandatoryOnWire
  <2> DEFINE arrives == h.form = "ok" /\ Handlers[h.ie].parse
             reached == IF arrives THEN stored ELSE here
  <2>5. GoOn(reached, q)
    BY <1>4, <2>3, <2>4
  <2>6. /\ here \in [Fields[msg] -> Content]
        /\ \A r \in Fields[msg] : r < q => here[r] = Delivered(r)
        /\ q \in Fields[msg] => here[q] = Initial(q)
    <3>1. q \in pos..End(msg) /\ pos + 1 \in Nat
      BY <1>2
    <3> QED
      BY <1>1, <1>2, <1>7, <2>2, <2>3, <3>1, SearchedFaithful, Initialised
  <2>7. /\ FieldOf(msg, q) \in Fields[msg]
        /\ FieldOf(msg, q) = IF Desc[msg][q].repeat THEN q + 1 ELSE q
        /\ Desc[msg][q].repeat => q \notin Fields[msg]
    BY <1>2, <2>3, Table DEF FieldOf
  <2>8. h.ie \in Content
    <3>1. h \in Wire
      BY <1>1, <1>2, HeadTailProperties
    <3> QED
      BY <3>1 DEF Wire, Content
  <2>9. /\ stored \in [Fields[msg] -> Content]
        /\ \A r \in Fields[msg] : stored[r] = IF r = FieldOf(msg, q) THEN h.ie ELSE here[r]
    BY <2>6, <2>7, <2>8
  <2> HIDE DEF here, stored
  <2>10. /\ reached \in [Fields[msg] -> Content]
         /\ \A r \in Fields[msg] : r < q => reached[r] = Delivered(r)
    BY <1>2, <2>3, <2>6, <2>7, <2>9
  <2>11. q \in Fields[msg] => reached[q] = Delivered(q)
    <3> SUFFICES ASSUME q \in Fields[msg] PROVE reached[q] = Delivered(q)
      OBVIOUS
    <3>1. Delivered(q) = IF arrives THEN h.ie ELSE Null
      BY <2>1, <2>2, ToDeliver
    <3>2. Initial(q) = Null
      BY <2>3 DEF Initial
    <3> QED
      BY <2>6, <2>7, <2>9, <3>1, <3>2
  <2> HIDE DEF reached
  <2>12. /\ fields' = InitFields(msg, reached, q + 1, q + 1)
         /\ pos' = q + 1 /\ wire' = Tail(wire) /\ pc' = "parse"
    BY <1>1, <2>5 DEF GoOn
  <2>13. ASSUME NEW r \in Fields[msg]
         PROVE  fields'[r] = IF r = q + 1 THEN Initial(r) ELSE reached[r]
    <3>1. msg \in Message /\ reached \in [Fields[msg] -> Content] /\ q \in Nat
      BY <1>2, <2>3, <2>10
    <3> QED
      BY <2>12, <3>1, InitialisedOne
  <2>14. ASSUME NEW r \in Fields[msg], r < q + 1 PROVE fields'[r] = Delivered(r)
    <3>1. r # q + 1 /\ (r < q \/ r = q)
      BY <1>2, <2>3, <2>14
    <3> QED
      BY <2>10, <2>11, <2>13, <3>1
  <2>15. q + 1 \in Fields[msg] => fields'[q + 1] = Initial(q + 1)
    BY <2>13
  <2>16. Carries(Tail(wire), {p \in Present : p >= q + 1})
    <3> DEFINE S == {p \in Present : p >= pos}
    <3>1. S \in SUBSET Nat
      <4>1. \A p \in S : p \in 1..Len(Desc[msg])
        BY <2>1
      <4>2. \A p \in 1..Len(Desc[msg]) : p \in Nat
        BY <1>2
      <4> QED
        BY <4>1, <4>2
    <3>2. wire[1].entry = q
      BY <1>1, <1>2, <2>2
    <3>3. Carries(Tail(wire), {p \in S : p >= wire[1].entry + 1})
      BY <1>1, <1>2, <2>1, <3>1, CarriesLess
    <3>4. {p \in S : p >= q + 1} = {p \in Present : p >= q + 1}
      <4>1. \A p \in Present : p >= q + 1 => p >= pos
        BY <1>2, <2>1, <2>3
      <4> QED
        BY <4>1
    <3> QED
      BY <3>2, <3>3, <3>4
  <2>17. /\ AllBuilt' /\ Present' = Present /\ (\A w, S : Carries(w, S)' <=> Carries(w, S))
         /\ (\A p : Delivered(p)' = Delivered(p)) /\ \A p : Initial(p)' = Initial(p)
    BY <1>1, <2>1, Stable, StableToo
  <2> HIDE DEF h
  <2> QED
    BY <1>1, <2>12, <2>14, <2>15, <2>16, <2>17 DEF Faithful, DeliveredAsSent
<1> QED
  BY <1>6, <1>7

\* A regular message is not refused, and all of it is read.
LEMMA EndFaithful == IInv /\ Faithful /\ (Truncated \/ PastEnd \/ Refused \/ Finish) => Faithful'
<1> SUFFICES ASSUME IInv, Faithful, Truncated \/ PastEnd \/ Refused \/ Finish PROVE Faithful'
  OBVIOUS
<1>1. /\ pc = "parse" /\ UNCHANGED <<msg, sender, source, change>>
      /\ pc' \in {"parse", "failed", "use"}
  BY DEF Truncated, PastEnd, Refused, Finish, Fail
<1>2. CASE ~Regular
  BY <1>1, <1>2, Irregular
<1>3. CASE Regular
  <2>1. /\ msg \in Message /\ fields \in [Fields[msg] -> Content]
        /\ Len(Desc[msg]) \in Nat /\ End(msg) = Len(Desc[msg]) + 1
        /\ pos \in Nat /\ pos \in 1..End(msg) /\ Fields[msg] \subseteq 1..Len(Desc[msg])
    BY <1>1, AtParse
  <2>2. /\ Mild /\ AllBuilt /\ Carries(wire, {p \in Present : p >= pos})
        /\ Present \subseteq 1..Len(Desc[msg])
    BY <1>1, <1>3, AtDelivery
  <2>3. CASE wire # <<>>
    <3> DEFINE h == Head(wire)
               e == h.entry
    <3>1. /\ e \in pos..Len(Desc[msg]) /\ h.form = FormOf(e)
          /\ Matches(e, h.ie) /\ StatusOf(e) # "NONE"
          /\ \A q \in pos..End(msg) : FoundAt(q, h.ie) => q = e
      BY <1>1, <1>3, <2>2, <2>3, NextFound
    <3>2. h.form # "truncated"
      BY <3>1 DEF FormOf
    <3>3. ~FoundAt(End(msg), h.ie)
      BY <2>1, <3>1
    <3>4. \A q \in pos..Len(Desc[msg]) : FoundAt(q, h.ie) => q = e
      BY <2>1, <3>1
    <3> HIDE DEF h, e
    <3>5. ~Truncated /\ ~PastEnd
      BY <3>2, <3>3 DEF Truncated, PastEnd, h
    <3>6. ~Refused
      BY <3>1, <3>4 DEF Refused, h
    <3>7. ~Finish
      BY <2>3 DEF Finish
    <3> QED
      BY <3>5, <3>6, <3>7
  <2>4. CASE wire = <<>>
    <3>1. \A p \in Present : ~ p >= pos
      BY <2>2, <2>4 DEF Carries
    <3>2. ASSUME NEW p \in pos..Len(Desc[msg]) PROVE StatusOf(p) # "MANDATORY"
      <4>1. p \in 1..Len(Desc[msg]) /\ p >= pos
        BY <2>1
      <4> QED
        BY <1>3, <2>2, <3>1, <4>1, MandatoryOnWire
    <3>3. /\ fields' = InitFields(msg, fields, pos + 1, Len(Desc[msg]))
          /\ pc' = "use"
      BY <2>4, <3>2 DEF Finish, Truncated, PastEnd, Refused
    <3>4. InitFields(msg, fields, pos + 1, Len(Desc[msg])) = InitFields(msg, fields, pos + 1, End(msg))
      <4>1. \A p \in Fields[msg] : p \in (pos + 1)..Len(Desc[msg]) <=> p \in (pos + 1)..End(msg)
        BY <2>1
      <4>2. DOMAIN fields = Fields[msg]
        BY <2>1
      <4> QED
        BY <4>1, <4>2 DEF InitFields
    <3>5. ASSUME NEW r \in Fields[msg] PROVE fields'[r] = Delivered(r)
      <4>1. End(msg) \in pos..End(msg) /\ r < End(msg)
        BY <2>1
      <4>2. \A p \in Present : p >= pos => p >= End(msg)
        BY <3>1
      <4>3. InitFields(msg, fields, pos + 1, End(msg))[r] = Delivered(r)
        BY <1>1, <1>3, <4>1, <4>2, SearchedFaithful
      <4> QED
        BY <3>3, <3>4, <4>3
    <3>6. \A p : Delivered(p)' = Delivered(p)
      BY <1>1, StableToo
    <3> QED
      BY <1>1, <3>3, <3>5, <3>6 DEF Faithful, DeliveredAsSent
  <2> QED
    BY <2>3, <2>4
<1> QED
  BY <1>2, <1>3

LEMMA StepFaithful == IInv /\ Faithful /\ [Next]_vars => Faithful'
<1> SUFFICES ASSUME IInv, Faithful, [Next]_vars PROVE Faithful'
  OBVIOUS
<1>1. CASE BuildElements \/ BuildEnd
  BY <1>1, BuildFaithful
<1>2. CASE Disturb
  BY <1>2, DisturbFaithful
<1>3. CASE Receive
  BY <1>3, ReceiveFaithful
<1>4. CASE ParseElement
  BY <1>4, ParseFaithful
<1>5. CASE Truncated \/ PastEnd \/ Refused \/ Finish
  BY <1>5, EndFaithful
<1>6. CASE Free
  BY <1>6 DEF Free, Faithful, DeliveredAsSent
<1>7. CASE UNCHANGED vars
  <2>1. UNCHANGED <<msg, sender, source, change, wire, pos, fields, pc>>
    BY <1>7 DEF vars
  <2>2. UNCHANGED <<Fields[msg], Positions(msg)>>
    BY <2>1
  <2> QED
    BY <2>1, <2>2, Stable, StableToo DEF Faithful, DeliveredAsSent
<1> QED
  BY <1>1, <1>2, <1>3, <1>4, <1>5, <1>6, <1>7 DEF Next

\* For every table in which an element is not taken for an earlier one, and every
\* structure, not only those with a few elements, a regular message is accepted and
\* the fields of the receiver are those of the sender, also if an optional element
\* got lost, corrupt or empty on the way.
THEOREM DeliveryCorrect == Spec => []DeliveredAsSent
<1>1. Init => Faithful
  <2> SUFFICES ASSUME Init PROVE Faithful
    OBVIOUS
  <2>1. pc = "build" /\ pos = 1 /\ wire = <<>> /\ change.kind = "none" /\ msg \in Message
    BY DEF Init
  <2>2. \A p \in Positions(msg) : ~ p < 1
    <3>1. Len(Desc[msg]) \in Nat
      BY <2>1, Table
    <3> QED
      BY <3>1 DEF Positions
  <2>3. {p \in Sends : p < pos} = {}
    BY <2>1, <2>2 DEF Sends
  <2>4. Carries(wire, {})
    BY <2>1 DEF Carries
  <2> QED
    BY <2>1, <2>2, <2>3, <2>4 DEF Faithful, DeliveredAsSent
<1>2. Faithful /\ IInv /\ [Next]_vars => Faithful'
  BY StepFaithful
<1>3. Faithful => DeliveredAsSent
  BY DEF Faithful
<1> QED
  BY <1>1, <1>2, <1>3, Invariant, PTL DEF Spec
=============================================================================
