----------------------------- MODULE Identities -----------------------------
(***************************************************************************)
(* DECT identities and their encodings (identities.c, identities.h).       *)
(*                                                                         *)
(* The encodings are wider than TLC's integers, so they are sequences of   *)
(* bits, the most significant first, as they are transmitted; the shifts   *)
(* and masks of the code are concatenations and subsequences.  The fields  *)
(* of the structures are numbers of the width the encoding gives them.     *)
(***************************************************************************)
EXTENDS Integers, Sequences

MaxWord == 65535
Word == 0..MaxWord             \* uint16_t
MaxNumber == 2147483647

\* The number that digits stand for
Positional(base, digits) ==
    LET value[n \in 0..Len(digits)] ==
            IF n = 0 THEN 0 ELSE base * value[n - 1] + digits[n]
    IN  value[Len(digits)]

Number(bits) == Positional(2, bits)
Bits(value, width) == [i \in 1..width |-> (value \div 2^(width - i)) % 2]
Zeros(n) == [i \in 1..n |-> 0]

RoundUp(n, d) == (n + d - 1) \div d

\* A bit string as octets, filled up with zeros, and octets as a bit string
ToOctets(bits) ==
    LET n == RoundUp(Len(bits), 8)
        filled == bits \o Zeros(8 * n - Len(bits))
    IN  [i \in 1..n |-> Number(SubSeq(filled, 8 * i - 7, 8 * i))]

ToBits(octets) ==
    [i \in 1..(8 * Len(octets)) |-> Bits(octets[(i + 7) \div 8], 8)[((i - 1) % 8) + 1]]

\* Bits n + 1 to n + width of a string, zero where it has ended
Field(bits, n, width) ==
    Number([i \in 1..width |-> IF n + i <= Len(bits) THEN bits[n + i] ELSE 0])

-----------------------------------------------------------------------------
(***************************************************************************)
(* Access rights identities.  The union of emc, eic, poc, gop and fil is   *)
(* the field code.                                                         *)
(***************************************************************************)
ArcWidth == 3
AriClass == 0..4      \* DECT_ARC_A to DECT_ARC_E

CodeWidth == [arc \in AriClass |-> IF arc = 3 THEN 20 ELSE 16]
FpnWidth == [arc \in AriClass |-> CASE arc = 0 -> 17 [] arc = 4 -> 12 [] OTHER -> 8]
FpsWidth == [arc \in AriClass |-> IF arc \in {1, 2} THEN 4 ELSE 0]

AriLen(arc) == ArcWidth + CodeWidth[arc] + FpnWidth[arc] + FpsWidth[arc]

Ari == {ari \in [arc : AriClass, code : 0..(2^20 - 1), fpn : 0..(2^17 - 1), fps : 0..15] :
            /\ ari.code < 2^CodeWidth[ari.arc]
            /\ ari.fpn < 2^FpnWidth[ari.arc]
            /\ ari.fps < 2^FpsWidth[ari.arc]}

BuildAri(ari) ==
    Bits(ari.arc, ArcWidth) \o Bits(ari.code, CodeWidth[ari.arc])
        \o Bits(ari.fpn, FpnWidth[ari.arc]) \o Bits(ari.fps, FpsWidth[ari.arc])

\* The length is 0 if the class is unknown.
ParseAri(bits) ==
    LET arc == Field(bits, 0, ArcWidth)
        code == ArcWidth
        fpn == code + CodeWidth[arc]
        fps == fpn + FpnWidth[arc]
    IN  IF arc \in AriClass
        THEN [len |-> AriLen(arc),
              ari |-> [arc |-> arc, code |-> Field(bits, code, CodeWidth[arc]),
                       fpn |-> Field(bits, fpn, FpnWidth[arc]),
                       fps |-> Field(bits, fps, FpsWidth[arc])]]
        ELSE [len |-> 0, ari |-> [arc |-> arc, code |-> 0, fpn |-> 0, fps |-> 0]]

-----------------------------------------------------------------------------
(***************************************************************************)
(* Equipment identities and portable user identities.  Only the types N    *)
(* (an equipment identity) and O (a number) are implemented.               *)
(***************************************************************************)
PsnWidth == 20

Ipei == [emc : Word, psn : 0..(2^PsnWidth - 1)]

BuildIpei(ipei) == Bits(ipei.emc, 16) \o Bits(ipei.psn, PsnWidth)
ParseIpei(bits) == [emc |-> Field(bits, 0, 16), psn |-> Field(bits, 16, PsnWidth)]

PutN == 0
PutO == 1
OtherPut == 2..7      \* DECT_IPUI_P to DECT_IPUI_U

\* A number of type O has 64 bits in the code and 31 here.
Ipui == [put : {PutN}, ipei : Ipei] \cup [put : {PutO}, number : 0..MaxNumber]
            \cup [put : OtherPut]

\* The number of bits of a number: fls()
BitLength(n) == IF n = 0 THEN 0 ELSE CHOOSE k \in 1..31 : 2^(k - 1) <= n /\ n \div 2 < 2^(k - 1)

\* The loop of dect_build_ipui writes four bits next to the type and then
\* whole octets while the shift is not negative: the rest is not written.  (The
\* shift is unsigned and wraps around; the processor then yields 0.)
Written(bits) ==
    LET keep == 4 + 8 * ((Len(bits) - 4) \div 8)
    IN  SubSeq(bits, 1, keep) \o Zeros(Len(bits) - keep)

\* The length in bits, 0 for a type that cannot be built, and the octets
BuildIpui(ipui) ==
    CASE ipui.put = PutN ->
            [len |-> 40, octets |-> ToOctets(Bits(PutN, 4) \o BuildIpei(ipui.ipei))]
      [] ipui.put = PutO ->
            LET len == BitLength(ipui.number)
                bits == Bits(ipui.number, len) \o Zeros(IF len < 4 THEN 4 - len ELSE 0)
            IN  [len |-> 4 + len, octets |-> ToOctets(Bits(PutO, 4) \o Written(bits))]
      [] OTHER -> [len |-> 0, octets |-> <<>>]

\* A type that cannot be parsed is ignored by the caller, as is a wrong length; one
\* too short for a type leaves the structure as it was cleared.
ParseIpui(octets, len) ==
    LET bits == ToBits(octets)
        put == Field(bits, 0, 4)
        cleared == [emc |-> 0, psn |-> 0]
    IN  IF len < 4 THEN [put |-> PutN, ipei |-> cleared]
        ELSE CASE put = PutN /\ len = 40 ->
                    [put |-> put, ipei |-> ParseIpei(SubSeq(bits, 5, 40))]
               [] put = PutN /\ len # 40 -> [put |-> put, ipei |-> cleared]
               [] put = PutO -> [put |-> put, number |-> Field(bits, 4, len - 4)]
               [] OTHER -> [put |-> put]

Total(numbers) == Positional(1, numbers)

\* Mutant: the digits are not weighted by their places.
CheckDigitUnweighted(digits) == Total([i \in 1..12 |-> digits[i]]) % 11

\* The printed form: twelve digits and a check digit, '*' standing for 10
CheckDigit(digits) == Total([i \in 1..12 |-> i * digits[i]]) % 11

Digits(n, count) == [i \in 1..count |-> (n \div 10^(count - i)) % 10]
Decimal(digits) == Positional(10, digits)

FormatIpei(ipei) ==
    LET digits == Digits(ipei.emc, 5) \o Digits(ipei.psn, 7)
    IN  Append(digits, CheckDigit(digits))

NotAnIpei == [emc |-> -1, psn |-> -1]

ParseIpeiString(string) ==
    IF Len(string) = 13 /\ CheckDigit(string) = string[13]
    THEN [emc |-> Decimal(SubSeq(string, 1, 5)) % 65536, psn |-> Decimal(SubSeq(string, 6, 12))]
    ELSE NotAnIpei

-----------------------------------------------------------------------------
(***************************************************************************)
(* Temporary identities (20 bits) and the identity of a part in the MAC.   *)
(***************************************************************************)
Tpui == [type : {"assigned"}, digits : [1..5 -> 0..15]]
            \cup [type : {"connectionless_group", "call_group", "emergency"}]
            \cup [type : {"default"}, ipui : Word]

BuildTpui(tpui) ==
    CASE tpui.type = "assigned" -> Positional(16, tpui.digits)
      [] tpui.type = "connectionless_group" -> 836608      \* 0xcc000
      [] tpui.type = "call_group" -> 905216                \* 0xdd000
      [] tpui.type = "default" -> 917504 + tpui.ipui       \* 0xe0000
      [] tpui.type = "emergency" -> 987136                 \* 0xf1000

\* The default identity of a part with an IPUI of type N; for the others the
\* number stays what it was.
DefaultTpui(ipui, old) ==
    [type |-> "default", ipui |-> IF ipui.put = PutN THEN ipui.ipei.psn % 65536 ELSE old]

Tpui12 == 0..(2^12 - 1)
Tpui20 == 0..(2^20 - 1)

Pmid == [type : {"default"}, num : Word] \cup [type : {"emergency"}, tpui : Tpui12]
            \cup [type : {"assigned"}, tpui : Tpui20]

BuildPmid(pmid) ==
    CASE pmid.type = "default" -> 917504 + pmid.num
      [] pmid.type = "emergency" -> 987136 + pmid.tpui
      [] pmid.type = "assigned" -> pmid.tpui

ParsePmid(p) ==
    CASE p \div 65536 = 14 -> [type |-> "default", num |-> p % 65536]
      [] p \div 4096 = 241 -> [type |-> "emergency", tpui |-> p % 4096]
      [] OTHER -> [type |-> "assigned", tpui |-> p % 1048576]

\* Other types are a BUG().
HasPmid(tpui) == tpui.type \in {"assigned", "emergency"}

PmidOfTpui(tpui) ==
    [type |-> tpui.type,
     tpui |-> BuildTpui(tpui) % (IF tpui.type = "emergency" THEN 4096 ELSE 1048576)]
=============================================================================
