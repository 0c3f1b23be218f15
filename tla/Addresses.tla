----------------------------- MODULE Addresses -----------------------------
(* Addresses as text in src/commio.c: inet_ntop4, inet_ntop6, op_inet_ntop and     *)
(* the parsers inet_pton4, inet_pton6, op_inet_pton, with their sockaddr wrappers.  *)
(* An IPv6 address is its eight 16-bit words, an IPv4 address its four bytes. Text  *)
(* is a sequence of tokens: a run of digits with the number it stands for, ":" and  *)
(* ".", and "?" for any other character.                                         *)
EXTENDS Integers, Sequences, SequencesExt

CONSTANTS
    Words,      \* the words addresses are made of
    Tokens,     \* the tokens that text to be parsed is made of
    MaxText     \* bound: tokens in such a text

VARIABLES
    rep,        \* the address or the text at hand
    out         \* what the last call made of it

vars == <<rep, out>>

AddressesAssumption == Words \subseteq 0 .. 65535 /\ MaxText \in Nat

Num(n) == [num |-> n]
Colon == [num |-> -1]
Dot == [num |-> -2]
Other == [num |-> -3]
IsNum(t) == t.num >= 0

V4(a) == [family |-> "inet", parts |-> a]
V6(a) == [family |-> "inet6", parts |-> a]
Failed == [family |-> "none", parts |-> <<>>]

(* The two bytes of a word, the word of two bytes.                                  *)
Bytes(w) == <<w \div 256, w % 256>>
Word(hi, lo) == 256 * hi + lo
LastFour(a) == Bytes(a[7]) \o Bytes(a[8])

Zeros(a, i, j) == \A k \in i .. j : a[k] = 0
V4Mapped(a) == Zeros(a, 1, 5) /\ a[6] = 65535
V4Compat(a) == Zeros(a, 1, 6) /\ ~(a[7] = 0 /\ a[8] \in {0, 1})

-----------------------------------------------------------------------------
(* inet_ntop4, with the digits of each byte from IpQuadTab.                         *)
inet_ntop4(b) == <<Num(b[1]), Dot, Num(b[2]), Dot, Num(b[3]), Dot, Num(b[4])>>

(* The first of the longest runs of zero words, as <<base, len>>, when it is longer  *)
(* than one.                                                                     *)
BestRun(a) ==
    LET runs == {r \in (1 .. 8) \X (2 .. 8) : r[1] + r[2] <= 9 /\ Zeros(a, r[1], r[1] + r[2] - 1)}
    IN  IF runs = {} THEN <<0, 0>>
        ELSE CHOOSE r \in runs :
                \A s \in runs : s[2] < r[2] \/ (s[2] = r[2] /\ s[1] >= r[1])

(* inet_ntop6: what the loop writes for word i, the run once as "::", the leading    *)
(* run with a 0 before it, and a dotted tail after five or six zero words.          *)
Written(a, run, i) ==
    LET inside == run[1] # 0 /\ i >= run[1] /\ i < run[1] + run[2]
        dotted == run[1] = 1 /\ (run[2] = 6 \/ (run[2] = 5 /\ a[6] = 65535))
        colon == IF i # 1 THEN <<Colon>> ELSE <<>>
    IN  CASE inside /\ i # run[1] -> <<>>
          [] inside /\ i = run[1] -> (IF i = 1 THEN <<Num(0)>> ELSE <<>>) \o <<Colon>>
          [] ~inside /\ i = 7 /\ dotted -> colon \o inet_ntop4(LastFour(a))
          [] ~inside /\ i = 8 /\ dotted -> <<>>
          [] OTHER -> colon \o <<Num(a[i])>>

inet_ntop6(a) ==
    LET run == BestRun(a)
    IN  FlattenSeq([i \in 1 .. 8 |-> Written(a, run, i)])
        \o (IF run[1] # 0 /\ run[1] + run[2] = 9 THEN <<Colon>> ELSE <<>>)

(* op_inet_ntop_sock and op_inet_ntop: mapped and compatible addresses are written   *)
(* as IPv4.                                                                      *)
op_inet_ntop(addr) ==
    IF addr.family = "inet" THEN inet_ntop4(addr.parts)
    ELSE IF V4Mapped(addr.parts) \/ V4Compat(addr.parts) THEN inet_ntop4(LastFour(addr.parts))
    ELSE inet_ntop6(addr.parts)

-----------------------------------------------------------------------------
(* inet_pton4 as one pass over the tokens: the bytes so far, whether the current     *)
(* byte has a digit, and whether the text was refused.                             *)
Step4(t, s) ==
    CASE s.bad -> s
      [] IsNum(t) /\ t.num <= 255 ->
            IF Len(s.bytes) = 4 /\ ~s.saw THEN [s EXCEPT !.bad = TRUE]
            ELSE [s EXCEPT !.bytes = IF s.saw THEN @ ELSE Append(@, t.num), !.saw = TRUE]
      [] t = Dot /\ s.saw /\ Len(s.bytes) < 4 -> [s EXCEPT !.saw = FALSE]
      [] OTHER -> [s EXCEPT !.bad = TRUE]

inet_pton4(text) ==
    LET end == FoldLeft(LAMBDA s, t : Step4(t, s), [bytes |-> <<>>, saw |-> FALSE, bad |-> FALSE],
                        text)
    IN  IF end.bad \/ Len(end.bytes) < 4 THEN Failed ELSE V4(end.bytes)

(* inet_pton6, one pass: the words so far, the number being read (-1: no digit),      *)
(* where the current token began, where "::" was, and the verdict. Characters that    *)
(* are no digit, colon or dot are passed over; a digit after one goes on with the       *)
(* number before it.                                                             *)
Step6(text, i, s) ==
    LET t == text[i]
        last == i = Len(text)
        tail == SubSeq(text, s.tok, Len(text))
    IN  CASE s.stop \/ s.bad -> s
          [] IsNum(t) ->
                LET val == IF s.val = -1 THEN t.num ELSE 16 * s.val + t.num
                IN  IF val > 65535 THEN [s EXCEPT !.bad = TRUE] ELSE [s EXCEPT !.val = val]
          [] t = Colon /\ s.val = -1 ->
                IF s.gap # -1 THEN [s EXCEPT !.bad = TRUE]
                ELSE [s EXCEPT !.gap = Len(s.words), !.tok = i + 1]
          [] t = Colon /\ s.val # -1 ->
                IF last \/ Len(s.words) = 8 THEN [s EXCEPT !.bad = TRUE]
                ELSE [s EXCEPT !.words = Append(@, s.val), !.val = -1, !.tok = i + 1]
          [] t = Dot /\ ~last ->
                IF Len(s.words) <= 6 /\ inet_pton4(tail) # Failed
                THEN LET b == inet_pton4(tail).parts
                     IN  [s EXCEPT !.words = @ \o <<Word(b[1], b[2]), Word(b[3], b[4])>>,
                                   !.val = -1, !.stop = TRUE]
                ELSE [s EXCEPT !.bad = TRUE]
          [] OTHER -> s

(* The end of the text: the last word, and the words behind "::" move to the end.        *)
Shifted(s) ==
    LET words == IF s.val # -1 THEN Append(s.words, s.val) ELSE s.words
        full == IF s.gap = -1 THEN words
                ELSE SubSeq(words, 1, s.gap) \o [i \in 1 .. 8 - Len(words) |-> 0]
                     \o SubSeq(words, s.gap + 1, Len(words))
    IN  IF s.bad \/ Len(words) > 8 \/ Len(full) # 8 \/ (s.gap # -1 /\ Len(words) = 8)
        THEN Failed ELSE V6(full)

inet_pton6(text) ==
    LET leading == Len(text) > 0 /\ text[1] = Colon
        body == IF leading THEN Tail(text) ELSE text
        start == [words |-> <<>>, val |-> -1, gap |-> -1, tok |-> 1, stop |-> FALSE,
                  bad |-> leading /\ (body = <<>> \/ body[1] # Colon)]
    IN  Shifted(FoldLeft(LAMBDA s, i : Step6(body, i, s), start, [i \in DOMAIN body |-> i]))

(* op_inet_pton_sock: as IPv4 first, then as IPv6.                                  *)
op_inet_pton_sock(text) ==
    IF inet_pton4(text) # Failed THEN inet_pton4(text) ELSE inet_pton6(text)

(* op_inet_pton for AF_INET6: an IPv4 text is read as "::ffff:" and itself.          *)
op_inet_pton6(text) ==
    inet_pton6(IF inet_pton4(text) # Failed THEN <<Colon, Colon, Num(65535), Colon>> \o text ELSE text)

(* mangle_mapped_sockaddr on the address of an accepted connection.                  *)
mangle_mapped_sockaddr(addr) ==
    IF addr.family = "inet6" /\ V4Mapped(addr.parts) THEN V4(LastFour(addr.parts)) ELSE addr

-----------------------------------------------------------------------------
(* An address to write, or a text to parse; a run of digits is one token.              *)
Texts ==
    {t \in UNION {[1 .. n -> Tokens] : n \in 0 .. MaxText} :
        \A i \in 1 .. Len(t) - 1 : ~(IsNum(t[i]) /\ IsNum(t[i + 1]))}

Init ==
    /\ rep \in [kind : {"addr"}, value : {V6(a) : a \in [1 .. 8 -> Words]}]
                \cup [kind : {"text"}, value : Texts]
    /\ out = <<>>

(* An accepted address is mangled, written and read back; a text is parsed.           *)
Convert ==
    /\ out = <<>>
    /\ \/ /\ rep.kind = "addr"
          /\ \E text \in {op_inet_ntop(rep.value)} :
                out' = <<text, op_inet_pton_sock(text),
                         op_inet_ntop(mangle_mapped_sockaddr(rep.value)), op_inet_pton6(text)>>
       \/ /\ rep.kind # "addr"
          /\ out' = <<inet_pton4(rep.value), inet_pton6(rep.value)>>
    /\ UNCHANGED rep

Next == Convert
Spec == Init /\ [][Next]_vars

-----------------------------------------------------------------------------
(* What op_inet_ntop_sock writes op_inet_pton_sock reads back: the same IPv6          *)
(* address, or the IPv4 address of one that is mapped or compatible; read for        *)
(* AF_INET6 a mapped address comes back as it was; and mangling an accepted address   *)
(* does not change how it is written.                                            *)
RoundTrip ==
    rep.kind = "addr" /\ out # <<>> =>
        LET a == rep.value.parts
        IN  /\ out[2] = IF V4Mapped(a) \/ V4Compat(a) THEN V4(LastFour(a)) ELSE rep.value
            /\ ~V4Compat(a) => out[4] = rep.value
            /\ out[3] = out[1]

(* inet_pton4 accepts exactly four numbers of a byte with single dots between them.    *)
DottedQuad(text) ==
    /\ Len(text) = 7
    /\ \A i \in 1 .. 7 : IF i % 2 = 1 THEN text[i].num \in 0 .. 255 ELSE text[i] = Dot

(* A valid text of eight words: numbers with single colons between them, with at       *)
(* most one "::" for a run of zeros.                                              *)
Groups(text) ==
    \A i \in DOMAIN text :
        IF i % 2 = 1 THEN text[i].num \in 0 .. 65535 ELSE text[i] = Colon

WordText(text) == text = <<>> \/ (Len(text) % 2 = 1 /\ Groups(text))
Count(text) == (Len(text) + 1) \div 2

ValidV6(text) ==
    \/ WordText(text) /\ Count(text) = 8
    \/ \E i \in 1 .. Len(text) - 1 :
        /\ text[i] = Colon /\ text[i + 1] = Colon
        /\ LET l == SubSeq(text, 1, i - 1)
               r == SubSeq(text, i + 2, Len(text))
           IN  WordText(l) /\ WordText(r) /\ Count(l) + Count(r) < 8

(* The parsers accept what they should: inet_pton4 dotted quads and nothing else,       *)
(* inet_pton6, of texts without dots and without other characters, the valid ones and   *)
(* nothing else.                                                                  *)
ParsersExact ==
    rep.kind = "text" /\ out # <<>> =>
        /\ out[1] # Failed <=> DottedQuad(rep.value)
        /\ (\A i \in DOMAIN rep.value : rep.value[i] \notin {Dot, Other}) =>
                (out[2] # Failed <=> ValidV6(rep.value))

(* inet_pton6 answers 1 for a valid address only.                                     *)
ValidOnly ==
    rep.kind = "text" /\ out # <<>> /\ (\A i \in DOMAIN rep.value : rep.value[i] # Dot) =>
        (out[2] # Failed => ValidV6(rep.value))
=============================================================================
