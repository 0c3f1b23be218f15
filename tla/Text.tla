-------------------------------- MODULE Text --------------------------------
(* The scanners of text: UTF-8 in src/utf8.c, the byte scans of src/simd_scan.c, the parameters of a   *)
(* protocol line and the strings of src/tools.c, tokens and base64 in src/op_lib.c, as functions of a    *)
(* sequence of bytes.  Positions count from 0, as offsets do.  text grows by a byte at a time, so that    *)
(* every sequence of Bytes up to MaxLen is an input.                                             *)
EXTENDS Integers, Sequences, SequencesExt, FiniteSets, FiniteSetsExt

CONSTANTS
    Use,       \* "utf8", "scan", "params", "strings", "base64" (encoding) or "unbase64" (decoding)
    Bytes,     \* the bytes of an input
    MaxLen,    \* bound: length of an input
    Avx2,      \* bytes per step of the AVX2 scans (32)
    Lanes      \* bytes per step of the SSE2 and NEON scans (16)

(* What the constants have to satisfy.                                      *)
TextAssumption ==
    /\ Use \in {"utf8", "scan", "params", "strings", "base64", "unbase64"} /\ Bytes \subseteq 0..255 /\ MaxLen \in Nat
    /\ Avx2 \in Nat \ {0} /\ Lanes \in Nat \ {0}

VARIABLE text

At(s, p) == s[p + 1]
From(s, p) == SubSeq(s, p + 1, Len(s))
Upto(s, p) == SubSeq(s, 1, p)

-----------------------------------------------------------------------------
(* src/utf8.c.                                                              *)

Invalid == -1

(* How many continuation bytes a lead byte announces, and the bits it gives.           *)
Extra(b) == CASE b < 128 -> 0 [] b \in 128..193 -> Invalid [] b \in 194..223 -> 1
              [] b \in 224..239 -> 2 [] b \in 240..244 -> 3 [] OTHER -> Invalid
LeadBits(b) == CASE b < 128 -> b [] b < 224 -> b % 32 [] b < 240 -> b % 16 [] OTHER -> b % 8

(* Where the next sequence starts, or Invalid.                                *)
utf8_decode_one(s, p) ==
    LET extra == Extra(At(s, p))
        cs == SubSeq(s, p + 2, p + 1 + extra)
        cp == FoldLeft(LAMBDA a, c : 64 * a + (c % 64), LeadBits(At(s, p)), cs)
    IN  IF p >= Len(s) THEN Invalid
        ELSE IF \/ extra = Invalid                             \* no lead byte, or overlong
                \/ p + 1 + extra > Len(s)                      \* cut short
                \/ \E i \in DOMAIN cs : cs[i] \notin 128..191
                \/ extra = 2 /\ cp < 2048                      \* overlong
                \/ extra = 3 /\ cp < 65536
                \/ cp \in 55296..57343                         \* a surrogate half
                \/ cp > 1114111
             THEN Invalid ELSE p + 1 + extra

(* The offset of the first byte that is not decoded, or Invalid when all are.         *)
RECURSIVE FirstBad(_, _)
FirstBad(s, p) ==
    CASE p >= Len(s) -> Invalid
      [] p < Len(s) /\ utf8_decode_one(s, p) = Invalid -> p
      [] OTHER -> FirstBad(s, utf8_decode_one(s, p))
op_utf8_validate(s) == FirstBad(s, 0) = Invalid

IsContinuation(b) == b \in 128..191

op_utf8_truncate(s, max_bytes) ==
    LET starts == {p \in 0..max_bytes : p = 0 \/ ~IsContinuation(At(s, p))}
        safe == Max(starts)
        lead == At(s, safe)
        seq_len == CASE lead \in 192..223 -> 2 [] lead \in 224..239 -> 3 [] lead \in 240..247 -> 4 [] OTHER -> 1
    IN  IF Len(s) <= max_bytes THEN Len(s)
        ELSE IF safe = max_bytes THEN safe
        ELSE IF safe + seq_len <= max_bytes THEN safe + seq_len ELSE safe

Replacement == <<239, 191, 189>>      \* U+FFFD

RECURSIVE Sanitised(_, _, _, _)
Sanitised(s, p, dst, cap) ==
    LET next == utf8_decode_one(s, p)
        piece == IF next = Invalid THEN Replacement ELSE SubSeq(s, p + 1, next)
    IN  IF p >= Len(s) THEN dst
        ELSE Sanitised(s, IF next = Invalid THEN p + 1 ELSE next,
                       IF Len(dst) + Len(piece) <= cap THEN dst \o piece ELSE dst, cap)
op_utf8_sanitise(s, cap) == Sanitised(s, 0, <<>>, cap)

RECURSIVE Counted(_, _)
Counted(s, p) ==
    LET next == utf8_decode_one(s, p)
    IN  IF p >= Len(s) THEN 0 ELSE 1 + Counted(s, IF next = Invalid THEN p + 1 ELSE next)
op_utf8_strlen(s) == Counted(s, 0)

-----------------------------------------------------------------------------
(* src/simd_scan.c.  hits are the offsets of the bytes a scan stops at; a mask is the set of      *)
(* the bits set, and ctz its least.                                              *)

Delims(s, d1, d2) == {p \in 0..Len(s) - 1 : At(s, p) \in {d1, d2}}
Others(s, c) == {p \in 0..Len(s) - 1 : At(s, p) # c}
Mask(p, width, hits) == {i \in 0..width - 1 : p + i \in hits}
Nibbles(mask) == UNION {4 * i..4 * i + 3 : i \in mask}        \* vshrn_n_u16: four bits a lane

RECURSIVE Bytewise(_, _, _)
Bytewise(s, p, hits) == IF p < Len(s) /\ p \notin hits THEN Bytewise(s, p + 1, hits) ELSE p

RECURSIVE Chunks(_, _, _, _)
Chunks(s, p, width, hits) ==
    LET mask == Mask(p, width, hits)
    IN  IF p + width > Len(s) THEN Bytewise(s, p, hits)
        ELSE IF mask # {} THEN p + Min(mask) ELSE Chunks(s, p + width, width, hits)

RECURSIVE NeonChunks(_, _, _)
NeonChunks(s, p, hits) ==
    LET mask == Nibbles(Mask(p, Lanes, hits))
    IN  IF p + Lanes > Len(s) THEN Bytewise(s, p, hits)
        ELSE IF mask # {} THEN p + Min(mask) \div 4 ELSE NeonChunks(s, p + Lanes, hits)

_find_delim_avx2(s, d1, d2) == Chunks(s, 0, Avx2, Delims(s, d1, d2))
_find_delim_sse2(s, d1, d2) == Chunks(s, 0, Lanes, Delims(s, d1, d2))
_find_delim_neon(s, d1, d2) == NeonChunks(s, 0, Delims(s, d1, d2))
_find_delim_scalar(s, d1, d2) == Bytewise(s, 0, Delims(s, d1, d2))

_count_leading_avx2(s, c) == Chunks(s, 0, Avx2, Others(s, c))
_count_leading_sse2(s, c) == Chunks(s, 0, Lanes, Others(s, c))
_count_leading_neon(s, c) == NeonChunks(s, 0, Others(s, c))
_count_leading_scalar(s, c) == Bytewise(s, 0, Others(s, c))

(* What the builds can answer.                                              *)
op_simd_find_delim(s, d1, d2) ==
    IF s = <<>> THEN {0}
    ELSE {_find_delim_avx2(s, d1, d2), _find_delim_sse2(s, d1, d2),
          _find_delim_neon(s, d1, d2), _find_delim_scalar(s, d1, d2)}

op_simd_count_leading(s, c) ==
    IF s = <<>> THEN {0}
    ELSE {_count_leading_avx2(s, c), _count_leading_sse2(s, c),
          _count_leading_neon(s, c), _count_leading_scalar(s, c)}

-----------------------------------------------------------------------------
(* src/tools.c: op_string_to_array.  A parameter is what its pointer shows up to the next NUL.          *)

Space == 32
Colon == 58

Blanks(s, p) == CHOOSE n \in op_simd_count_leading(From(s, p), Space) : TRUE

(* The loop, at xbuf = p with the parameters parv so far.                        *)
RECURSIVE Params(_, _, _, _)
Params(s, p, parv, maxpara) ==
    LET sp == p + (CHOOSE n \in op_simd_find_delim(From(s, p), Space, 0) : TRUE)
        word == Append(parv, SubSeq(s, p + 1, sp))
        next == sp + 1 + Blanks(s, sp + 1)
        rest == IF At(s, next) = Colon THEN next + 1 ELSE next
    IN  IF At(s, p) = Colon THEN Append(parv, From(s, p + 1))
        ELSE IF sp = Len(s) \/ next = Len(s) THEN word
        ELSE IF Len(word) < maxpara - 1 THEN Params(s, next, word, maxpara)
        ELSE Append(word, From(s, rest))

op_string_to_array(s, maxpara) ==
    IF s = <<>> \/ Blanks(s, 0) = Len(s) THEN <<>> ELSE Params(s, Blanks(s, 0), <<>>, maxpara)

(* src/op_lib.c: op_strtok_r, called until it returns NULL.                       *)
RECURSIVE op_strtok_r(_, _, _)
op_strtok_r(s, p, delims) ==
    LET token == Bytewise(s, p, {q \in 0..Len(s) - 1 : At(s, q) \notin delims})       \* strspn
        end == Bytewise(s, token, {q \in 0..Len(s) - 1 : At(s, q) \in delims})          \* strpbrk
    IN  IF token = Len(s) THEN <<>>
        ELSE <<SubSeq(s, token + 1, end)>> \o op_strtok_r(s, IF end = Len(s) THEN end ELSE end + 1, delims)

-----------------------------------------------------------------------------
(* src/tools.c: strings.  A string is its bytes, a NUL after the last; a function that fills a buffer       *)
(* gives the string left in it and the value returned.                                           *)

Char(s, p) == IF p < Len(s) THEN At(s, p) ELSE 0
tolower(c) == IF c \in 65..90 THEN c + 32 ELSE c

RECURSIVE Compared(_, _, _)
Compared(s1, s2, p) ==
    LET diff == tolower(Char(s1, p)) - tolower(Char(s2, p))
    IN  IF diff # 0 \/ Char(s1, p) = 0 THEN diff ELSE Compared(s1, s2, p + 1)
op_strcasecmp(s1, s2) == Compared(s1, s2, 0)

RECURSIVE ComparedUpto(_, _, _, _)
ComparedUpto(s1, s2, p, n) ==
    LET diff == tolower(Char(s1, p)) - tolower(Char(s2, p))
    IN  IF diff # 0 THEN diff
        ELSE IF Char(s1, p) = 0 \/ n - 1 = 0 THEN 0 ELSE ComparedUpto(s1, s2, p + 1, n - 1)
op_strncasecmp(s1, s2, n) == IF n = 0 THEN 0 ELSE ComparedUpto(s1, s2, 0, n)

(* The offset of the first occurrence of find, or Invalid for NULL; the search stands at p.                *)
RECURSIVE Searched(_, _, _)
Searched(s, p, find) ==
    LET first == Bytewise(s, p, {q \in 0..Len(s) - 1 : tolower(At(s, q)) = tolower(At(find, 0))})
    IN  IF first = Len(s) THEN Invalid
        ELSE IF op_strncasecmp(From(s, first + 1), From(find, 1), Len(find) - 1) = 0 THEN first
        ELSE Searched(s, first + 1, find)
op_strcasestr(s, find) == IF find = <<>> THEN 0 ELSE Searched(s, 0, find)

op_strlcat(dest, src, count) ==
    LET room == count - Len(dest)
        len == IF Len(src) >= room THEN room - 1 ELSE Len(src)
    IN  [str |-> IF count = 0 \/ Len(dest) >= count THEN dest ELSE dest \o Upto(src, len),
         ret |-> Len(dest) + Len(src)]

op_strlcpy(dest, src, size) ==
    LET len == IF Len(src) >= size THEN size - 1 ELSE Len(src)
    IN  [str |-> IF size = 0 THEN dest ELSE Upto(src, len), ret |-> Len(src)]

op_strnlen(s, count) == Bytewise(Upto(s, Min({count, Len(s)})), 0, {})

(* What vsnprintf, given size bytes (at least one), leaves of what it prints.                      *)
Printed(out, size) == Upto(out, Min({Len(out), size - 1}))

op_snprintf_append(str, len, out) ==
    CASE len = 0 -> [str |-> str, ret |-> -1]
      [] len # 0 /\ len <= Len(str) -> [str |-> Upto(str, len - 1), ret |-> len - 1]
      [] OTHER -> [str |-> str \o Printed(out, len - Len(str)), ret |-> Len(str) + Len(out)]

op_snprintf_try_append(str, len, out) ==
    CASE len = 0 -> [str |-> str, ret |-> -1]
      [] len # 0 /\ len <= Len(str) -> [str |-> Upto(str, len - 1), ret |-> -1]
      [] OTHER -> IF Len(str) + Len(out) >= len THEN [str |-> str, ret |-> -1]
                  ELSE [str |-> str \o out, ret |-> Len(str) + Len(out)]

Slash == 47
Slashes(path) == {p \in 0..Len(path) - 1 : At(path, p) = Slash}

op_basename(path) == IF Slashes(path) = {} THEN path ELSE From(path, Max(Slashes(path)) + 1)

op_dirname(path) ==
    LET before == {p \in 0..Max(Slashes(path)) : p \notin Slashes(path)}
        s == IF before = {} THEN 0 ELSE Max(before)
    IN  IF Slashes(path) = {} THEN <<46>> ELSE Upto(path, s + 1)

(* The loop of op_fsnprint: str is what was written, remaining the room of the next string; a string that    *)
(* Fails is a function, or a format, that returned a negative value.                               *)
Fails == <<-1>>
RECURSIVE Filled(_, _, _, _)
Filled(str, remaining, len, strings) ==
    LET used == Len(str)
        limit == Head(strings).length
        room == IF limit = 0 THEN remaining ELSE Min({limit, len - used})
        out == Head(strings).out
        filled == str \o Printed(out, room)
    IN  CASE strings = <<>> -> [str |-> str, ret |-> used]
          [] strings # <<>> /\ room = 0 -> [str |-> str, ret |-> used]
          [] strings # <<>> /\ room # 0 /\ out = Fails -> [str |-> str, ret |-> -1]
          [] OTHER -> IF Len(filled) >= len - 1 THEN [str |-> filled, ret |-> len - 1]
                      ELSE Filled(filled, len - Len(filled), len, Tail(strings))
op_fsnprint(len, strings) == Filled(<<>>, len, len, strings)
op_fsnprintf(len, strings, out) == op_fsnprint(len, <<[length |-> 0, out |-> out]>> \o strings)

-----------------------------------------------------------------------------
(* src/op_lib.c: base64.  A character is its place in the alphabet (0..63), Pad, or another one.         *)
(* The URL alphabet has the same places.                                                    *)

Pad == 64

RECURSIVE op_base64_encode(_)
op_base64_encode(src) ==
    LET a == At(src, 0)
        b == At(src, 1)
        c == At(src, 2)
    IN  CASE src = <<>> -> <<>>
          [] Len(src) = 1 -> <<a \div 4, (a % 4) * 16, Pad, Pad>>
          [] Len(src) = 2 -> <<a \div 4, ((a % 4) * 16) + (b \div 16), (b % 16) * 4, Pad>>
          [] OTHER -> <<a \div 4, ((a % 4) * 16) + (b \div 16), ((b % 16) * 4) + (c \div 64), c % 64>>
                        \o op_base64_encode(From(src, 3))

(* The loop of op_base64_decode: i digits were read, done holds the bytes completed and part the one       *)
(* that is not.                                                                          *)
RECURSIVE Decoded(_, _, _, _)
Decoded(src, i, done, part) ==
    LET val == Head(src)
        step(bytes, rest) == Decoded(Tail(src), i + 1, bytes, rest)
    IN  CASE src = <<>> -> [bytes |-> done, digits |-> i, padded |-> FALSE]
          [] src # <<>> /\ val = Pad -> [bytes |-> done, digits |-> i, padded |-> TRUE]
          [] src # <<>> /\ val > Pad -> Decoded(Tail(src), i, done, part)                  \* skipped
          [] OTHER -> CASE i % 4 = 0 -> step(done, val * 4)
                        [] i % 4 = 1 -> step(Append(done, part + (val \div 16)), (val % 16) * 16)
                        [] i % 4 = 2 -> step(Append(done, part + (val \div 4)), (val % 4) * 64)
                        [] i % 4 = 3 -> step(Append(done, part + val), 0)

Failed == <<-1>>
op_base64_decode(src) ==
    LET d == Decoded(src, 0, <<>>, 0) IN IF d.padded /\ d.digits % 4 = 1 THEN Failed ELSE d.bytes

op_base64url_encode(src) == SelectSeq(op_base64_encode(src), LAMBDA c : c # Pad)
op_base64url_decode(src) ==
    op_base64_decode(src \o [k \in 1..(4 - (Len(src) % 4)) % 4 |-> Pad])

-----------------------------------------------------------------------------
Init == text = <<>>
Next == Len(text) < MaxLen /\ \E b \in Bytes : text' = Append(text, b)
Spec == Init /\ [][Next]_text

-----------------------------------------------------------------------------
(* Properties.                                                              *)

(* The well-formed sequences of the Unicode standard, as ranges of bytes.          *)
Cont == 128..191
WellFormed == <<
    <<0..127>>, <<194..223, Cont>>,
    <<{224}, 160..191, Cont>>, <<225..236, Cont, Cont>>, <<{237}, 128..159, Cont>>, <<238..239, Cont, Cont>>,
    <<{240}, 144..191, Cont, Cont>>, <<241..243, Cont, Cont, Cont>>, <<{244}, 128..143, Cont, Cont>> >>

Fits(s, row) == Len(s) = Len(row) /\ \A i \in DOMAIN s : s[i] \in row[i]

RECURSIVE Valid(_)
Valid(s) == s = <<>> \/ \E k \in 1..Min({4, Len(s)}) :
                            (\E r \in DOMAIN WellFormed : Fits(Upto(s, k), WellFormed[r])) /\ Valid(From(s, k))

(* utf8_decode_one accepts the well-formed texts and no other; op_utf8_truncate cuts a valid       *)
(* text to its longest valid prefix; op_utf8_sanitise leaves a valid text alone and makes a          *)
(* valid text of any other, within three times its length or a smaller buffer, of as many            *)
(* characters as op_utf8_strlen counts.                                                    *)
Utf8Exact ==
    /\ op_utf8_validate(text) = Valid(text)
    /\ Valid(text) => \A max \in 0..Len(text) :
           op_utf8_truncate(text, max) = Max({k \in 0..max : Valid(Upto(text, k))})
    /\ LET clean == op_utf8_sanitise(text, 3 * Len(text))
       IN  /\ Valid(clean) /\ op_utf8_strlen(clean) = op_utf8_strlen(text)
           /\ Valid(text) => clean = text
    /\ \A cap \in 0..2 : LET short == op_utf8_sanitise(text, cap) IN Valid(short) /\ Len(short) <= cap

(* Whatever the vector unit, the scans give the offset of the first delimiter and the length of     *)
(* the leading run, also in the bytes after the last whole vector.                             *)
ScansExact ==
    LET first(test(_)) == Min({p \in 0..Len(text) : p = Len(text) \/ test(At(text, p))})
    IN  \A d1, d2 \in Bytes :
            /\ op_simd_find_delim(text, d1, d2) = {first(LAMBDA c : c \in {d1, d2})}
            /\ op_simd_count_leading(text, d1) = {first(LAMBDA c : c # d1)}

(* The parameters of a line are the words before the first that starts with a colon, which takes the      *)
(* rest of the line, as the last of maxpara does; op_strtok_r gives the longest runs without delimiters.   *)
ParamsExact ==
    LET starts == {p \in 0..Len(text) - 1 : At(text, p) # Space /\ (p > 0 => At(text, p - 1) = Space)}
        order == SetToSortSeq(starts, <)
        colons == {k \in DOMAIN order : At(text, order[k]) = Colon}
        word(p) == SubSeq(text, p + 1, Min({q \in p..Len(text) : q = Len(text) \/ At(text, q) = Space}))
    IN  /\ \A maxpara \in 2..3 :
              LET n == Min({Len(order), maxpara} \cup colons)
                  param(k) == IF At(text, order[k]) = Colon THEN From(text, order[k] + 1)
                              ELSE IF k = maxpara THEN From(text, order[k]) ELSE word(order[k])
              IN  op_string_to_array(text, maxpara) = [k \in 1..n |-> param(k)]
        /\ op_strtok_r(text, 0, {Space}) = [k \in DOMAIN order |-> word(order[k])]

(* What is encoded is decoded to the same bytes, in both alphabets; every group of four characters is      *)
(* whole.                                                                                *)
EncodingExact ==
    /\ op_base64_decode(op_base64_encode(text)) = text
    /\ op_base64url_decode(op_base64url_encode(text)) = text
    /\ Len(op_base64_encode(text)) = 4 * ((Len(text) + 2) \div 3)

(* The decoder gives the bytes of the bits of the digits before the first pad, whatever stands between      *)
(* them, and refuses a digit that a pad leaves alone.                                           *)
DecodingExact ==
    LET end == Min({Len(text)} \cup {p \in 0..Len(text) - 1 : At(text, p) = Pad})
        digits == SelectSeq(Upto(text, end), LAMBDA c : c < Pad)
        bit(k) == (digits[(k \div 6) + 1] \div 2^(5 - (k % 6))) % 2
        byte(j) == FoldLeft(LAMBDA a, k : 2 * a + bit(k), 0, [k \in 1..8 |-> (8 * (j - 1)) + k - 1])
    IN  op_base64_decode(text) = IF end < Len(text) /\ Len(digits) % 4 = 1 THEN Failed
                                 ELSE [j \in 1..(6 * Len(digits)) \div 8 |-> byte(j)]

(* Comparisons and searches agree with the texts in lower case, up to n bytes of them; what is copied or     *)
(* appended is the longest part that fits a buffer with its NUL, and the value returned tells whether all     *)
(* of it did, none of it being left of an append that was only tried; a path is its directory, slashes and    *)
(* its last name; the strings of a list follow one another, each within its own limit.            *)
StringsExact ==
    LET low(s) == [k \in DOMAIN s |-> tolower(s[k])]
        cut(s, size) == Upto(s, Min({Len(s), size - 1}))
        sign(n) == IF n < 0 THEN -1 ELSE IF n > 0 THEN 1 ELSE 0
        order(s1, s2) ==
            LET same == Max({k \in 0..Min({Len(s1), Len(s2)}) : Upto(low(s1), k) = Upto(low(s2), k)})
            IN  sign(Char(low(s1), same) - Char(low(s2), same))
    IN  /\ \A k \in 0..Len(text) :
              LET a == Upto(text, k)
                  b == From(text, k)
                  finds == {p \in 0..Len(a) - Len(b) : SubSeq(low(a), p + 1, p + Len(b)) = low(b)}
              IN  /\ sign(op_strcasecmp(a, b)) = order(a, b)
                  /\ \A n \in 0..3 : /\ sign(op_strncasecmp(a, b, n)) = order(cut(a, n + 1), cut(b, n + 1))
                                     /\ op_strnlen(a, n) = Min({n, k})
                  /\ op_strcasestr(a, b) = IF finds = {} THEN Invalid ELSE Min(finds)
                  /\ \A size \in 1..Len(text) + 1 :
                        LET lcat == op_strlcat(a, b, size)
                            append == op_snprintf_append(a, size, b)
                            try == op_snprintf_try_append(a, size, b)
                            list == op_fsnprintf(size, <<[length |-> 2, out |-> b], [length |-> 0, out |-> a]>>, a)
                        IN  /\ op_strlcpy(b, a, size) = [str |-> cut(a, size), ret |-> k]
                            /\ lcat.ret = Len(text) /\ (k < size => lcat.str = cut(text, size))
                            /\ append.str = cut(text, size)
                            /\ (append.ret < size - 1) => append.str = text
                            /\ try = IF Len(text) < size THEN [str |-> text, ret |-> Len(text)]
                                     ELSE [str |-> cut(a, size), ret |-> -1]
                            /\ list.str = cut(a \o cut(b, 2) \o a, size) /\ list.ret = Len(list.str)
        /\ LET dir == op_dirname(text)
               base == op_basename(text)
               gap == SubSeq(text, Len(dir) + 1, Len(text) - Len(base))
           IN  /\ Slashes(base) = {}
               /\ IF Slashes(text) = {} THEN base = text
                  ELSE /\ text = dir \o gap \o base /\ \A k \in DOMAIN gap : gap[k] = Slash
                       /\ dir = <<Slash>> \/ (At(dir, Len(dir) - 1) # Slash /\ gap # <<>>)

(* The scanners agree with their definitions on every input.                   *)
TextExact ==
    CASE Use = "utf8" -> Utf8Exact [] Use = "scan" -> ScansExact [] Use = "params" -> ParamsExact
      [] Use = "base64" -> EncodingExact [] Use = "unbase64" -> DecodingExact
      [] Use = "strings" -> StringsExact
=============================================================================
