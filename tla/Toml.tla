-------------------------------- MODULE Toml --------------------------------
(* The configuration parser of src/toml.c, one iteration of parse_document at a time, with its       *)
(* memory: live counts the blocks that were allocated and not freed, and any allocation may fail.     *)
(*                                                                                         *)
(* A text is a sequence of tokens, apart by blanks: punctuation, "nl", bare words, and the strings    *)
(* and numbers of the constants.  It grows by a line at a time; a line holds what one iteration        *)
(* reads, the newlines inside of an array included, and an array left open ends the text.             *)
EXTENDS Integers, Sequences, SequencesExt, FiniteSets, FiniteSetsExt, Functions

CONSTANTS
    Lines,      \* the lines of an input, without the newline at their end
    Words,      \* the tokens that are bare words
    Quoted,     \* the tokens that are strings in quotes, and the word in them
    Open,       \* a string in quotes without its end
    Digits,     \* the tokens that are numbers, and their digits
    LongMax,    \* LONG_MAX
    FirstCap,   \* the capacity a table or an array gets first (8)
    MaxLines,   \* bound: lines of a text
    MaxFail     \* bound: which allocation of an iteration may fail

(* What the constants have to satisfy.                                      *)
TomlAssumption ==
    /\ {LongMax, FirstCap, MaxLines} \subseteq Nat \ {0} /\ MaxFail \in Nat
    /\ \A q \in DOMAIN Quoted : Quoted[q] \in Words
    /\ \A d \in DOMAIN Digits : Digits[d] \in Seq(0..9) \ {<<>>}

VARIABLES
    rep,    \* the parser_t, the tables and the live blocks
    fed,    \* the lines of the text so far, each with its newline unless it ends the text
    out     \* "parsing", "root" or "NULL"

vars == <<rep, fed, out>>

-----------------------------------------------------------------------------
(* p is the parser: err is set on every path that returns an error, null by a failed allocation,      *)
(* out holds what a function returns.  tabs[1] is the root; a value of type "table" names a table.     *)

Table == [kv |-> <<>>, cap |-> 0]
Array == [items |-> <<>>, cap |-> 0]
None == [type |-> "none", v |-> 0]

Peek(p) == IF p.cur <= Len(p.text) THEN p.text[p.cur] ELSE "end"
Past(p) == [p EXCEPT !.cur = @ + 1]
Err(p) == [p EXCEPT !.err = TRUE]
Free(p, n) == [p EXCEPT !.live = @ - n]
Malloc(p) ==
    IF p.fail = 1 THEN [p EXCEPT !.fail = 0, !.null = TRUE]
    ELSE [p EXCEPT !.fail = IF @ > 0 THEN @ - 1 ELSE 0, !.live = @ + 1]
Realloc(p, fresh) == LET q == Malloc(p) IN IF q.null \/ fresh THEN q ELSE Free(q, 1)

Sum(s) == FoldLeft(LAMBDA a, b : a + b, 0, s)
Blocks(v) ==
    CASE v.type = "str" -> 1
      [] v.type = "arr" -> 1 + (IF v.v.cap > 0 THEN 1 ELSE 0)
                             + Len(SelectSeq(v.v.items, LAMBDA w : w.type = "str"))
      [] OTHER -> 0
TableBlocks(t) ==
    1 + (IF t.cap > 0 THEN 1 ELSE 0) + Len(t.kv) + Sum([i \in DOMAIN t.kv |-> Blocks(t.kv[i].val)])

free_tv(p, v) == Free(p, Blocks(v))
free_table(p) == Free(p, Sum([i \in DOMAIN p.tabs |-> TableBlocks(p.tabs[i])]))

Grown(cap) == IF cap = 0 THEN FirstCap ELSE 2 * cap
table_grow(p, t) ==
    LET tab == p.tabs[t]
        q == Realloc(p, tab.cap = 0)
    IN  IF Len(tab.kv) < tab.cap THEN p
        ELSE IF q.null THEN q ELSE [q EXCEPT !.tabs[t].cap = Grown(@)]

(* The index of the entry of a key, or 0.                                    *)
table_find(tab, key) ==
    LET found == {i \in DOMAIN tab.kv : tab.kv[i].key = key}
    IN  IF found = {} THEN 0 ELSE Min(found)

table_insert(p, t, key, val) ==
    LET grown == table_grow(p, t)
        dup == Malloc(grown)
    IN  IF grown.null THEN grown
        ELSE IF dup.null THEN dup
        ELSE [dup EXCEPT !.tabs[t].kv = Append(@, [key |-> key, val |-> val])]

(* A table made by table_new.                                               *)
table_new(p) ==
    LET q == Malloc(p) IN IF q.null THEN q ELSE [q EXCEPT !.tabs = Append(@, Table)]

-----------------------------------------------------------------------------
(* Blanks, comments and values.                                              *)

RECURSIVE ToEol(_)
ToEol(p) == IF Peek(p) \in {"nl", "end"} THEN p ELSE ToEol(Past(p))

Newline(p) == [Past(p) EXCEPT !.line = @ + 1]

RECURSIVE skip_ws_and_newlines(_)
skip_ws_and_newlines(p) ==
    CASE Peek(p) = "nl" -> skip_ws_and_newlines(Newline(p))
      [] Peek(p) = "#" -> skip_ws_and_newlines(ToEol(p))
      [] OTHER -> p

skip_line(p) == IF Peek(ToEol(p)) = "nl" THEN Newline(ToEol(p)) ELSE ToEol(p)

parse_string(p) ==
    LET q == Malloc(Past(p))
    IN  CASE q.null -> Err(q)
          [] ~q.null /\ Peek(p) = Open -> Free(Err(q), 1)
          [] OTHER -> [q EXCEPT !.out = [type |-> "str", v |-> Quoted[Peek(p)]]]

(* The number that the digits give, or -1 when it does not fit.                   *)
RECURSIVE Number(_, _)
Number(val, ds) ==
    IF ds = <<>> THEN val
    ELSE IF val > (LongMax - Head(ds)) \div 10 THEN -1
    ELSE Number(10 * val + Head(ds), Tail(ds))

parse_integer(p) ==
    LET n == Number(0, Digits[Peek(p)])
    IN  IF n = -1 THEN Err(p) ELSE [Past(p) EXCEPT !.out = [type |-> "int", v |-> n]]

Scalar(p) ==
    CASE Peek(p) \in DOMAIN Quoted \cup {Open} -> parse_string(p)
      [] Peek(p) \in DOMAIN Digits -> parse_integer(p)
      [] OTHER -> Err(p)

(* The loop of parse_array; a is the array so far.                             *)
RECURSIVE Elements(_, _)
Elements(p0, a) ==
    LET p == skip_ws_and_newlines(p0)
        value == [type |-> "arr", v |-> a]
        read == Scalar(p)
        item == read.out
        full == Len(a.items) = a.cap
        grown == IF full THEN Realloc(read, a.cap = 0) ELSE read
        more == [items |-> Append(a.items, item), cap |-> IF full THEN Grown(a.cap) ELSE a.cap]
        after == skip_ws_and_newlines(grown)
    IN  CASE Peek(p) = "end" -> free_tv(Err(p), value)
          [] Peek(p) = "]" -> [Past(p) EXCEPT !.out = value]
          [] Peek(p) \notin {"end", "]"} /\ read.err -> free_tv(read, value)
          [] OTHER ->
                IF \/ a.items # <<>> /\ item.type # a.items[1].type       \* mixed
                   \/ grown.null
                THEN free_tv(free_tv(Err(grown), item), value)
                ELSE IF Peek(after) = "," THEN Elements(Past(after), more)
                ELSE IF Peek(after) = "]" THEN Elements(after, more)
                ELSE free_tv(Err(after), [type |-> "arr", v |-> more])

parse_array(p) == LET q == Malloc(Past(p)) IN IF q.null THEN Err(q) ELSE Elements(q, Array)

parse_value(p) ==
    CASE Peek(p) = "[" -> parse_array(p)
      [] Peek(p) = "true" -> [Past(p) EXCEPT !.out = [type |-> "bool", v |-> TRUE]]
      [] OTHER -> Scalar(p)

-----------------------------------------------------------------------------
(* parse_document.                                                          *)

(* A key: a string, or a bare word, which a number and true are too; out is a name.       *)
parse_key(p) ==
    LET q == Malloc(Past(p))
        s == parse_string(p)
    IN  CASE Peek(p) \in DOMAIN Quoted \cup {Open} -> IF s.err THEN s ELSE [s EXCEPT !.out = <<s.out.v>>]
          [] Peek(p) \in Words \cup DOMAIN Digits \cup {"true"} ->
                 IF q.null THEN Err(q) ELSE [q EXCEPT !.out = <<Peek(p)>>]
          [] OTHER -> Err(p)

(* A table's name: all up to the bracket.                                     *)
RECURSIVE ToBracket(_)
ToBracket(p) == IF Peek(p) \in {"]", "nl", "end"} THEN p ELSE ToBracket(Past(p))
parse_header_name(p) ==
    LET q == ToBracket(p)
        m == Malloc(q)
    IN  CASE q.cur = p.cur -> Err(p)
          [] q.cur # p.cur /\ m.null -> Err(m)
          [] OTHER -> [m EXCEPT !.out = SubSeq(p.text, p.cur, q.cur - 1)]

(* [[name]]: the new table is the last of the array, and the current one ...       *)
AddedTable(new, k) ==
    LET t == Len(new.tabs)
    IN  IF new.null THEN Err(Free(new, 1))
        ELSE [Free(new, 1) EXCEPT !.tabs[1].kv[k].val.v.items = Append(@, [type |-> "table", v |-> t]),
                                  !.cur_tab = t]

(* ... append a table to the array, entry k of the root ...                      *)
AppendTable(p, k) ==
    LET a == p.tabs[1].kv[k].val.v
        full == Len(a.items) = a.cap
        grown == IF full THEN Realloc(p, a.cap = 0) ELSE p
        cap == IF full THEN Grown(a.cap) ELSE a.cap
    IN  IF grown.null THEN Err(Free(grown, 1))
        ELSE AddedTable(table_new([grown EXCEPT !.tabs[1].kv[k].val.v.cap = cap]), k)

NewArray(put) ==
    IF put.null THEN Err(Free(put, 2))                                \* name, and free_arr
    ELSE AppendTable(put, Len(put.tabs[1].kv))

(* ... after finding or making it.                                            *)
ArrayHeader(p, name) ==
    LET i == table_find(p.tabs[1], name)
        made == Malloc(p)                                            \* arr_new
    IN  IF i # 0 THEN IF p.tabs[1].kv[i].val.type # "arr" THEN Err(Free(p, 1)) ELSE AppendTable(p, i)
        ELSE IF made.null THEN Err(Free(made, 1))
        ELSE NewArray(table_insert(made, 1, name, [type |-> "arr", v |-> Array]))

(* [name]: find or make the table.                                            *)
TableHeader(p, name) ==
    LET i == table_find(p.tabs[1], name)
        sub == table_new(p)
        t == Len(sub.tabs)
        put == table_insert(sub, 1, name, [type |-> "table", v |-> t])
    IN  IF i # 0 THEN IF p.tabs[1].kv[i].val.type # "table" THEN Err(Free(p, 1))
                      ELSE [Free(p, 1) EXCEPT !.cur_tab = p.tabs[1].kv[i].val.v]
        ELSE IF sub.null THEN Err(Free(sub, 1))
        ELSE IF put.null THEN [Err(Free(put, 2)) EXCEPT !.tabs = Front(@)]
        ELSE [Free(put, 1) EXCEPT !.cur_tab = t]

HeaderNamed(named, is_aot) ==
    LET closed == IF is_aot THEN Past(Past(named)) ELSE Past(named)
        end == IF Peek(closed) = "#" THEN skip_line(closed) ELSE closed
    IN  IF named.err THEN named
        ELSE IF \/ Peek(named) # "]"
                \/ is_aot /\ Peek(Past(named)) # "]"
                \/ Peek(closed) \notin {"#", "nl", "end"}
             THEN Err(Free(named, 1))
        ELSE IF is_aot THEN ArrayHeader(end, named.out) ELSE TableHeader(end, named.out)

Header(p) ==
    LET is_aot == Peek(Past(p)) = "["
    IN  HeaderNamed(parse_header_name(IF is_aot THEN Past(Past(p)) ELSE Past(p)), is_aot)

(* key = value: the end of the line behind what was inserted, ...                *)
Inserted(put, val) ==
    LET end == Free(put, 1)
    IN  IF put.null THEN Err(free_tv(end, val))
        ELSE IF Peek(end) = "#" THEN skip_line(end)
        ELSE IF Peek(end) \in {"nl", "end"} THEN end ELSE Err(end)

(* ... the value, ...                                                        *)
Valued(val, key) ==
    IF val.err THEN Free(val, 1)
    ELSE Inserted(table_insert(val, val.cur_tab, key, val.out), val.out)

(* ... and the key.                                                          *)
Keyed(key) ==
    IF key.err THEN key
    ELSE IF Peek(key) # "=" THEN Err(Free(key, 1))
    ELSE IF table_find(key.tabs[key.cur_tab], key.out) # 0 THEN Err(Free(Past(key), 1))      \* duplicate
    ELSE Valued(parse_value(Past(key)), key.out)

KeyValue(p) == Keyed(parse_key(p))

Iteration(p0) ==
    LET p == skip_ws_and_newlines(p0)
    IN  CASE Peek(p) = "end" -> p
          [] Peek(p) = "[" -> Header(p)
          [] OTHER -> KeyValue(p)

-----------------------------------------------------------------------------
(* The lookups: 1 when the key is found and has the type, 0 when it is not found, -1 when its type      *)
(* differs; an array's elements the same way.                                                  *)
op_toml_lookup(tab, k, type) ==
    LET i == table_find(tab, k)
    IN  IF i = 0 THEN 0 ELSE IF tab.kv[i].val.type # type THEN -1 ELSE 1

op_toml_arr_item(a, i, type) ==
    IF i \notin 0..Len(a.items) - 1 THEN 0 ELSE IF a.items[i + 1].type # type THEN -1 ELSE 1

op_toml_iter(tab) == [i \in DOMAIN tab.kv |-> tab.kv[i].key]

-----------------------------------------------------------------------------
(* op_toml_parse.  The text is what was fed; root is freed when an iteration fails.                 *)
Init ==
    /\ rep = [text |-> <<>>, cur |-> 1, line |-> 1, live |-> 1, fail |-> 0, tabs |-> <<Table>>,
              cur_tab |-> 1, err |-> FALSE, null |-> FALSE, out |-> None]
    /\ fed = <<>> /\ out = "parsing"

Ended == fed # <<>> /\ Last(Last(fed)) # "nl"

parse_document ==
    /\ out = "parsing" /\ ~Ended /\ Len(fed) < MaxLines
    /\ \E l \in Lines, end \in {<<>>, <<"nl">>}, fail \in 0..MaxFail :
          /\ l \o end # <<>>
          /\ fed' = Append(fed, l \o end)
          /\ \E p \in {Iteration([rep EXCEPT !.text = @ \o l \o end, !.fail = fail])} :
                 IF p.err THEN rep' = free_table([p EXCEPT !.out = None]) /\ out' = "NULL"
                 ELSE rep' = [p EXCEPT !.out = None, !.fail = 0] /\ out' = out

op_toml_parse == out = "parsing" /\ out' = "root" /\ UNCHANGED <<rep, fed>>

Next == parse_document \/ op_toml_parse
Spec == Init /\ [][Next]_vars

-----------------------------------------------------------------------------
(* Properties.                                                              *)

TypeOK ==
    /\ rep.cur \in 1..Len(rep.text) + 1 /\ rep.line \in Nat /\ rep.live \in Nat
    /\ rep.cur_tab \in DOMAIN rep.tabs /\ out \in {"parsing", "root", "NULL"}

(* What a line says by the grammar of op_toml.h.  A comment runs up to the newline; a header's name   *)
(* is all between its brackets.                                                              *)
Uncommented(l) ==
    LET hidden == {i \in DOMAIN l : \E j \in 1..i : l[j] = "#" /\ \A k \in j..i : l[k] # "nl"}
    IN  FoldLeftDomain(LAMBDA acc, i : IF i \in hidden \/ l[i] = "nl" THEN acc ELSE Append(acc, l[i]), <<>>, l)

Prefix(kind) == IF kind = "array" THEN <<"[", "[">> ELSE <<"[">>
Suffix(kind) == IF kind = "array" THEN <<"]", "]">> ELSE <<"]">>
IsHeader(l, kind, n) ==
    LET name == SubSeq(l, Len(Prefix(kind)) + 1, Len(Prefix(kind)) + n)
        rest == SubSeq(l, n + 2 * Len(Prefix(kind)) + 1, Len(l))
    IN  /\ n + 2 * Len(Prefix(kind)) <= Len(l) /\ Range(name) \cap {"]", "nl"} = {} /\ (kind = "table" => name[1] # "[")
        /\ IsPrefix(Prefix(kind) \o name \o Suffix(kind), l)
        /\ rest # <<>> => rest[1] \in {"#", "nl"}

Value(t) == FoldLeft(LAMBDA a, d : 10 * a + d, 0, Digits[t])
ScalarType(t) == IF t \in DOMAIN Quoted THEN "str"
                 ELSE IF t \in DOMAIN Digits /\ Value(t) <= LongMax THEN "int" ELSE "none"
ScalarValue(t) == [type |-> ScalarType(t), v |-> IF ScalarType(t) = "str" THEN Quoted[t] ELSE Value(t)]
IsArray(v) ==
    /\ Len(v) >= 2 /\ v[1] = "[" /\ Last(v) = "]"
    /\ \A i \in 2..Len(v) - 1 : IF i % 2 = 1 THEN v[i] = ","
                                ELSE ScalarType(v[i]) # "none" /\ ScalarType(v[i]) = ScalarType(v[2])
ItemsOf(v) == [i \in 1..(Len(v) - 1) \div 2 |-> ScalarValue(v[2 * i])]

Keys == Words \cup DOMAIN Quoted \cup DOMAIN Digits \cup {"true"}
KeyOf(t) == IF t \in DOMAIN Quoted THEN <<Quoted[t]>> ELSE <<t>>

Said(kind, name, val) == [kind |-> kind, name |-> name, val |-> val]
Meaning(l) ==
    LET c == Uncommented(l)
        v == SubSeq(c, 3, Len(c))
        header(kind) == {n \in 1..Len(l) : IsHeader(l, kind, n)}
        key(val) == Said("key", KeyOf(c[1]), val)
    IN  IF c = <<>> THEN Said("blank", <<>>, None)
        ELSE IF \E kind \in {"table", "array"} : header(kind) # {}
             THEN LET kind == CHOOSE k \in {"table", "array"} : header(k) # {}
                  IN  Said(kind, SubSeq(l, Len(Prefix(kind)) + 1, Len(Prefix(kind)) + Min(header(kind))), None)
        ELSE IF ~(Len(c) >= 3 /\ c[1] \in Keys /\ c[2] = "=" /\ {l[1], l[2], l[3]} \cap {"nl", "#"} = {})
             THEN Said("wrong", <<>>, None)
        ELSE IF v = <<"true">> THEN key([type |-> "bool", v |-> TRUE])
        ELSE IF Len(v) = 1 /\ ScalarType(v[1]) # "none" THEN key(ScalarValue(v[1]))
        ELSE IF IsArray(v) THEN key([type |-> "arr", v |-> ItemsOf(v)])
        ELSE Said("wrong", <<>>, None)

(* The table that a line of the text is about: 0 for the root, else the line that first names it.     *)
Text == [i \in DOMAIN fed |-> Meaning(fed[i])]
Named(s, h) == IF h = 0 \/ s[h].kind = "array" THEN h
               ELSE Min({g \in 1..h : s[g].kind = "table" /\ s[g].name = s[h].name})
Home(s, i) == Named(s, Max({0} \cup {h \in 1..i - 1 : s[h].kind \in {"table", "array"}}))
InRoot(s, i) == s[i].kind \in {"table", "array"} \/ (s[i].kind = "key" /\ Home(s, i) = 0)
IsArr(s, i) == s[i].kind = "array" \/ s[i].val.type = "arr"

(* A line that may follow those before it.                                    *)
Acceptable(s, i) ==
    LET before == {j \in 1..i - 1 : InRoot(s, j) /\ s[j].name = s[i].name}
    IN  CASE s[i].kind = "blank" -> TRUE
          [] s[i].kind = "wrong" -> FALSE
          [] s[i].kind = "table" -> \A j \in before : s[j].kind = "table"
          [] s[i].kind = "array" -> \A j \in before : IsArr(s, j)
          [] s[i].kind = "key" -> IF Home(s, i) = 0 THEN before = {}
                                  ELSE \A j \in 1..i - 1 : s[j].kind = "key" /\ s[j].name = s[i].name
                                                               => Home(s, j) # Home(s, i)

(* The lines that make the entries of a table, in order.                          *)
Entries(s, t) ==
    SelectSeq([i \in DOMAIN s |-> i],
              LAMBDA i : IF t = 0 THEN InRoot(s, i) /\ \A j \in 1..i - 1 : InRoot(s, j) => s[j].name # s[i].name
                         ELSE s[i].kind = "key" /\ Home(s, i) = t)
Tables(s) == SelectSeq([i \in DOMAIN s |-> i], LAMBDA i : s[i].kind \in {"table", "array"} /\ Named(s, i) = i)

(* A value and what the text says of it.                                       *)
Agrees(s, i, val) ==
    LET number(h) == 1 + Cardinality({j \in 1..Len(Tables(s)) : Tables(s)[j] <= h})
        appended == SelectSeq(Tables(s), LAMBDA h : s[h].kind = "array" /\ s[h].name = s[i].name)
        tables == [k \in DOMAIN appended |-> [type |-> "table", v |-> number(appended[k])]]
    IN  CASE s[i].kind = "table" -> val = [type |-> "table", v |-> number(i)]
          [] IsArr(s, i) -> /\ val.type = "arr" /\ op_toml_arr_item(val.v, Len(val.v.items), "int") = 0
                            /\ val.v.items = (IF s[i].kind = "key" THEN s[i].val.v ELSE <<>>)
                                                \o (IF InRoot(s, i) THEN tables ELSE <<>>)
          [] OTHER -> val = s[i].val

(* op_toml_parse accepts exactly the texts of its grammar in which no key is given twice and no name   *)
(* is used both for a table and for something else; the tables it returns hold, in the order of the     *)
(* lines, what was said under their headers, and its errors name the line the cursor is in.            *)
TomlExact ==
    \A s \in {Text} :
        /\ \A i \in 1..Len(s) - 1 : Acceptable(s, i)
        /\ s # <<>> => (Acceptable(s, Len(s)) <=> out # "NULL") \/ rep.null
        /\ rep.line = 1 + Cardinality({i \in 1..rep.cur - 1 : rep.text[i] = "nl"})
        /\ out # "NULL" =>
              /\ Len(rep.tabs) = 1 + Len(Tables(s))
              /\ \A k \in DOMAIN rep.tabs :
                    \A t \in {IF k = 1 THEN 0 ELSE Tables(s)[k - 1]}, kv \in {rep.tabs[k].kv} :
                        /\ op_toml_iter(rep.tabs[k])
                              = [j \in DOMAIN Entries(s, t) |-> s[Entries(s, t)[j]].name]
                        /\ \A j \in DOMAIN kv : /\ Agrees(s, Entries(s, t)[j], kv[j].val)
                                                 /\ op_toml_lookup(rep.tabs[k], kv[j].key, kv[j].val.type) = 1

(* Every block of a parser belongs to its tables, and a failed parse leaves none, whichever allocation   *)
(* or line fails.                                                                           *)
NothingLeaks ==
    rep.live = IF out = "NULL" THEN 0 ELSE Sum([i \in DOMAIN rep.tabs |-> TableBlocks(rep.tabs[i])])
=============================================================================
