------------------------------ MODULE FlatJson ------------------------------
(***************************************************************************)
(* The parser of the replies of the exchange (flatjson.hpp): a first pass  *)
(* counts the tokens of a text, a second one writes them to an array of    *)
(* that size, and the accessors walk the array.  A text is a sequence of   *)
(* characters; a pointer into it is an index, a pointer to a token is its  *)
(* number, 0 for null, and a key or a value is the text it points to.      *)
(*                                                                         *)
(* Texts are typed piece by piece until they are refused (any longer text  *)
(* is then refused as well), or are the spelling of a value.  Texts of     *)
(* 4 GB and the byte 255, which UTF-8 does not use, are left out.          *)
(***************************************************************************)
EXTENDS Naturals, Sequences, FiniteSets, FiniteSetsExt, JsonTexts

CONSTANTS
    Alphabets,   \* the pieces texts are typed with, [pieces, most], by name
    Spellings,   \* the spelt texts, [flat, text]
    MaxKlen,     \* the numeric limit of __FLATJSON__KLEN_TYPE
    MaxChilds    \* the numeric limit of __FLATJSON__CHILDS_TYPE

-----------------------------------------------------------------------------
(* Characters. *)

Space == {" ", "\t", "\r", "\n"}
Digit == {"0", "1", "2", "3", "4", "5", "6", "7", "8", "9"}
HexDigit == Digit \cup {"a", "b", "c", "d", "e", "f",
                        "A", "B", "C", "D", "E", "F"}
(* The first of two, three and four bytes, a control character, and what   *)
(* CUR_CHAR answers behind the text.                                       *)
Wide == [lead2 |-> 2, lead3 |-> 3, lead4 |-> 4]
Control == "control"
End == "(char)-1"
Nul == "\\0"      \* behind a std::string

fj_is_digit(c) == c \in Digit
fj_is_hex_digit(c) == c \in HexDigit
fj_utf8_char_len(c) == IF c \in DOMAIN Wide THEN Wide[c] ELSE 1

SimpleTypes == {"STRING", "NUMBER", "BOOL", "NULL"}
fj_is_simple_type(t) == t \in SimpleTypes

-----------------------------------------------------------------------------
(* A parser: the text js and the character that lies past it, the mode, the *)
(* position in the text, the number of tokens taken and the tokens; what   *)
(* the last value was; the error, after which nothing moves any more.      *)

fj_token == [type |-> "INVALID", key |-> <<>>, val |-> <<>>,
             parent |-> 0, childs |-> 0, end |-> 0]

fj_parser(js, past, mode, size) ==
    [js |-> js, past |-> past, mode |-> mode, ec |-> "OK", cur |-> 1, n |-> 0,
     toks |-> [i \in 1..size |-> fj_token], type |-> "INVALID", val |-> <<>>]

Fail(p, ec) == [p EXCEPT !.ec = ec]
At(p, i) == IF i <= Len(p.js) THEN p.js[i] ELSE p.past
(* The first position from i on whose character is not in C. *)
Span(p, i, C) ==
    LET S == {j \in i..Len(p.js) : p.js[j] \notin C}
    IN  IF S = {} THEN Max({i, Len(p.js) + 1}) ELSE Min(S)

fj_skip_ws(p) == [p EXCEPT !.cur = Span(p, @, Space)]
Char(p) == IF p.cur > Len(p.js) THEN End ELSE p.js[p.cur]
CurChar(p) == Char(fj_skip_ws(p))
Unexpected(p, c) == Fail(p, IF c = End THEN "INCOMPLETE" ELSE "INVALID")

Pass(p, expected) ==
    IF p.ec # "OK" THEN p
    ELSE IF Char(p) = expected THEN [p EXCEPT !.cur = @ + 1]
    ELSE Unexpected(p, Char(p))

(* Mutation of fj_check_and_skip: white space is not skipped. *)
fj_check_and_skip_tight(p, expected) == Pass(p, expected)

fj_check_and_skip(p, expected) == Pass(fj_skip_ws(p), expected)

-----------------------------------------------------------------------------
(* Words, numbers and strings: how they end, [ec, cur]. *)

Lex(ec, cur) == [ec |-> ec, cur |-> cur]

Word == [n |-> <<"n", "u", "l", "l">>, t |-> <<"t", "r", "u", "e">>,
         f |-> <<"f", "a", "l", "s", "e">>]

fj_expect(p, i, s) ==
    IF i + Len(s) > Len(p.js) + 1 THEN Lex("INCOMPLETE", i)
    ELSE IF SubSeq(p.js, i, i + Len(s) - 1) # s THEN Lex("INVALID", i)
    ELSE Lex("OK", i + Len(s))

Digits(p, i, C) ==
    IF i > Len(p.js) THEN Lex("INCOMPLETE", i)
    ELSE IF p.js[i] \notin C THEN Lex("INVALID", i)
    ELSE Lex("OK", Span(p, i, C))
After(r, p, C) == r.ec = "OK" /\ r.cur <= Len(p.js) /\ p.js[r.cur] \in C

Fraction(p, r) ==
    IF After(r, p, {"."}) THEN Digits(p, r.cur + 1, Digit) ELSE r
Exponent(p, r) ==
    IF ~After(r, p, {"e", "E"}) THEN r
    ELSE IF After(Lex("OK", r.cur + 1), p, {"+", "-"})
    THEN Digits(p, r.cur + 2, Digit)
    ELSE Digits(p, r.cur + 1, Digit)

(* Mutation of fj_parse_number: leading zeros are not refused. *)
fj_parse_number_zeros(p, start) ==
    Exponent(p, Fraction(p, Digits(p,
        IF p.js[start] = "-" THEN start + 1 ELSE start, Digit)))

Numerals(p, i) ==
    IF i < Len(p.js) /\ p.js[i] = "0" /\ p.js[i + 1] = "x"
    THEN Digits(p, i + 2, HexDigit)
    ELSE Exponent(p, Fraction(p, Digits(p, i, Digit)))
NoLeadingZero(p, start, r) ==
    IF /\ r.ec = "OK" /\ r.cur - start > 1
       /\ p.js[start] = "0" /\ p.js[start + 1] # "."
    THEN Lex("INVALID", r.cur) ELSE r
fj_parse_number(p, start) ==
    NoLeadingZero(p, start,
        Numerals(p, IF p.js[start] = "-" THEN start + 1 ELSE start))

(* What follows the backslash at i; len counts the backslash. *)
fj_escape_len(p, i) ==
    LET len == Len(p.js) + 1 - i
    IN  CASE At(p, i + 1) = "u" ->
               IF len < 6 THEN Lex("INCOMPLETE", i)
               ELSE IF \A k \in 2..5 : fj_is_hex_digit(p.js[i + k])
               THEN Lex("OK", i + 6) ELSE Lex("INVALID", i)
          [] At(p, i + 1) \in {"\"", "\\", "/", "b", "f", "n", "r", "t"} ->
               IF len < 2 THEN Lex("INCOMPLETE", i) ELSE Lex("OK", i + 2)
          [] OTHER -> Lex("INVALID", i)

RECURSIVE StringFrom(_, _)
StringFrom(p, i) ==
    IF i > Len(p.js) THEN Lex("INCOMPLETE", i)
    ELSE LET ch == p.js[i] IN
        CASE ch = Control -> Lex("INVALID", i)
          [] fj_utf8_char_len(ch) > Len(p.js) + 1 - i -> Lex("INCOMPLETE", i)
          [] ch = "\\" ->
               LET e == fj_escape_len(p, i)
               IN  IF e.ec = "OK" THEN StringFrom(p, e.cur) ELSE e
          [] ch = "\"" -> Lex("OK", i + 1)
          [] OTHER -> StringFrom(p, i + fj_utf8_char_len(ch))

fj_parse_string(p, i) == StringFrom(p, i + 1)

(* A value without tokens of its own, but for the one of the root. *)
Scalar(p, type, r, from, to) ==
    IF r.ec # "OK" THEN Fail(p, r.ec)
    ELSE [p EXCEPT !.cur = r.cur, !.n = Max({@, 1}), !.type = type,
                   !.val = SubSeq(p.js, from, to)]

-----------------------------------------------------------------------------
(* Arrays and objects.  In the mode "count" only the number of tokens       *)
(* changes.                                                                *)

Take(p) ==
    IF p.ec # "OK" THEN p
    ELSE IF p.mode = "parse" /\ p.n = Len(p.toks) THEN Fail(p, "NO_FREE_TOKENS")
    ELSE [p EXCEPT !.n = @ + 1]

(* Token k becomes a child of parent. *)
Adopt(p, k, parent) ==
    IF p.ec # "OK" \/ p.mode = "count" THEN p
    ELSE IF parent = 0 THEN [p EXCEPT !.toks[k].parent = 0]
    ELSE IF p.toks[parent].childs >= MaxChilds THEN Fail(p, "CHILDS_OVERFLOW")
    ELSE [p EXCEPT !.toks[k].parent = parent, !.toks[parent].childs = @ + 1]

Mark(p, k, type) ==
    IF p.ec # "OK" \/ p.mode = "count" THEN p
    ELSE [p EXCEPT !.toks[k].type = type]
Store(p, k) ==
    IF p.ec # "OK" \/ p.mode = "count" THEN p
    ELSE [p EXCEPT !.toks[k].type = p.type, !.toks[k].val = p.val]
StoreKey(p, k) ==
    IF p.ec # "OK" \/ p.mode = "count" THEN p
    ELSE IF Len(p.val) >= MaxKlen THEN Fail(p, "KLEN_OVERFLOW")
    ELSE [p EXCEPT !.toks[k].key = <<p.val>>]

(* A comma may follow; a bracket may not follow the comma at once. *)
PassComma(p, close) ==
    IF p.ec # "OK" \/ Char(p) # "," THEN p
    ELSE IF At(p, p.cur + 1) = close THEN Fail(p, "INVALID")
    ELSE [p EXCEPT !.cur = @ + 1]
Comma(p, close) == PassComma(fj_skip_ws(p), close)

(* The token just taken becomes a child, of that type. *)
Bear(p, type, parent) == Adopt(Mark(p, p.n, type), p.n, parent)

Open(p, bracket, type, parent) ==
    Bear(Take(fj_check_and_skip(p, bracket)), type, parent)

(* The token just taken ends the container. *)
Finish(p, start) ==
    IF p.ec # "OK" \/ p.mode = "count" THEN p
    ELSE [p EXCEPT !.toks[start].end = p.n, !.type = p.toks[start].type]

(* Mutation of Close: the end is not counted among the children. *)
CloseUncounted(p, bracket, type, start) ==
    LET q == Take(fj_check_and_skip(p, bracket))
        r == Mark(q, q.n, type)
    IN  IF r.ec # "OK" \/ r.mode = "count" THEN r
        ELSE [r EXCEPT !.toks[start].end = r.n, !.toks[r.n].parent = start]

(* Mutation of Close: the first pass forgets the end. *)
CloseFree(p, bracket, type, start) ==
    IF p.mode = "count" THEN fj_check_and_skip(p, bracket)
    ELSE Finish(Bear(Take(fj_check_and_skip(p, bracket)), type, start), start)

Close(p, bracket, type, start) ==
    Finish(Bear(Take(fj_check_and_skip(p, bracket)), type, start), start)

IsOpen(c) == c \in {"{", "["}

RECURSIVE fj_parse_value(_, _), Elements(_, _), Members(_, _)

(* Behind "[": the values up to "]".  A container takes its own token. *)
Element(p, pair, start) ==
    IF pair.ec # "OK" THEN pair
    ELSE IF IsOpen(CurChar(p)) THEN fj_parse_value(p, start)
    ELSE Store(fj_parse_value(Adopt(pair, pair.n, start), start), pair.n)
Elements(p, start) ==
    IF p.ec # "OK" \/ CurChar(p) = "]" THEN p
    ELSE Elements(Comma(Element(p, Take(p), start), "]"), start)

ArrayFrom(p) == Close(Elements(p, p.n), "]", "ARRAY_END", p.n)
fj_parse_array(p, parent) == ArrayFrom(Open(p, "[", "ARRAY", parent))

(* Behind "{": keys and values up to "}".  The token of a container is the *)
(* one that already has its key.                                           *)
Key(p, start) ==
    fj_check_and_skip(StoreKey(fj_parse_value(p, start), p.n), ":")
Member(p, k, start) ==
    IF p.ec # "OK" THEN p
    ELSE IF IsOpen(CurChar(p)) THEN fj_parse_value([p EXCEPT !.n = @ - 1], start)
    ELSE Store(fj_parse_value(Adopt(p, k, start), start), k)
Members(p, start) ==
    IF p.ec # "OK" \/ CurChar(p) = "}" THEN p
    ELSE IF CurChar(p) # "\"" THEN Unexpected(p, CurChar(p))
    ELSE Members(Comma(Member(Key(Take(p), start), p.n + 1, start), "}"), start)

ObjectFrom(p) == Close(Members(p, p.n), "}", "OBJECT_END", p.n)
fj_parse_object(p, parent) == ObjectFrom(Open(p, "{", "OBJECT", parent))

Bare(p, type, r) == Scalar(p, type, r, p.cur, r.cur - 1)
InQuotes(p, r) == Scalar(p, "STRING", r, p.cur + 1, r.cur - 2)
ValueAt(p, ch, parent) ==
    CASE ch = "{" -> fj_parse_object(p, parent)
      [] ch = "[" -> fj_parse_array(p, parent)
      [] ch = "n" -> Bare(p, "NULL", fj_expect(p, p.cur, Word.n))
      [] ch \in {"t", "f"} -> Bare(p, "BOOL", fj_expect(p, p.cur, Word[ch]))
      [] ch \in Digit \cup {"-"} -> Bare(p, "NUMBER", fj_parse_number(p, p.cur))
      [] ch = "\"" -> InQuotes(p, fj_parse_string(p, p.cur))
      [] OTHER -> Unexpected(p, ch)
fj_parse_value(p, parent) ==
    IF p.ec # "OK" THEN p ELSE ValueAt(fj_skip_ws(p), CurChar(p), parent)

-----------------------------------------------------------------------------
(* The two passes. *)

Root(js, past, mode, n) == fj_parse_value(fj_parser(js, past, mode, n), 0)

(* Mutation of fj_num_tokens: the text is taken to end with a Nul. *)
fj_num_tokens_nul(js, past) ==
    LET p == Root(js, past, "count", 0)
    IN  IF p.ec = "OK" /\ At(p, fj_skip_ws(p).cur) # Nul
        THEN Fail(p, "INVALID") ELSE p

(* One character behind the value is not looked at. *)
AtEnd(p) ==
    IF /\ p.ec = "OK" /\ p.cur # Len(p.js)
       /\ fj_skip_ws(p).cur # Len(p.js) + 1
    THEN Fail(p, "INVALID") ELSE p
fj_num_tokens(js, past) == AtEnd(Root(js, past, "count", 0))

StoreRoot(p) == IF fj_is_simple_type(p.type) THEN Store(p, 1) ELSE p
fj_parse(js, past, n) == StoreRoot(Root(js, past, "parse", n))

(* fjson::load.  An empty text is no error and leaves m_beg null. *)
Unloaded(ec) == [m_err |-> ec, counted |-> 0, toks |-> <<>>]
Storage(p, n) ==
    IF p.ec # "OK" THEN [Unloaded(p.ec) EXCEPT !.counted = n]
    ELSE [m_err |-> "OK", counted |-> n, toks |-> SubSeq(p.toks, 1, p.n)]
Resized(js, past, count) ==
    IF count.ec # "OK" THEN Unloaded(count.ec)
    ELSE Storage(fj_parse(js, past, count.n), count.n)
load(js, past) ==
    IF js = <<>> THEN Unloaded("OK")
    ELSE Resized(js, past, fj_num_tokens(js, past))

is_valid(fj) == fj.m_err = "OK" /\ fj.toks # <<>>

-----------------------------------------------------------------------------
(* The accessors of the value at token k: the token found, 0 for none, or  *)
(* "throw".                                                                *)

size(toks, k) ==
    IF fj_is_simple_type(toks[k].type) THEN 1 ELSE toks[k].childs - 1

(* Mutation of Following: a container is entered. *)
FollowingInside(toks, k) == k + 1

Following(toks, k) ==
    IF fj_is_simple_type(toks[k].type) THEN k + 1 ELSE toks[k].end + 1

RECURSIVE FindKey(_, _, _)
FindKey(toks, b, key) ==
    IF toks[b].type = "OBJECT_END" THEN 0
    ELSE IF toks[b].key = <<key>> THEN b
    ELSE FindKey(toks, Following(toks, b), key)
find_key(toks, k, key) == FindKey(toks, k + 1, key)

RECURSIVE FindIndex(_, _, _)
FindIndex(toks, b, idx) ==
    IF idx = 0 THEN b ELSE FindIndex(toks, Following(toks, b), idx - 1)
find_index(toks, k, idx) ==
    IF idx >= toks[k].childs - 1 THEN 0 ELSE FindIndex(toks, k + 1, idx)

(* The tokens whose keys are handed out, END excepted. *)
fj_get_keys(toks, k) ==
    {i \in DOMAIN toks : toks[i].parent = k /\ toks[i].type # "OBJECT_END"}

(* fj_get_tokens, without indentation. *)
Ends == {"OBJECT_END", "ARRAY_END"}

(* Mutation of Separated: only containers are followed by a comma. *)
SeparatedEnds(toks, i) ==
    i > 1 /\ toks[i].type \notin Ends /\ toks[i - 1].type \in Ends

Separated(toks, i) ==
    i > 1 /\ toks[i].type \notin Ends /\ toks[i - 1].type \notin {"OBJECT", "ARRAY"}

PrintToken(toks, i) ==
    LET t == toks[i]
        simple == fj_is_simple_type(t.type)
        keyed == IF simple THEN toks[t.parent].type # "ARRAY" ELSE t.key # <<>>
    IN  (IF Separated(toks, i) THEN <<",">> ELSE <<>>)
        \o (IF keyed THEN Quoted(t.key[1]) \o <<":">> ELSE <<>>)
        \o (IF ~simple THEN <<Bracket[t.type]>>
            ELSE IF t.type = "STRING" THEN Quoted(t.val) ELSE t.val)

RECURSIVE PrintFrom(_, _)
PrintFrom(toks, i) ==
    IF i > Len(toks) THEN <<>>
    ELSE PrintToken(toks, i) \o PrintFrom(toks, i + 1)
dump(toks) == PrintFrom(toks, 1)

-----------------------------------------------------------------------------
VARIABLES
    alphabet,   \* what the text is typed with
    pieces,     \* how many pieces it has
    text,
    spelt,      \* the tokens the text spells, <<>> for a text that is typed
    fj          \* the fjson loaded from it

textVars == <<alphabet, pieces, text, spelt, fj>>

TextInit ==
    /\ alphabet \in DOMAIN Alphabets
    /\ pieces = 0 /\ text = <<>> /\ spelt = <<>> /\ fj = load(<<>>, Nul)

(* The environment: one more piece of a text, or a whole one. *)
Type(piece) ==
    /\ spelt = <<>> /\ pieces < Alphabets[alphabet].most /\ fj.m_err # "INVALID"
    /\ pieces' = pieces + 1 /\ text' = text \o piece
    /\ fj' = load(text', Nul)
    /\ UNCHANGED <<alphabet, spelt>>

Whole == spelt = <<>> /\ Alphabets[alphabet].most = 0
Spell(v) ==
    /\ Whole
    /\ text' = v.text /\ spelt' = v.flat
    /\ fj' = load(text', Nul)
    /\ UNCHANGED <<alphabet, pieces>>

TextNext ==
    \/ \E piece \in Alphabets[alphabet].pieces : Type(piece)
    \/ Whole /\ \E v \in Spellings : Spell(v)

TextSpec == TextInit /\ [][TextNext]_textVars

-----------------------------------------------------------------------------
(* The second pass takes the tokens the first one counted, all of them and *)
(* no more, and can only fail for a key or a container too large for its   *)
(* counter; of a text that is refused no token is kept (fj_num_tokens,     *)
(* fj_parse, load).                                                        *)
TwoPasses ==
    /\ is_valid(fj) => Len(fj.toks) = fj.counted
    /\ fj.counted > 0 /\ ~is_valid(fj) =>
          fj.m_err \in {"KLEN_OVERFLOW", "CHILDS_OVERFLOW"}
    /\ fj.m_err # "OK" => fj.toks = <<>>

(* A text that spells a value, with white space or without, is loaded, and *)
(* every token has the type, the key and the value that are spelt.         *)
JsonAccepted ==
    spelt # <<>> =>
        /\ is_valid(fj) /\ Len(fj.toks) = Len(spelt)
        /\ \A i \in DOMAIN spelt :
              spelt[i] = Flat(fj.toks[i].type, fj.toks[i].key, fj.toks[i].val)

Containers == {"OBJECT", "ARRAY"}
(* The containers that the tokens lie in, by counting brackets. *)
Enclosing(toks) ==
    LET before(i, T) == Cardinality({j \in 1..(i - 1) : toks[j].type \in T})
        depth == [i \in DOMAIN toks |-> before(i, Containers) - before(i, Ends)]
    IN  [i \in DOMAIN toks |->
            Max({0} \cup {j \in 1..(i - 1) : /\ toks[j].type \in Containers
                                            /\ depth[j] = depth[i] - 1})]
Inside(around, k) == {i \in DOMAIN around : around[i] = k}

(* In whatever was loaded, however odd its commas, parent, childs and end  *)
(* of every token are those of the brackets (fj_parse_array,               *)
(* fj_parse_object).                                                       *)
WellNested ==
    LET around == Enclosing(fj.toks)
    IN  \A k \in DOMAIN fj.toks :
            LET t == fj.toks[k]
                inside == Inside(around, k)
            IN  /\ t.parent = around[k]
                /\ t.childs = Cardinality(inside)
                /\ t.type \in Containers =>
                      /\ t.end = Max(inside)
                      /\ fj.toks[t.end].type = t.type \o "_END"

(* The accessors of every loaded object and array: at finds each child and *)
(* nothing else, the first of two with the same key; size and get_keys     *)
(* leave out the end (fjson::find, size, fj_get_keys).                     *)
AtFinds ==
    LET around == Enclosing(fj.toks)
    IN  \A k \in DOMAIN fj.toks :
        LET children == Inside(around, k) \ {fj.toks[k].end}
            named(key) == {i \in children : fj.toks[i].key = <<key>>}
        IN  /\ fj.toks[k].type \in Containers =>
                  size(fj.toks, k) = Cardinality(children)
            /\ fj.toks[k].type = "OBJECT" =>
                  /\ fj_get_keys(fj.toks, k) = children
                  /\ \A key \in Keys \cup {<<>>} :
                        find_key(fj.toks, k, key) =
                            IF named(key) = {} THEN 0 ELSE Min(named(key))
            /\ fj.toks[k].type = "ARRAY" =>
                  \A idx \in 0..Cardinality(children) :
                      LET i == find_index(fj.toks, k, idx)
                      IN  IF idx = Cardinality(children) THEN i = 0
                          ELSE /\ i \in children
                               /\ Cardinality({c \in children : c < i}) = idx

(* What dump prints of a loaded object or array is loaded again, as the    *)
(* same tokens: future_exchange_info is parsed a second time from it.      *)
DumpReloads ==
    is_valid(fj) /\ fj.toks[1].type \in Containers =>
        load(dump(fj.toks), Nul).toks = fj.toks

(* The character behind the text, which is read, decides nothing: a text   *)
(* is loaded whatever it is, or for none (fj_parse_array after a comma,    *)
(* fj_escape_len).                                                         *)
PastHarmless ==
    \A past \in {"]", "}", "\""} : load(text, past).toks = fj.toks

(* The numbers of JSON. *)
Numeral(s) ==
    LET start == IF s # <<>> /\ s[1] = "-" THEN 2 ELSE 1
        digits(a, b) == a <= b /\ \A m \in a..b : s[m] \in Digit
    IN  \E i \in start..Len(s) : \E f \in i..Len(s) :
          /\ digits(start, i) /\ (s[start] = "0" => i = start)
          /\ f = i \/ (s[i + 1] = "." /\ digits(i + 2, f))
          /\ \/ f = Len(s)
             \/ /\ s[f + 1] \in {"e", "E"}
                /\ \/ digits(f + 2, Len(s))
                   \/ /\ f + 2 <= Len(s) /\ s[f + 2] \in {"+", "-"}
                      /\ digits(f + 3, Len(s))

Begins(s, t) == Len(s) >= Len(t) /\ SubSeq(s, 1, Len(t)) = t

(* A number that is loaded is a number of JSON, but for what may follow    *)
(* "-0"; and every number of JSON is loaded, but for 0 with an exponent    *)
(* (fj_parse_number).                                                      *)
NumbersExact ==
    /\ \A i \in DOMAIN fj.toks :
          fj.toks[i].type = "NUMBER" =>
              Numeral(fj.toks[i].val) \/ Begins(fj.toks[i].val, <<"-", "0">>)
    /\ Numeral(text) =>
          \/ is_valid(fj) /\ fj.toks[1].val = text
          \/ Begins(text, <<"0", "e">>) \/ Begins(text, <<"0", "E">>)

(* Loading is safe for every text: the token array of the first pass is    *)
(* exactly filled by the second, its links stay inside it, and what lies   *)
(* behind the text does not matter (fjson::load).                          *)
LoadSafe == TwoPasses /\ WellNested /\ PastHarmless

(* Loading is faithful: the value a text spells is what the accessors      *)
(* find, and what dump prints spells it again.                             *)
JsonFaithful == JsonAccepted /\ NumbersExact /\ AtFinds /\ DumpReloads
=============================================================================
