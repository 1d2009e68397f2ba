------------------------------ MODULE JsonTexts ------------------------------
(***************************************************************************)
(* Texts that spell a JSON value, each with the types, keys and values of  *)
(* the tokens it has to become: the reference FlatJson is held against.    *)
(* Spelled from the inside out, two elements to a container and two        *)
(* containers deep; pad is the white space between the parts.              *)
(***************************************************************************)
EXTENDS Naturals, Sequences

Bracket == [OBJECT |-> "{", OBJECT_END |-> "}", ARRAY |-> "[", ARRAY_END |-> "]"]
Quoted(s) == <<"\"">> \o s \o <<"\"">>

NoKey == <<>>
Keys == {<<"a">>, <<"b">>}
Flat(type, key, val) == [type |-> type, key |-> key, val |-> val]
Spelt(flat, text) == [flat |-> flat, text |-> text]
KeyText(key, pad) ==
    IF key = NoKey THEN <<>> ELSE Quoted(key[1]) \o pad \o <<":">> \o pad

Leaves(key, pad) ==
    {Spelt(<<Flat("NUMBER", key, <<"1">>)>>, KeyText(key, pad) \o <<"1">>),
     Spelt(<<Flat("STRING", key, <<"a">>)>>,
           KeyText(key, pad) \o Quoted(<<"a">>))}

Lists(V, pad) ==
    {Spelt(<<>>, <<>>)} \cup V \cup
    {Spelt(a.flat \o b.flat, a.text \o pad \o <<",">> \o pad \o b.text) :
        a \in V, b \in V}

Wrapped(type, end, V, key, pad) ==
    {Spelt(<<Flat(type, key, <<>>)>> \o l.flat \o <<Flat(end, NoKey, <<>>)>>,
           KeyText(key, pad) \o <<Bracket[type]>> \o pad \o l.text
           \o pad \o <<Bracket[end]>>) : l \in Lists(V, pad)}

Shallow(key, pad) ==
    Leaves(key, pad)
    \cup Wrapped("ARRAY", "ARRAY_END", Leaves(NoKey, pad), key, pad)
    \cup Wrapped("OBJECT", "OBJECT_END",
                 UNION {Leaves(<<k>>, pad) : k \in Keys}, key, pad)

Deep(pad) ==
    Wrapped("ARRAY", "ARRAY_END", Shallow(NoKey, pad), NoKey, pad)
    \cup Wrapped("OBJECT", "OBJECT_END",
                 UNION {Shallow(<<k>>, pad) : k \in Keys}, NoKey, pad)
=============================================================================
