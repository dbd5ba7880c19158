------------------------------ MODULE MCDatabox ------------------------------
(* An instance of Databox for TLC.                                         *)
EXTENDS Databox, TLC

\* A session with two collections of the databox, one of another databox with a
\* coll_id that does not exist here, and a collection of the databox that is
\* not in the session (40).
MCBases == (1 :> 10 @@ 2 :> 20 @@ 3 :> 30)

Rec(coll, parent, status, sha, type) ==
    [coll |-> coll, parent |-> parent, status |-> status, sha |-> sha, type |-> type]

MCRecord ==
    (1 :> Rec(10, 0, {0}, {"sx"}, "image") @@ 2 :> Rec(10, 0, {1}, {"sy"}, "video")
     @@ 3 :> Rec(20, 0, {}, {"sx"}, "image") @@ 4 :> Rec(20, 1, {0, 2}, {}, "image")
     @@ 5 :> Rec(40, 0, {0}, {"sx"}, "image") @@ 6 :> Rec(20, 0, {2}, {"sx"}, "video"))

\* User 1 has no mask, user 2 sees the records of 20 with the bit 2 off, user 3
\* those of 10 with the bit 0 on and 1 off; user 4 may not search anything.
Right(usr, coll, xor, and) ==
    [site |-> "s", usr |-> usr, coll |-> coll, mask_xor |-> xor, mask_and |-> and]

MCCollUsr ==
    {Right(1, 10, {}, {}), Right(1, 20, {}, {}), Right(1, 40, {}, {}),
     Right(2, 10, {}, {}), Right(2, 20, {}, {2}),
     Right(3, 10, {0}, {0, 1}), Right(3, 40, {}, {})}
    \cup {[site |-> "t", usr |-> 2, coll |-> 20, mask_xor |-> {}, mask_and |-> {}]}

Entry(rid, word, lng, field, business, place) ==
    [rid |-> rid, word |-> word, lng |-> lng, field |-> field, business |-> business,
     place |-> place, id |-> 1]

\* Another row with the same columns.
Again(row) == [row EXCEPT !.id = 2]

\* "chats" in plain form, and its stem in French; a word that is indexed twice.
MCIdx ==
    {Entry(1, "chats", "", "TITLE", FALSE, 1), Entry(1, "chats", "", "PRICE", TRUE, 2),
     Entry(1, "chat", "fr", "TITLE", FALSE, 1), Entry(2, "chats", "", "PRICE", TRUE, 1),
     Entry(3, "chat", "", "TITLE", FALSE, 3), Entry(3, "chats", "", "TITLE", FALSE, 4),
     Entry(3, "chat", "fr", "TITLE", FALSE, 3), Entry(3, "chat", "fr", "TITLE", FALSE, 4),
     Entry(6, "chats", "", "TITLE", FALSE, 1), Entry(4, "chats", "", "TITLE", FALSE, 1),
     Entry(6, "chat", "", "TITLE", FALSE, 2), Again(Entry(3, "chats", "", "TITLE", FALSE, 4))}

Value(rid, name, value, business) ==
    [rid |-> rid, name |-> name, value |-> value, business |-> business, id |-> 1]

\* DATE has one value at most, KEYS has several, two of them the same; LONG does not fit.
MCProp ==
    {Value(1, "DATE", "9", FALSE), Value(2, "DATE", "10", FALSE), Value(3, "DATE", "10", FALSE),
     Value(4, "DATE", "9", FALSE), Value(5, "DATE", "9", FALSE),
     Value(1, "KEYS", "image", FALSE), Value(1, "KEYS", "video", FALSE),
     Value(3, "KEYS", "video", FALSE), Again(Value(3, "KEYS", "video", FALSE)),
     Value(1, "LONG", "long", FALSE), Value(3, "LONG", "video", FALSE),
     Value(1, "PRICE", "9", TRUE), Value(3, "PRICE", "10", TRUE), Value(6, "PRICE", "10", TRUE)}

Term(rid, name, value, business, place) ==
    [rid |-> rid, name |-> name, value |-> value, business |-> business, place |-> place,
     id |-> 1]

MCThit ==
    {Term(1, "PLACE", "image", FALSE, 1), Term(3, "PLACE", "video", FALSE, 1),
     Term(2, "SECRET", "image", TRUE, 1), Term(3, "SECRET", "image", TRUE, 3),
     Term(3, "SECRET", "image", FALSE, 4), Term(6, "PLACE", "image", FALSE, 2),
     Term(6, "PLACE", "image", FALSE, 3), Again(Term(6, "PLACE", "image", FALSE, 3))}

MCSubdef == {<<1, "preview">>, <<3, "preview">>, <<4, "preview">>, <<5, "preview">>}

MCStems == ("fr" :> ("chats" :> "chat" @@ "chat" :> "chat" @@ "chat*" :> "chat*"))

MCLike ==
    ("chats" :> {"chats"} @@ "chat" :> {"chat"} @@ "chat*" :> {"chat", "chats"}
     @@ "image" :> {"image"})

MCText ==
    ("9" :> <<"9">> @@ "10" :> <<"1", "0">> @@ "0" :> <<"0">> @@ "1" :> <<"1">>
     @@ "2" :> <<"2">> @@ "empty" :> << >> @@ "minus" :> <<"-">>
     @@ "image" :> <<"i", "m">> @@ "1x0" :> <<"1", "x", "0">> @@ "sx" :> <<"s", "x">>
     @@ "sha256" :> <<"s", "h", "a">>)

MCAlpha ==
    ("empty" :> 0 @@ "minus" :> 1 @@ "0" :> 2 @@ "1" :> 3 @@ "10" :> 4 @@ "1x0" :> 5
     @@ "2" :> 6 @@ "9" :> 7 @@ "image" :> 8 @@ "long" :> 9 @@ "sha256" :> 10 @@ "sx" :> 11
     @@ "sy" :> 12 @@ "video" :> 13)

MCNumber ==
    ("empty" :> 0 @@ "minus" :> 0 @@ "0" :> 0 @@ "1" :> 1 @@ "10" :> 10 @@ "1x0" :> 1
     @@ "2" :> 2 @@ "9" :> 9 @@ "image" :> 0 @@ "long" :> 0 @@ "sha256" :> 0 @@ "sx" :> 0
     @@ "sy" :> 0 @@ "video" :> 0)

Compare(field, op, value) == [kind |-> "compare", field |-> field, op |-> op, value |-> value]

MCLeaves ==
    {[kind |-> "all", n |-> n] : n \in {-1, 0, 2}}
    \cup {[kind |-> "last", n |-> n] : n \in {0, 2}}
    \cup {[kind |-> "words", words |-> w] : w \in {{"chats"}, {"chat"}, {"chat*"}}}
    \cup {[kind |-> "in", words |-> {"chats"}, field |-> f] : f \in {"TITLE", "PRICE"}}
    \cup {[kind |-> "thesaurus", words |-> {"image"}, field |-> f] : f \in {"*", "PLACE", "SECRET"}}
    \cup {Compare("DATE", ">", "9"), Compare("DATE", ">", "image"), Compare("DATE", "<=", "empty"),
          Compare("PRICE", "=", "10"), Compare("DATE", "=", "minus"),
          Compare("recordid", ">=", "2"), Compare("recordtype", "=", "image"),
          Compare("sha256", "=", "sx"), Compare("sha256", "=", "sha256"),
          Compare("preview", "=", "0"), Compare("preview", "=", "1"),
          Compare("recordstatus", "=", "1x0"), Compare("recordstatus", "=", "10")}

Indexed(leaf) == leaf.kind \in {"words", "in"}

\* Every kind of leaf, user, mode and sort; the lists of collections with a
\* number that is not a base, an element that is not a number, and a base of
\* another databox; no stemmer knows "ja".
MCCalls ==
    {c \in [colls : {<<1, 2>>, <<2>>, <<1, NoLong, 7, 3>>, << >>},
            business : {NoList, << >>, <<1>>, <<NoLong, 2>>}, site : {"s"}, usr : 1..4,
            mode : {"doconly", "regonly", "all"}, sort : {NoSort, "DATE", "KEYS", "LONG"},
            lng : {"", "fr", "ja"}, leaf : MCLeaves] :
        /\ c.lng # "" => Indexed(c.leaf)
        /\ c.mode = "regonly" => c.sort = NoSort
        /\ c.sort \in {"KEYS", "LONG"} => c.usr = 1}
=============================================================================
