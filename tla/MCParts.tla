------------------------------- MODULE MCParts -------------------------------
EXTENDS Parts, MCDeptTree

\* Rows that can collide: a directory, a page with its path, one with that
\* path as name, a link that is one without its scheme, a button, an external link.
Colliding ==
    LET dir == [type |-> "dir", name |-> "first", parent |-> 0, routeName |-> [scheme |-> "", text |-> ""],
                path |-> [scheme |-> "", text |-> "a"], external |-> FALSE, active |-> TRUE]
    IN {dir, [dir EXCEPT !.type = "page", !.name = "second"],
        [dir EXCEPT !.name = "second", !.path.text = "b", !.routeName.text = "a", !.active = FALSE],
        [dir EXCEPT !.type = "button", !.name = "third", !.path.text = ""],
        [dir EXCEPT !.type = "button", !.path.text = "b"],
        [dir EXCEPT !.path.scheme = "http", !.path.text = "b"],
        [dir EXCEPT !.type = "page", !.name = "third", !.path.scheme = "https", !.external = TRUE],
        [dir EXCEPT !.type = "page", !.external = TRUE]}

\* Answers of up to two characters, written by one or two calls, after a request
\* without a body; and requests with one.
Texts == LET chars == {<<"a">>, <<"b", "_">>, <<"c", "_", "_">>}
         IN {<< >>} \cup chars \cup {a \o b : a, b \in chars}
Writes == {<<text>> : text \in Texts}
          \cup UNION {{<<SubSeq(text, 1, n), SubSeq(text, n + 1, Len(text))>> : n \in 1..(Len(text) - 1)} : text \in Texts}
Answered == [writes : Writes, fails : BOOLEAN, body : {"none"}, secret : {FALSE}]
            \cup [writes : {<<<<"a">>>>}, fails : BOOLEAN, body : {"parsed", "other"}, secret : BOOLEAN]

\* Days and ranges with and without a step, at the ends of the week and beyond
\* them, running backwards and named, and Quartz's own forms.
Fields ==
    LET item(k, a, b, step) == [kind |-> k, lo |-> a, hi |-> b, named |-> FALSE, step |-> step]
        name(a, b) == [item(IF a = b THEN "one" ELSE "range", a, b, 0) EXCEPT !.named = TRUE]
    IN {item(k, 0, 0, 0) : k \in {"*", "?"}} \cup {item("*", 0, 0, 2)}
       \cup {item("one", a, a, step) : a \in {0, 1, 2, 7, 8}, step \in {0, 2, 3}}
       \cup {item("range", a[1], a[2], step) : a \in {<<2, 6>>, <<1, 7>>, <<6, 2>>}, step \in {0, 2}}
       \cup {name(2, 2), name(4, 4), name(2, 6), name(6, 1), item("last", 6, 6, 0), item("nth", 6, 6, 0)}

=============================================================================
