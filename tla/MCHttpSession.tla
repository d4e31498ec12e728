--------------------------- MODULE MCHttpSession ---------------------------
EXTENDS HttpSession

Req(kind, keep, items) == [kind |-> kind, keep |-> keep, items |-> items]

\* Batches in which results come before, between and after notifications.
Batches == {<<>>, <<"notification">>, <<"async", "async">>, <<"sync", "async", "invalid">>,
            <<"async", "notification", "async">>, <<"unknown", "async", "notification">>}

Firsts == {Req("batch", TRUE, b) : b \in Batches}
            \cup {Req("single", TRUE, <<k>>) : k \in ItemKinds}

Lasts == {Req("batch", keep, b) : keep \in BOOLEAN, b \in {<<"async", "async">>, <<"async", "notification">>}}
           \cup {Req("single", FALSE, <<"async">>), Req("single", TRUE, <<"sync">>),
                 Req("denied", TRUE, <<>>), Req("bad", FALSE, <<>>)}

MCScripts == {<<a, b>> : a \in Firsts, b \in Lasts}
               \cup {<<a, Req("single", TRUE, <<"async">>), b>> : a \in Firsts, b \in Lasts}
=============================================================================
