----------------------------- MODULE MCExchange -----------------------------
(* A small instance of Exchange for TLC. *)
EXTENDS Exchange

Answers == {[kind |-> "image", text |-> "x"], [kind |-> "pairing", text |-> "x"],
            [kind |-> "empty", text |-> ""]}

\* Members of every type, and all the ways to go on that are right or nearly so.
Members == {<<"7">>, <<"[", "7", ",", "]">>}

Ends == {<<"}">>, <<",", "}">>, <<"7", "}">>, <<",", "blob", ":", "true", "}">>}

Texts == {<<"{", "blob", ":">> \o m \o e : m \in Members, e \in Ends}
           \cup {<<"{", "w", ":", "{", "w", ":", "}">>, <<"[", "7", "}">>, <<"x", "x">>,
                 <<"{", "error", ":", "x", "}">>, <<"{", "error", ":", "7", "}">>,
                 <<"{", "mode", ":", "pairing", "}">>}
=============================================================================
