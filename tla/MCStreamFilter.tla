--------------------------- MODULE MCStreamFilter ---------------------------
(* Texts for TLC, by the matches that are in them. *)
EXTENDS StreamFilter

\* The matches of rule r: two characters or more make it match, and it grows.
MatchesOf(r, actions, growths, contexts, lefts, rights) ==
    {h \in [rule : {r}, type : {r}, action : actions, needs : Positions,
            start : Positions, least : Positions, end : Positions,
            left : lefts, right : rights] :
        /\ h.least - h.start \in 2 .. MaxMatchBytes
        /\ h.end - h.least \in growths
        /\ h.start - h.needs \in contexts}

\* ... found wherever it is, and found by what is around it.
PlainOf(r, actions, growths) == MatchesOf(r, actions, growths, {0}, {"free"}, {"free"})
Edged(r, actions) == MatchesOf(r, actions, {0, 1}, {0}, {"free", "edge"}, {"free", "edge"})
Lookbehind(r, actions) == MatchesOf(r, actions, {0}, {1}, {"free"}, {"free"})

MCRules == 1 .. 3

MCTexts ==
    {[hits |-> {a, b, c}, folds |-> {}] :
        a \in PlainOf(1, {"redact"}, {0, 1}), b \in PlainOf(2, {"redact"}, {0}), c \in PlainOf(3, {"block"}, {0, 1})}
    \cup {[hits |-> {a, b}, folds |-> {}] :
        a \in Edged(1, {"redact"}) \cup Lookbehind(1, {"redact"}), b \in PlainOf(2, {"allow"}, {0})}
    \cup {[hits |-> {a, [b EXCEPT !.type = 1]}, folds |-> {1}] :
        a \in PlainOf(1, {"redact"}, {0, 1}), b \in PlainOf(2, {"redact"}, {0})}

\* What a lookbehind needs and what it finds fit maxMatchBytes together.
LookbehindTexts ==
    {[hits |-> {h}, folds |-> {}] : h \in {g \in Lookbehind(1, {"redact"}) : g.least - g.needs <= MaxMatchBytes}}
=============================================================================
