----------------------------- MODULE ViewMeaning ----------------------------
(***************************************************************************)
(* What the page that http_view answers should be: a view read once from   *)
(* its beginning to its end, instead of pass by pass.                      *)
(***************************************************************************)
EXTENDS ViewEngine, SequencesExt

\* The base view in its template, and what that includes.
Filled(s) ==
    IF \E i, end \in DOMAIN s : IsFirst(s, i, "template") /\ IsFirst(s, end, "endtemplate")
    THEN LET i == CHOOSE j \in DOMAIN s : IsFirst(s, j, "template")
             end == CHOOSE j \in DOMAIN s : IsFirst(s, j, "endtemplate")
         IN  IF s[i].arg \in DOMAIN Assets
             THEN SpliceFirst(Assets[s[i].arg], "yield", SubSeq(s, i + 1, end - 1))
             ELSE s
    ELSE s

RECURSIVE Expanded(_)
Expanded(s) ==
    FlattenSeq([i \in DOMAIN s |-> IF s[i].kind = "include" /\ s[i].arg \in DOMAIN Assets
                                   THEN Expanded(Assets[s[i].arg]) ELSE <<s[i]>>])

\* The macros of a page all have what they need.
Known(s) ==
    \A i \in DOMAIN s : CASE s[i].kind = "function" -> s[i].arg \in DOMAIN Functions
                        [] s[i].kind = "if" -> get_vvar(s[i].arg) >= 0
                        [] s[i].kind \in {"include", "template"} -> FALSE
                        [] s[i].kind = "var" -> session # NULL /\ s[i].arg # NULL
                        [] OTHER -> TRUE

\* The token i is between a mark and the first one that ends it.
Within(s, open, i, close) ==
    \E j \in 1..i : s[j].kind = open /\ \A k \in j..i - 1 : s[k].kind # close

Uncommented(s) ==
    FlattenSeq([i \in DOMAIN s |-> IF Within(s, "open", i, "close") THEN <<>> ELSE <<s[i]>>])

\* The branch that the token i is in is not the one to be shown.
InBranchNotTaken(s, i) ==
    \E j \in 1..i : /\ s[j].kind = "if"
                     /\ \A k \in j..i - 1 : s[k].kind # "endif"
                     /\ (get_vvar(s[j].arg) # 0) = (\E l \in j..i - 1 : s[l].kind = "else")

ValueOfToken(t) ==
    CASE t.kind \in {"if", "else", "endif"} -> <<>>
      [] t.kind = "function" -> <<Text(Functions[t.arg])>>
      [] t.kind = "var" -> IF t.arg \in DOMAIN session THEN <<Text(session[t.arg])>> ELSE <<>>
      [] t.kind = "predef" -> Predefined[t.arg]
      [] OTHER -> <<t>>

Shown(s) ==
    FlattenSeq([i \in DOMAIN s |-> IF InBranchNotTaken(s, i) THEN <<>> ELSE ValueOfToken(s[i])])

Meaning == Uncommented(Expanded(Filled(view)))

\* There is an @else whose turn it is.
ElseTaken(s) ==
    \E i, j \in DOMAIN s : /\ i < j /\ s[i].kind = "if" /\ s[j].kind = "else"
                           /\ get_vvar(s[i].arg) = 0
                           /\ \A k \in i..j : s[k].kind # "endif"

Visible(s) == SelectSeq(s, LAMBDA t : t.kind # "nul")

-----------------------------------------------------------------------------
(* Properties.                                                             *)

\* Though each pass goes over the whole page on its own, and macros come from
\* templates, includes and comments that other passes touch, a view of which all
\* macros are known is answered, and the response shows what the view means, read
\* in order.  The worker does not end on such a view, commented-out macros that
\* nothing is known of included, if agent, address and domain are there.
Rendered ==
    phase \in {"done", "crashed"} /\ present /\ Known(Meaning) /\ ~ElseTaken(Meaning) =>
        phase = "done" /\ Visible(page) = Shown(Meaning)

\* "Show the user only if there is authentication" (assets/status.html:55)
\* and otherwise, after @else, that there is none.
ElseShown == phase = "done" /\ Known(Meaning) => Visible(page) = Shown(Meaning)
=============================================================================
