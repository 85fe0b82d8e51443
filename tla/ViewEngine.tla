----------------------------- MODULE ViewEngine -----------------------------
(***************************************************************************)
(* http_view of core/view.c: the text of a view goes through seven passes  *)
(* in order, template, include, comment, function, statement, user and     *)
(* predefined variables, each of which rewrites the page from its first    *)
(* macro on until it finds no more.                                        *)
(*                                                                         *)
(* A page is a sequence of tokens: pieces of text and macros.  parser puts *)
(* a string end where the ')' of a macro is and leaves it out of what the  *)
(* macro is replaced with.  So every macro that is replaced leaves a "nul" *)
(* behind, and a macro whose name is not found stays, cut ("whole" is      *)
(* FALSE).  Names, values and texts are told apart by identity only, and a *)
(* macro always has its ')'.  The search for the @endif of a statement     *)
(* reads past the end of the page, and is taken to find none there.        *)
(***************************************************************************)
EXTENDS Integers, Sequences

CONSTANTS Views,      \* base views: pages, or NULL for a name that no asset has
          Assets,     \* the pages that @template and @include can name
          Functions,  \* the exported functions, with the text they return
          Globals,    \* what the exported int variables can be
          Sessions,   \* what the session tree can be, NULL if there is none
          Predefined, \* the values of @name, @user, ..., <<>> for a user who is not there
          Args,       \* names, texts, and what else a macro can be given
          NULL        \* what a macro without an argument is given

Kinds == {"text", "nul", "template", "endtemplate", "yield", "include", "open",
          "close", "function", "if", "else", "endif", "var", "predef"}

Token(kind, arg) == [kind |-> kind, arg |-> arg, whole |-> TRUE]
Text(t) == Token("text", t)
Nul == Token("nul", NULL)

\* What assets are made of, and what stands on a page.
Written == {t \in [kind : Kinds, arg : Args, whole : {TRUE}] :
                t.kind = "predef" => t.arg \in DOMAIN Predefined}
Tokens == Written \cup [kind : {"template", "include", "if"}, arg : Args, whole : {FALSE}]
Values == {<<>>} \cup {<<Text(t)>> : t \in Args}

ASSUME AssetsAssumption ==
    Views \subseteq Seq(Written) \cup {NULL}
    /\ \A name \in DOMAIN Assets : Assets[name] \in Seq(Written)
ASSUME TextsAssumption ==
    /\ \A name \in DOMAIN Functions : Functions[name] \in Args
    /\ \A s \in Sessions \ {NULL} : \A name \in DOMAIN s : s[name] \in Args
    /\ \A name \in DOMAIN Predefined : Predefined[name] \in Values
ASSUME NullAssumption == NULL \in Args /\ NULL \notin Seq(Written)

VARIABLES view,     \* the base view
          globals,  \* the int variables of the process
          session,  \* the session tree of the request
          present,  \* the request has an agent and an address, the worker a domain
          page,     \* the buffer
          phase     \* the pass that is next

inputs == <<view, globals, session, present>>
vars == <<inputs, page, phase>>

Init ==
    /\ view \in Views
    /\ globals \in Globals
    /\ session \in Sessions
    /\ present \in BOOLEAN
    /\ page = <<>>
    /\ phase = "start"

-----------------------------------------------------------------------------
(* The buffer.                                                             *)

\* kore_mem_find from a place on.
IsFirstFrom(s, from, i, kind) ==
    /\ i \in from..Len(s)
    /\ s[i].kind = kind /\ s[i].whole
    /\ \A j \in from..i - 1 : ~(s[j].kind = kind /\ s[j].whole)

IsFirst(s, i, kind) == IsFirstFrom(s, 1, i, kind)

Has(s, kind) == \E i \in DOMAIN s : IsFirst(s, i, kind)

\* parser: the first macro of a kind, if it has an argument.
IsMacro(i, kind) == IsFirst(page, i, kind) /\ page[i].arg # NULL
NoMacro(kind) == ~\E i \in DOMAIN page : IsMacro(i, kind)

\* aya_buf_replace_string: r in the place of the tokens from i to j.
Splice(s, i, j, r) == SubSeq(s, 1, i - 1) \o r \o SubSeq(s, j + 1, Len(s))

\* aya_buf_replace_first_string.
SpliceFirst(s, kind, r) ==
    IF Has(s, kind)
    THEN LET i == CHOOSE j \in DOMAIN s : IsFirst(s, j, kind) IN Splice(s, i, i, r)
    ELSE s

\* What is left of a macro whose name is not found.
CutAt(i) == [page EXCEPT ![i].whole = FALSE]

Go(p, s) == phase' = p /\ page' = s /\ UNCHANGED inputs
Stay(s) == Go(phase, s)

-----------------------------------------------------------------------------
(* The passes.                                                             *)

\* http_view: a view without macros is sent as it is.
Start ==
    /\ phase = "start"
    /\ \/ view = NULL /\ Go("not found", <<>>)
       \/ /\ view # NULL
          /\ IF \E i \in DOMAIN view : view[i].kind # "text" THEN Go("template", view)
             ELSE Go("done", view)

\* The page becomes the template, with the block in the place of its @yield.
ProcessTemplate ==
    /\ phase = "template"
    /\ \/ NoMacro("template") /\ Go("include", page)
       \/ \E i \in DOMAIN page :
            /\ IsMacro(i, "template")
            /\ \/ /\ page[i].arg \notin DOMAIN Assets \/ ~Has(page, "endtemplate")
                  /\ Go("include", CutAt(i))
               \/ \E end \in DOMAIN page :
                    /\ page[i].arg \in DOMAIN Assets /\ IsFirst(page, end, "endtemplate")
                    /\ Go("include", SpliceFirst(Assets[page[i].arg], "yield",
                                                SubSeq(page, i + 1, end - 1)))

ProcessInclude ==
    /\ phase = "include"
    /\ \/ NoMacro("include") /\ Go("comment", page)
       \/ \E i \in DOMAIN page :
            /\ IsMacro(i, "include")
            /\ \/ page[i].arg \notin DOMAIN Assets /\ Go("comment", CutAt(i))
               \/ /\ page[i].arg \in DOMAIN Assets
                  /\ Stay(Splice(page, i, i, Assets[page[i].arg] \o <<Nul>>))

\* Seeded fault: the comment is taken to end at the last mark on the page.
IsLastClose(end) ==
    page[end].kind = "close" /\ \A j \in end + 1..Len(page) : page[j].kind # "close"

IsCommentEnd(end) == IsFirst(page, end, "close")

ProcessComment ==
    /\ phase = "comment"
    /\ \/ (~Has(page, "open") \/ ~Has(page, "close")) /\ Go("function", page)
       \/ \E i, end \in DOMAIN page :
            IsFirst(page, i, "open") /\ IsCommentEnd(end) /\ Stay(Splice(page, i, end, <<>>))

\* call_vfunc returns NULL, and strlen of it ends the worker.
NoFunction(i) == Go("crashed", page)

ProcessFunction ==
    /\ phase = "function"
    /\ \/ NoMacro("function") /\ Go("statement", page)
       \/ \E i \in DOMAIN page :
            /\ IsMacro(i, "function")
            /\ \/ page[i].arg \notin DOMAIN Functions /\ NoFunction(i)
               \/ /\ page[i].arg \in DOMAIN Functions
                  /\ Stay(Splice(page, i, i, <<Text(Functions[page[i].arg]), Nul>>))

\* get_vvar: -1 for a variable that is not there.
get_vvar(name) == IF name \in DOMAIN globals THEN globals[name] ELSE -1

IsMiddle(i, m, end) == IsFirstFrom(page, i, m, "else") /\ m < end
NoMiddle(i, end) == ~\E m \in i..end : IsMiddle(i, m, end)

\* The last token to go with the @if, which is the first to go.
IsHead(i, last, end, res) ==
    IF res # 0 THEN last = i
    ELSE IF NoMiddle(i, end) THEN last = end - 1
    ELSE IsMiddle(i, last + 1, end)

\* After the head of a statement that has an @else goes what is between the
\* first @else and the first @endif of the page, and then this @endif.
WithoutElse(s) ==
    IF Has(s, "else")
    THEN LET m == CHOOSE i \in DOMAIN s : IsFirst(s, i, "else")
             e == CHOOSE i \in DOMAIN s : IsFirst(s, i, "endif")
         IN  Splice(s, m, e - 1, <<>>)
    ELSE s

\* Without a variable, or an @endif, the statement ends the pass.
ProcessStatement ==
    /\ phase = "statement"
    /\ \/ NoMacro("if") /\ Go("user", page)
       \/ \E i \in DOMAIN page :
            /\ IsMacro(i, "if")
            /\ \/ /\ \/ get_vvar(page[i].arg) < 0
                     \/ ~\E end \in DOMAIN page : IsFirstFrom(page, i, end, "endif")
                  /\ Go("user", CutAt(i))
               \/ \E end, last \in DOMAIN page :
                    /\ get_vvar(page[i].arg) >= 0
                    /\ IsFirstFrom(page, i, end, "endif")
                    /\ IsHead(i, last, end, get_vvar(page[i].arg))
                    /\ \E s \in {Splice(page, i, last, IF last = i THEN <<Nul>> ELSE <<>>)} :
                        Stay(SpliceFirst(IF NoMiddle(i, end) THEN s ELSE WithoutElse(s),
                                         "endif", <<>>))

\* Seeded fault: a variable without a value is left where it is.
ValueElseMacro(name) ==
    IF name \in DOMAIN session THEN <<Text(session[name]), Nul>> ELSE <<Token("var", name)>>

ValueOf(name) ==
    IF name \in DOMAIN session THEN <<Text(session[name]), Nul>> ELSE <<Nul>>

\* Seeded fault: a variable without a value ends the pass, as a name that is
\* not found does in the others.
ProcessUserVarsCutting ==
    /\ phase = "user"
    /\ \/ (session = NULL \/ NoMacro("var")) /\ Go("predef", page)
       \/ \E i \in DOMAIN page :
            /\ session # NULL /\ IsMacro(i, "var")
            /\ IF page[i].arg \in DOMAIN session THEN Stay(Splice(page, i, i, ValueOf(page[i].arg)))
               ELSE Go("predef", CutAt(i))

ProcessUserVars ==
    /\ phase = "user"
    /\ \/ (session = NULL \/ NoMacro("var")) /\ Go("predef", page)
       \/ \E i \in DOMAIN page :
            session # NULL /\ IsMacro(i, "var") /\ Stay(Splice(page, i, i, ValueOf(page[i].arg)))

\* Each is replaced wherever it stands; then the page is the response.  Only
\* @user may have no value: whatever stands on the page, a copy of the domain
\* is made, and the lengths of all the others are taken, which ends the worker
\* if one of them is NULL.
ProcessPredefVars ==
    /\ phase = "predef"
    /\ \/ ~present /\ Go("crashed", page)
       \/ present /\ ~Has(page, "predef") /\ Go("done", page)
       \/ \E i \in DOMAIN page :
            /\ present /\ IsFirst(page, i, "predef")
            /\ Stay(Splice(page, i, i, Predefined[page[i].arg]))

Next == \/ Start \/ ProcessTemplate \/ ProcessInclude \/ ProcessComment \/ ProcessFunction
        \/ ProcessStatement \/ ProcessUserVars \/ ProcessPredefVars

Spec == Init /\ [][Next]_vars

\* http_view is a sequence of statements.
FairSpec == Spec /\ WF_vars(Next)

-----------------------------------------------------------------------------
(* Properties.                                                             *)

\* The passes know no other phase, and what is left cut on a page is the macro
\* of a template, an include or a statement.
TypeOK ==
    /\ phase \in {"start", "template", "include", "comment", "function", "statement",
                  "user", "predef", "done", "not found", "crashed"}
    /\ view \in Views /\ globals \in Globals /\ session \in Sessions /\ present \in BOOLEAN
    /\ page \in Seq(Tokens)

\* A page is answered, or the worker is gone: no pass goes on for ever.
Terminates == <>(phase \in {"done", "not found", "crashed"})
=============================================================================
