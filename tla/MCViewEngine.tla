---------------------------- MODULE MCViewEngine ----------------------------
(***************************************************************************)
(* Views of up to MaxSegments segments, alone or within a template.        *)
(***************************************************************************)
EXTENDS ViewMeaning

CONSTANT MaxSegments  \* bound of the model on the segments of a view

Block(flag, then, else) ==
    <<Token("if", flag)>> \o then \o <<Token("else", NULL)>> \o else \o <<Token("endif", NULL)>>
ShortBlock(flag, then) == <<Token("if", flag)>> \o then \o <<Token("endif", NULL)>>
Comment(s) == <<Token("open", NULL)>> \o s \o <<Token("close", NULL)>>

User == <<Token("predef", "user")>>
Title == <<Token("var", "title")>>

\* layout.html, a layout without @yield, and parts.
MCAssets ==
    [layout |-> Title \o Comment(<<Text("yield")>>) \o <<Token("yield", NULL), Text("end")>>,
     bare   |-> <<Text("bare")>>,
     part   |-> <<Text("part")>> \o Title,
     outer  |-> <<Token("include", "part"), Text("outer")>> \o ShortBlock("auth", User),
     broken |-> <<Text("broken"), Token("include", "nowhere")>>]

MCFunctions == [pid |-> "42"]
MCGlobals == {[auth |-> 0], [auth |-> 1]}
MCSessions == {NULL, [title |-> "T", msg |-> "M"]}
MCPredefined == [user |-> <<>>, name |-> <<Text("N")>>]

MCArgs == {"a", "c", "e", "n", "t", "T", "M", "N", "42", "head", "foot", "yield", "end", "bare",
           "part", "outer", "broken", "layout", "nowhere", "auth", "none", "title", "user",
           "name", "pid", "gone", NULL}

Segments ==
    {<<Text("a")>>, Title, <<Token("var", "none")>>, <<Token("predef", "name")>>,
     <<Token("function", "pid")>>, <<Token("function", "gone")>>,
     <<Token("include", "outer")>>, <<Token("include", "nowhere")>>,
     <<Token("include", "broken")>>, <<Token("include", NULL)>>,
     Comment(<<Text("c"), Token("function", "gone")>>), Comment(<<Token("include", "part")>>),
     ShortBlock("auth", <<Text("t"), Token("include", "part")>>),
     Block("auth", User \o <<Text("t")>>, <<Text("e")>>),
     ShortBlock("none", <<Text("n")>>)}

Pages == UNION {{FlattenSeq(f) : f \in [1..n -> Segments]} : n \in 1..MaxSegments}
InTemplate(name, s) ==
    <<Text("head"), Token("template", name)>> \o s \o <<Token("endtemplate", NULL), Text("foot")>>
MCViews == {NULL, <<>>} \cup Pages \cup {InTemplate("layout", s) : s \in Pages}
           \cup {InTemplate(name, <<Text("a")>>) : name \in {"bare", "nowhere"}}
           \cup {<<Token("template", "layout"), Text("a")>>}
=============================================================================
