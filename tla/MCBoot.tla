------------------------------- MODULE MCBoot -------------------------------
(***************************************************************************)
(* Instances of Boot: files that are complete, or nearly, with a few lines *)
(* anywhere around, and environments of one or two variables.              *)
(***************************************************************************)
EXTENDS Boot

Section(s) == [kind |-> "section", indented |-> FALSE, title |-> s, value |-> <<>>]
Item(n, v) == [kind |-> "item", indented |-> FALSE, title |-> n, value |-> v]
Other(kind, v) == [kind |-> kind, indented |-> FALSE, title |-> "none", value |-> v]
Indent(l) == [l EXCEPT !.indented = TRUE]

\* The lines that take part, and what makes a file complete.
Extra == {Section("db"), Section("app"), Item("debug", <<"true">>), Item("storage", <<"a">>),
          Item("name", <<"b">>), Item("session", <<"3600">>), Item("domain", <<>>),
          Item("instance", <<"a">>),
          Other("broken", <<"b">>), Other("comment", <<>>),
          Indent(Item("name", <<"a">>)), Indent(Section("dbrw")), Indent(Other("broken", <<"b">>))}
AppSection == <<Section("app"), Item("name", <<"a">>), Item("env", <<"a">>), Item("key", <<"a">>)>>

Upto2 == UNION {[1..n -> Extra] : n \in 0..2}
BootFiles == {AppSection \o e : e \in Upto2} \cup {e \o AppSection : e \in Upto2}
             \cup {SubSeq(AppSection, 1, 3) \o e : e \in Upto2}
             \cup {NONE}

Var1(s, n, v) == [section |-> s, name |-> n, value |-> v]
BootEnvironments ==
    {<<>>,
     <<Var1("app", "name", <<"a", "b">>), Var1("db", "name", <<"a">>)>>,
     <<Var1("app", "key", <<>>)>>,
     <<Var1("dbrw", "name", <<"a">>), Var1("dbrw", "name", <<"b">>)>>,
     <<Var1("none", "storage", <<"a", "b">>), Var1("none", "debug", <<"1">>)>>,
     <<Var1("none", "storage", <<"a">>)>>,
     <<Var1("dbrw", "name", <<"a">>), Var1("dbr", "name", <<"b">>)>>}

\* Few files, for what goes wrong with any.
FewFiles == {<<Item("storage", <<"a">>)>> \o AppSection}
SectionVariables == {<<Var1("app", "name", <<"b">>)>>}
=============================================================================
