------------------------------- MODULE MCText -------------------------------
(***************************************************************************)
(* Bytes and characters chosen so that each bit is seen both ways and next *)
(* to a boundary; numbers around the ends of minutes, hours and days.      *)
(***************************************************************************)
EXTENDS Text

MCSubjects ==
    [bytes  |-> {0, 1, 90, 165, 255},
     text   |-> {46, 65, 95, 122, 255},
     name   |-> {"a", "b", "3", "."},
     header |-> {"k", "v", "=", ";", " "},
     number |-> {0, 1, 9, 10, 59, 60, 3599, 3600, 86399, 86400}]

MCMaxLen == [bytes |-> 5, text |-> 5, name |-> 6, header |-> 8, number |-> 3]
MCLetters == {"a", "b"}
=============================================================================
