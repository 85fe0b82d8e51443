----------------------------- MODULE BootProofs -----------------------------
(***************************************************************************)
(* Theorems about Boot, for every set of files and of environments, of any *)
(* length, and any number of reloads.                                      *)
(***************************************************************************)
EXTENDS Boot, SequenceTheorems, TLAPS

-----------------------------------------------------------------------------
(* The inductive invariant.                                                *)

\* j is the last of the lines S before line i, or 0 if there is none.
IsLast(j, S, i) == j \in S \cup {0} /\ j < i /\ \A m \in S : m < i => m <= j

\* There is an item before line i for it to continue.
Continuable(i) ==
    \E j \in 1..(i - 1) :
        /\ file[j].kind = "item"
        /\ \A m \in (j + 1)..(i - 1) : file[m].kind = "section" => file[m].indented

\* What ini_parse_stream keeps between two lines is where the next one is.
PlaceKept ==
    phase = "parsing" =>
        /\ \A e \in Errors : lineno < e
        /\ \E h \in Headers \cup {0} : /\ IsLast(h, Headers, lineno + 1)
                                       /\ section = IF h = 0 THEN "none" ELSE file[h].title
        /\ prev_name # "none" <=> Continuable(lineno + 1)
        /\ prev_name # "none" =>
             \E i \in Items : IsLast(i, Items, lineno + 1) /\ prev_name = file[i].title

\* Line i says something of key k, namely LineValue(i).
Says(i, k) == i \in Items \cup More /\ KeyOf(SectionOf(i), NameOf(i)) = k
LineValue(i) == IF i \in Items THEN file[i].value ELSE Text(file[i])

\* The key k has what the last of the lines S says of it.
FromFile(k, S) ==
    \/ S = {} /\ ~Has(k)
    \/ \E i \in S : /\ \A j \in S : j <= i
                    /\ Has(k) /\ config[k] = Stored(k, LineValue(i))

\* debug is zero if nothing is said of it.
Defaulted(k) == k = Debug /\ FileDefines(k) = {} /\ Has(k) /\ config[k] = <<"0">>

\* The variables that application_env has taken for k.
Taken(k) == {i \in VariablesFor(k) : reloads = 0 /\ i <= lineno}

\* A key that no variable with an underscore is about.
Clear(k) == k[1] # "none" \/ \A i \in DOMAIN environ : ~HasUnderscore(environ[i])

ConfigKept ==
    \A k \in AllKeys :
        /\ phase = "parsing" => FromFile(k, {i \in 1..lineno : Says(i, k)})
        /\ phase = "checking" => FromFile(k, FileDefines(k))
        /\ phase = "logging" => FromFile(k, FileDefines(k)) \/ Defaulted(k)
        /\ phase \in {"environment", "bootstrap", "running"} /\ Clear(k) =>
             IF Taken(k) = {} THEN FromFile(k, FileDefines(k)) \/ Defaulted(k)
             ELSE \E i \in Taken(k) : /\ \A j \in Taken(k) : j <= i
                                      /\ Has(k) /\ config[k] = Stored(k, environ[i].value)

\* A variable is cut once, when it is taken, and stays cut across reloads.
CutOnce ==
    /\ reloads > 0 => cut = DOMAIN environ
    /\ reloads = 0 /\ phase \in {"unloaded", "parsing", "checking", "logging"} => cut = {}
    /\ reloads = 0 /\ phase \in {"environment", "bootstrap", "running"} => cut = 1..lineno
    /\ phase \in {"bootstrap", "running"} => lineno = Len(environ)

\* Complete, from the place on where each part of it is established.
Filled ==
    /\ \A k \in DOMAIN config : k[1] = "app" => config[k] # <<>>
    /\ Has(Debug) => config[Debug] \in {<<"0">>, <<"1">>}
    /\ phase \in {"logging", "environment", "bootstrap", "running"} =>
         Required \cup {Debug} \subseteq DOMAIN config

\* The connections are those that the configuration names.
Connected ==
    phase = "running" /\ Has(<<"dbrw", "name">>) /\ ~Has(<<"db", "name">>) => "dbrw" \in databases

BootInv == TypeOK /\ PlaceKept /\ ConfigKept /\ CutOnce /\ Filled /\ Connected

-----------------------------------------------------------------------------
(* Lines.                                                                  *)

LEMMA LastBeforeIs ==
    ASSUME NEW S \in SUBSET Nat, NEW i \in Nat, NEW j, IsLast(j, S, i)
    PROVE  LastBefore(S, i) = j
<1> DEFINE P(x) == x < i /\ \A m \in S : m < i => m <= x
<1>1. j \in S \cup {0} /\ P(j)
  BY DEF IsLast
<1>2. LastBefore(S, i) = CHOOSE x \in S \cup {0} : P(x)
  BY DEF LastBefore
<1>3. LastBefore(S, i) \in S \cup {0} /\ P(LastBefore(S, i))
  <2> HIDE DEF P
  <2> QED
    BY <1>1, <1>2
<1> DEFINE l == LastBefore(S, i)
<1>4. j \in Nat /\ l \in Nat
  <2>1. j \in S \cup {0} /\ l \in S \cup {0}
    BY <1>1, <1>3
  <2> HIDE DEF l
  <2> QED
    BY <2>1
<1>5. l <= j /\ j <= l
  <2>1. /\ j \in S \cup {0} /\ j < i /\ \A m \in S : m < i => m <= j
        /\ l \in S \cup {0} /\ l < i /\ \A m \in S : m < i => m <= l
    BY <1>1, <1>3
  <2> HIDE DEF l
  <2> QED
    BY <1>4, <2>1
<1> QED
  BY <1>4, <1>5

LEMMA GreatestIs ==
    ASSUME NEW S \in SUBSET Nat, NEW i \in S, \A j \in S : j <= i
    PROVE  Greatest(S) = i
<1> DEFINE P(x) == \A j \in S : j <= x
<1>1. Greatest(S) = CHOOSE x \in S : P(x)
  BY DEF Greatest
<1>2. P(i)
  OBVIOUS
<1>3. Greatest(S) \in S /\ P(Greatest(S))
  <2> HIDE DEF P
  <2> QED
    BY <1>1, <1>2
<1>4. Greatest(S) <= i /\ i <= Greatest(S) /\ Greatest(S) \in Nat /\ i \in Nat
  BY <1>3
<1> QED
  BY <1>4

\* One more line.
LEMMA LastBeforeNext ==
    ASSUME NEW S \in SUBSET Nat, NEW n \in Nat
    PROVE  /\ n \in S => IsLast(n, S, n + 1)
           /\ \A j : n \notin S /\ IsLast(j, S, n) => IsLast(j, S, n + 1)
<1>1. n \in S => IsLast(n, S, n + 1)
  BY DEF IsLast
<1>2. ASSUME NEW j, n \notin S, IsLast(j, S, n) PROVE IsLast(j, S, n + 1)
  <2>1. j \in S \cup {0} /\ j \in Nat /\ j < n /\ \A m \in S : m < n => m <= j
    BY <1>2 DEF IsLast
  <2>2. \A m \in S : m < n + 1 => m < n
    BY <1>2
  <2> QED
    BY <2>1, <2>2 DEF IsLast
<1> QED
  BY <1>1, <1>2

\* Nothing is said of a file by anything but the file.
LEMMA SameFile ==
    ASSUME file' = file
    PROVE  /\ Headers' = Headers /\ Items' = Items /\ More' = More /\ Errors' = Errors
           /\ \A i : /\ Continuable(i)' <=> Continuable(i)
                     /\ LineValue(i)' = LineValue(i)
           /\ \A i, k : Says(i, k)' <=> Says(i, k)
           /\ \A k : FileDefines(k)' = FileDefines(k)
<1>1. \A i : Continues(i)' <=> Continues(i)
  BY DEF Continues
<1>2. Headers' = Headers /\ Items' = Items /\ More' = More /\ Errors' = Errors
  BY <1>1 DEF Headers, Items, More, Errors
<1>3. \A i : /\ Continuable(i)' <=> Continuable(i)
             /\ LineValue(i)' = LineValue(i)
  BY <1>2 DEF Continuable, LineValue
<1>4. \A i : SectionOf(i)' = SectionOf(i) /\ NameOf(i)' = NameOf(i)
  BY <1>2 DEF SectionOf, NameOf
<1>5. \A i, k : Says(i, k)' <=> Says(i, k)
  BY <1>2, <1>4 DEF Says
<1>6. \A k : FileDefines(k)' = FileDefines(k)
  BY <1>2, <1>4 DEF FileDefines
<1> QED
  BY <1>2, <1>3, <1>5, <1>6

\* What there is to continue after one more line.
LEMMA ContinuableNext ==
    ASSUME NEW i \in Nat \ {0}
    PROVE  Continuable(i + 1) <=> \/ file[i].kind = "item"
                                  \/ Continuable(i)
                                     /\ (file[i].kind = "section" => file[i].indented)
<1>1. ASSUME file[i].kind = "item" PROVE Continuable(i + 1)
  <2>1. i \in 1..((i + 1) - 1) /\ \A m \in (i + 1)..((i + 1) - 1) : FALSE
    OBVIOUS
  <2> QED
    BY <1>1, <2>1 DEF Continuable
<1>2. ASSUME Continuable(i), file[i].kind = "section" => file[i].indented PROVE Continuable(i + 1)
  <2>1. PICK j \in 1..(i - 1) :
            /\ file[j].kind = "item"
            /\ \A m \in (j + 1)..(i - 1) : file[m].kind = "section" => file[m].indented
    BY <1>2 DEF Continuable
  <2>2. j \in 1..((i + 1) - 1) /\ \A m \in (j + 1)..((i + 1) - 1) : m \in (j + 1)..(i - 1) \/ m = i
    OBVIOUS
  <2> QED
    BY <1>2, <2>1, <2>2 DEF Continuable
<1>3. ASSUME Continuable(i + 1), file[i].kind # "item"
      PROVE  Continuable(i) /\ (file[i].kind = "section" => file[i].indented)
  <2>1. PICK j \in 1..((i + 1) - 1) :
            /\ file[j].kind = "item"
            /\ \A m \in (j + 1)..((i + 1) - 1) : file[m].kind = "section" => file[m].indented
    BY <1>3 DEF Continuable
  <2>2. j \in 1..(i - 1)
    BY <1>3, <2>1
  <2>3. i \in (j + 1)..((i + 1) - 1) /\ \A m \in (j + 1)..(i - 1) : m \in (j + 1)..((i + 1) - 1)
    BY <2>2
  <2> QED
    BY <2>1, <2>2, <2>3 DEF Continuable
<1> QED
  BY <1>1, <1>2, <1>3

LEMMA LineNumbers ==
    ASSUME TypeOK, phase = "parsing"
    PROVE  /\ file \in Seq(Line) /\ lineno \in Nat /\ DOMAIN file = 1..Len(file)
              /\ Len(file) \in Nat
           /\ Headers \in SUBSET Nat /\ Items \in SUBSET Nat /\ More \in SUBSET Nat
           /\ 0 \notin Headers /\ 0 \notin Items
<1>1. file \in Seq(Line) /\ lineno \in Nat
  BY DEF TypeOK
<1>2. DOMAIN file = 1..Len(file) /\ Len(file) \in Nat
  BY <1>1
<1> QED
  BY <1>1, <1>2 DEF Headers, Items, More

LEMMA LineKinds ==
    ASSUME NEW l \in Line
    PROVE  /\ l.kind \in {"section", "item", "broken", "comment"}
           /\ l.kind = "section" => l.title \in Sections
           /\ l.kind = "item" => l.title \in Names
BY DEF Line

\* What the line that is read next is, seen from the file as a whole.
LEMMA NextLine ==
    ASSUME TypeOK, PlaceKept, phase = "parsing", lineno < Len(file)
    PROVE  /\ lineno + 1 \in DOMAIN file /\ L = file[lineno + 1] /\ L \in Line
           /\ lineno + 1 \in Headers <=> L.kind = "section" /\ ~Continuing
           /\ lineno + 1 \in Items <=> L.kind = "item" /\ ~Continuing
           /\ lineno + 1 \in More <=> L.kind # "comment" /\ Continuing
           /\ lineno + 1 \in Errors <=> L.kind = "broken" /\ ~Continuing
           /\ section = SectionOf(lineno + 1)
           /\ lineno + 1 \in Items => NameOf(lineno + 1) = L.title
           /\ lineno + 1 \in More => NameOf(lineno + 1) = prev_name
<1> DEFINE i == lineno + 1
<1>1. lineno \in Nat /\ i \in Nat /\ i \in DOMAIN file /\ L = file[i] /\ L \in Line
  BY LineNumbers DEF L
<1>2. Continues(i) <=> Continuing
  BY <1>1, Zenon DEF Continues, Continuing, Continuable, PlaceKept
<1>3. /\ i \in Headers <=> L.kind = "section" /\ ~Continuing
      /\ i \in Items <=> L.kind = "item" /\ ~Continuing
      /\ i \in More <=> L.kind # "comment" /\ Continuing
      /\ i \in Errors <=> L.kind = "broken" /\ ~Continuing
  BY <1>1, <1>2 DEF Headers, Items, More, Errors
<1>4. section = SectionOf(i)
  <2>1. PICK h \in Headers \cup {0} : /\ IsLast(h, Headers, i)
                                      /\ section = IF h = 0 THEN "none" ELSE file[h].title
    BY DEF PlaceKept
  <2>2. LastBefore(Headers, i) = h
    BY <1>1, <2>1, LineNumbers, LastBeforeIs
  <2> QED
    BY <2>1, <2>2 DEF SectionOf
<1>5. i \in Items => NameOf(i) = L.title
  BY <1>1 DEF NameOf
<1>6. ASSUME i \in More PROVE NameOf(i) = prev_name
  <2>1. Continuing /\ i \notin Items
    BY <1>3, <1>6
  <2>2. prev_name # "none"
    BY <2>1 DEF Continuing
  <2>3. PICK j \in Items : IsLast(j, Items, i) /\ prev_name = file[j].title
    BY <2>2 DEF PlaceKept
  <2>4. LastBefore(Items, i) = j
    BY <1>1, <2>3, LineNumbers, LastBeforeIs
  <2> QED
    BY <2>1, <2>3, <2>4 DEF NameOf
<1> QED
  BY <1>1, <1>3, <1>4, <1>5, <1>6

\* Reading a line keeps the place, for what each kind of line does to it.
LEMMA PlaceNext ==
    ASSUME TypeOK, PlaceKept, phase = "parsing", lineno < Len(file),
           file' = file, lineno' = lineno + 1, lineno + 1 \notin Errors,
           section' = IF lineno + 1 \in Headers THEN L.title ELSE section,
           prev_name' = IF lineno + 1 \in Headers THEN "none"
                        ELSE IF lineno + 1 \in Items THEN L.title ELSE prev_name
    PROVE  PlaceKept'
<1> DEFINE i == lineno + 1
<1>1. /\ lineno \in Nat /\ i \in Nat \ {0} /\ L = file[i] /\ L \in Line
      /\ i \in Headers <=> L.kind = "section" /\ ~Continuing
      /\ i \in Items <=> L.kind = "item" /\ ~Continuing
      /\ Headers \in SUBSET Nat /\ Items \in SUBSET Nat
  BY NextLine, LineNumbers
<1>2. Headers' = Headers /\ Items' = Items /\ Errors' = Errors
  BY SameFile
<1>3. /\ \A e \in Errors : lineno < e
      /\ \E h \in Headers \cup {0} : /\ IsLast(h, Headers, i)
                                     /\ section = IF h = 0 THEN "none" ELSE file[h].title
      /\ prev_name # "none" <=> Continuable(i)
      /\ prev_name # "none" => \E j \in Items : IsLast(j, Items, i) /\ prev_name = file[j].title
  BY DEF PlaceKept
<1>4. \A e \in Errors' : lineno' < e
  <2>1. Errors \in SUBSET Nat
    BY LineNumbers DEF Errors
  <2>2. ASSUME NEW e \in Errors PROVE i < e
    <3>1. e \in Nat /\ lineno < e /\ e # i
      BY <1>3, <2>1
    <3> QED
      BY <1>1, <3>1
  <2> QED
    BY <1>2, <2>2
<1>5. \E h \in Headers' \cup {0} : /\ IsLast(h, Headers', lineno' + 1)
                                   /\ section' = IF h = 0 THEN "none" ELSE file'[h].title
  <2>1. CASE i \in Headers
    <3>1. IsLast(i, Headers, i + 1)
      BY <1>1, <2>1, LastBeforeNext
    <3>2. i # 0 /\ section' = file[i].title
      BY <1>1, <2>1
    <3> QED
      BY <1>2, <2>1, <3>1, <3>2
  <2>2. CASE i \notin Headers
    <3>1. PICK h \in Headers \cup {0} : /\ IsLast(h, Headers, i)
                                        /\ section = IF h = 0 THEN "none" ELSE file[h].title
      BY <1>3
    <3>2. IsLast(h, Headers, i + 1)
      BY <1>1, <2>2, <3>1, LastBeforeNext
    <3> QED
      BY <1>2, <2>2, <3>1, <3>2
  <2> QED
    BY <2>1, <2>2
<1>6. prev_name' # "none" <=> Continuable(lineno + 1)'
  <2>1. Continuable(i + 1) <=> \/ L.kind = "item"
                               \/ Continuable(i) /\ (L.kind = "section" => L.indented)
    BY <1>1, ContinuableNext, Zenon
  <2>2. Continuing <=> L.indented /\ Continuable(i)
    BY <1>3, Zenon DEF Continuing
  <2>3. prev_name' # "none" <=> Continuable(i + 1)
    <3>1. CASE L.kind = "item"
      <4>1. L.title \in Names /\ i \notin Headers
        BY <1>1, <3>1, LineKinds
      <4>2. CASE Continuing
        <5>1. i \notin Items /\ prev_name # "none"
          BY <1>1, <4>2, Zenon DEF Continuing
        <5> QED
          BY <2>1, <3>1, <4>1, <5>1
      <4>3. CASE ~Continuing
        <5>1. prev_name' = L.title
          BY <1>1, <3>1, <4>1, <4>3
        <5> QED
          BY <2>1, <3>1, <4>1, <5>1 DEF Names
      <4> QED
        BY <4>2, <4>3
    <3>2. CASE L.kind = "section"
      <4>1. Continuable(i + 1) <=> Continuing
        BY <2>1, <2>2, <3>2, Zenon
      <4>2. prev_name' = IF Continuing THEN prev_name ELSE "none"
        BY <1>1, <3>2
      <4>3. Continuing => prev_name # "none"
        BY Zenon DEF Continuing
      <4> QED
        BY <4>1, <4>2, <4>3
    <3>3. CASE L.kind \notin {"item", "section"}
      <4>1. prev_name' = prev_name
        BY <1>1, <3>3
      <4>2. Continuable(i + 1) <=> Continuable(i)
        BY <2>1, <3>3, Zenon
      <4> QED
        BY <1>3, <4>1, <4>2
    <3> QED
      BY <3>1, <3>2, <3>3
  <2>4. Continuable(lineno + 1)' <=> Continuable(i + 1)
    BY DEF Continuable
  <2> QED
    BY <2>3, <2>4
<1>7. prev_name' # "none" =>
        \E j \in Items' : IsLast(j, Items', lineno' + 1) /\ prev_name' = file'[j].title
  <2>1. CASE i \in Items
    <3>1. IsLast(i, Items, i + 1) /\ i \notin Headers
      BY <1>1, <2>1, LastBeforeNext
    <3> QED
      BY <1>1, <1>2, <2>1, <3>1
  <2>2. CASE i \notin Items /\ prev_name' # "none"
    <3>1. prev_name' = prev_name
      BY <2>2
    <3>2. PICK j \in Items : IsLast(j, Items, i) /\ prev_name = file[j].title
      BY <1>3, <2>2, <3>1
    <3>3. IsLast(j, Items, i + 1)
      BY <1>1, <2>2, <3>2, LastBeforeNext
    <3> QED
      BY <1>2, <3>1, <3>2, <3>3
  <2> QED
    BY <2>1, <2>2
<1> QED
  BY <1>4, <1>5, <1>6, <1>7 DEF PlaceKept

-----------------------------------------------------------------------------
(* Definitions.                                                            *)

\* What a definition that is handled does: nothing to any key but its own.
LEMMA HandleDoes ==
    ASSUME NEW s, NEW n, NEW v, Handle(s, n, v, phase)
    PROVE  \/ phase' = "aborted" /\ config' = config
           \/ /\ phase' = phase /\ ~Rejected(s, v)
              /\ config' = IF n = "instance" THEN config
                           ELSE With(config, KeyOf(s, n), Stored(KeyOf(s, n), v))
BY Zenon DEF Handle, load_config_tree

LEMMA KeyShape ==
    ASSUME NEW s, NEW n
    PROVE  /\ Len(KeyOf(s, n)) = 2 /\ KeyOf(s, n)[1] \in {s, "none"}
           /\ n = "instance" => KeyOf(s, n) \notin AllKeys
<1>1. CASE n = "debug"
  BY <1>1 DEF KeyOf, Debug
<1>2. CASE n # "debug"
  BY <1>2 DEF KeyOf, AllKeys
<1> QED
  BY <1>1, <1>2

\* What is stored for an item of the section app is not empty, and for debug
\* it is a number.
LEMMA StoredValue ==
    ASSUME NEW s, NEW n, NEW v, ~Rejected(s, v)
    PROVE  /\ KeyOf(s, n)[1] = "app" => Stored(KeyOf(s, n), v) # <<>>
           /\ Stored(Debug, v) \in {<<"0">>, <<"1">>}
<1>1. Stored(Debug, v) \in {<<"0">>, <<"1">>}
  BY DEF Stored, Debug, Session
<1>2. ASSUME KeyOf(s, n)[1] = "app" PROVE Stored(KeyOf(s, n), v) # <<>>
  <2>1. n # "debug" /\ s = "app" /\ KeyOf(s, n) = <<s, n>>
    BY <1>2 DEF KeyOf, Debug
  <2>2. v # <<>>
    BY <2>1 DEF Rejected
  <2>3. <<"0">> # <<>>
    OBVIOUS
  <2>4. KeyOf(s, n) # Debug
    BY <2>1 DEF Debug
  <2> QED
    BY <2>2, <2>3, <2>4 DEF Stored
<1> QED
  BY <1>1, <1>2

\* A definition that is handled keeps what is said of the configuration as a
\* whole.
LEMMA HandleFills ==
    ASSUME Filled, \A k \in DOMAIN config : Len(k) = 2,
           NEW s, NEW n, NEW v, Handle(s, n, v, phase)
    PROVE  Filled' /\ \A k \in DOMAIN config' : Len(k) = 2
<1>1. CASE config' = config
  <2>1. phase' = "aborted" \/ phase' = phase
    BY HandleDoes
  <2> QED
    BY <1>1, <2>1 DEF Filled, Has
<1>2. CASE config' # config
  <2> DEFINE K == KeyOf(s, n)
  <2>1. /\ phase' = phase /\ ~Rejected(s, v) /\ DOMAIN config' = DOMAIN config \cup {K}
        /\ config'[K] = Stored(K, v)
        /\ \A l \in DOMAIN config : l # K => config'[l] = config[l]
    <3> DEFINE V == Stored(K, v)
    <3>1. phase' = phase /\ ~Rejected(s, v) /\ config' = With(config, K, V)
      BY <1>2, HandleDoes
    <3> HIDE DEF K, V
    <3>2. /\ DOMAIN config' = DOMAIN config \cup {K} /\ config'[K] = V
          /\ \A l \in DOMAIN config : l # K => config'[l] = config[l]
      BY <3>1 DEF With
    <3> QED
      BY <3>1, <3>2 DEF V
  <2>2. Len(K) = 2 /\ (K[1] = "app" => Stored(K, v) # <<>>)
        /\ Stored(Debug, v) \in {<<"0">>, <<"1">>}
    BY <2>1, KeyShape, StoredValue
  <2> HIDE DEF K
  <2>3. \A k \in DOMAIN config' : k[1] = "app" => config'[k] # <<>>
    BY <2>1, <2>2 DEF Filled
  <2>4. Debug \in DOMAIN config' => config'[Debug] \in {<<"0">>, <<"1">>}
    BY <2>1, <2>2 DEF Filled, Has
  <2>5. \A k \in DOMAIN config' : Len(k) = 2
    BY <2>1, <2>2
  <2> QED
    BY <2>1, <2>3, <2>4, <2>5 DEF Filled, Has
<1> QED
  BY <1>1, <1>2

\* One more line carries what the file says of a key on.
LEMMA FileNext ==
    ASSUME TypeOK, phase = "parsing", file' = file, lineno' = lineno + 1,
           NEW k, FromFile(k, {i \in 1..lineno : Says(i, k)}),
           \/ /\ ~Says(lineno + 1, k)
              /\ k \in DOMAIN config' <=> k \in DOMAIN config
              /\ k \in DOMAIN config => config'[k] = config[k]
           \/ /\ Says(lineno + 1, k)
              /\ k \in DOMAIN config' /\ config'[k] = Stored(k, LineValue(lineno + 1))
    PROVE  FromFile(k, {i \in 1..lineno : Says(i, k)})'
<1> DEFINE S == {i \in 1..lineno : Says(i, k)}
           T == {i \in 1..(lineno + 1) : Says(i, k)}
<1>1. lineno \in Nat
  BY DEF TypeOK
<1>2. {i \in 1..lineno : Says(i, k)}' = T
  BY SameFile
<1>3. \A i \in T : LineValue(i)' = LineValue(i)
  BY SameFile
<1>4. \/ T = {} /\ k \notin DOMAIN config'
      \/ \E i \in T : /\ \A j \in T : j <= i
                      /\ k \in DOMAIN config' /\ config'[k] = Stored(k, LineValue(i))
  <2>1. CASE Says(lineno + 1, k)
    <3>1. lineno + 1 \in T /\ \A j \in T : j <= lineno + 1
      BY <1>1, <2>1
    <3> QED
      BY <2>1, <3>1
  <2>2. CASE ~Says(lineno + 1, k)
    <3>1. T = S
      BY <1>1, <2>2
    <3>2. \/ S = {} /\ k \notin DOMAIN config
          \/ \E i \in S : /\ \A j \in S : j <= i
                          /\ k \in DOMAIN config /\ config[k] = Stored(k, LineValue(i))
      BY DEF FromFile, Has
    <3> HIDE DEF S, T
    <3> QED
      BY <2>2, <3>1, <3>2
  <2> QED
    BY <2>1, <2>2
<1>5. \/ T = {} /\ ~Has(k)'
      \/ \E i \in T : /\ \A j \in T : j <= i
                      /\ Has(k)' /\ config'[k] = Stored(k, LineValue(i)')
  <2> HIDE DEF T
  <2> QED
    BY <1>3, <1>4 DEF Has
<1> QED
  <2> HIDE DEF T
  <2> QED
    BY <1>2, <1>5 DEF FromFile

\* A key that is left alone still has what the file says of it.
LEMMA FileKept ==
    ASSUME file' = file, NEW k,
           k \in DOMAIN config' <=> k \in DOMAIN config,
           k \in DOMAIN config => config'[k] = config[k]
    PROVE  /\ FromFile(k, FileDefines(k)) => FromFile(k, FileDefines(k))'
           /\ Defaulted(k) => Defaulted(k)'
<1> DEFINE S == FileDefines(k)
<1>1. FileDefines(k)' = S
  BY SameFile
<1>2. \A i \in S : LineValue(i)' = LineValue(i)
  BY SameFile
<1>3. ASSUME FromFile(k, FileDefines(k)) PROVE FromFile(k, FileDefines(k))'
  <2>1. \/ S = {} /\ k \notin DOMAIN config
        \/ \E i \in S : /\ \A j \in S : j <= i
                        /\ k \in DOMAIN config /\ config[k] = Stored(k, LineValue(i))
    BY <1>3 DEF FromFile, Has
  <2>2. \/ S = {} /\ k \notin DOMAIN config'
        \/ \E i \in S : /\ \A j \in S : j <= i
                        /\ k \in DOMAIN config' /\ config'[k] = Stored(k, LineValue(i)')
    <3> HIDE DEF S
    <3> QED
      BY <1>2, <2>1
  <2> HIDE DEF S
  <2> QED
    BY <1>1, <2>2 DEF FromFile, Has
<1>4. Defaulted(k) => Defaulted(k)'
  BY <1>1 DEF Defaulted, Has
<1> QED
  BY <1>3, <1>4

\* At its end, the lines that are read are those of the file that count.
LEMMA FileRead ==
    ASSUME TypeOK, PlaceKept, phase = "parsing",
           lineno = Len(file) \/ lineno + 1 \in Errors, NEW k
    PROVE  {i \in 1..lineno : Says(i, k)} = FileDefines(k)
<1> DEFINE n == Len(file)
<1>1. /\ lineno \in Nat /\ n \in Nat /\ lineno <= n
      /\ lineno = n \/ lineno + 1 \in Errors
  BY LineNumbers DEF TypeOK
<1>2. Errors \in SUBSET Nat /\ \A e \in Errors : lineno < e
  <2>1. DOMAIN file \in SUBSET Nat
    BY LineNumbers
  <2> QED
    BY <2>1 DEF Errors, PlaceKept
<1>3. \A i \in Items \cup More : i \in 1..n
  <2>1. DOMAIN file = 1..n
    BY LineNumbers
  <2> HIDE DEF n
  <2> QED
    BY <2>1 DEF Items, More
<1> HIDE DEF n
<1>4. \A i \in Items \cup More : i \in 1..lineno <=> \A e \in Errors : i < e
  <2>1. ASSUME NEW i \in Items \cup More, i \in 1..lineno, NEW e \in Errors PROVE i < e
    <3>1. e \in Nat /\ lineno < e
      BY <1>2
    <3> QED
      BY <1>1, <2>1, <3>1
  <2>2. ASSUME NEW i \in Items \cup More, \A e \in Errors : i < e PROVE i \in 1..lineno
    <3>1. i \in 1..n
      BY <1>3
    <3>2. lineno + 1 \in Errors => i < lineno + 1
      BY <2>2
    <3> QED
      BY <1>1, <3>1, <3>2
  <2> QED
    BY <2>1, <2>2
<1>5. \A i \in FileDefines(k) : i \in 1..lineno /\ Says(i, k)
  BY <1>4, Zenon DEF Says, FileDefines
<1>6. \A i \in 1..lineno : Says(i, k) => i \in FileDefines(k)
  BY <1>4, Zenon DEF Says, FileDefines
<1> QED
  BY <1>5, <1>6

-----------------------------------------------------------------------------
(* Each action keeps the invariant.                                        *)

LEMMA KeysAndNumbers ==
    /\ Debug \in AllKeys
    /\ \A k \in AllKeys : Len(k) = 2
    /\ Sections \cap Names = {}
BY DEF Debug, AllKeys, Sections, Names

LEMMA InitInv == Init => BootInv
<1> SUFFICES ASSUME Init PROVE BootInv
  OBVIOUS
<1>1. TypeOK
  <2>1. environ \in Seq(Variable)
    BY EnvironmentsAssumption DEF Init
  <2>2. reloads \in 0..MaxReloads
    BY ReloadsAssumption DEF Init
  <2>3. \A k \in DOMAIN config : FALSE
    BY DEF Init
  <2> QED
    BY <2>1, <2>2, <2>3 DEF Init, TypeOK, Phases, Sections
<1>2. PlaceKept /\ ConfigKept /\ CutOnce /\ Connected
  BY DEF Init, PlaceKept, ConfigKept, CutOnce, Connected
<1>3. Filled
  <2>1. DOMAIN config = {}
    BY DEF Init
  <2> QED
    BY <2>1 DEF Init, Filled, Has
<1> QED
  BY <1>1, <1>2, <1>3 DEF BootInv

LEMMA LoadKeepsInv == ASSUME BootInv, Load PROVE BootInv'
<1>1. /\ phase' \in {"aborted", "parsing"} /\ phase = "unloaded"
      /\ phase' = "parsing" => file' # NONE
      /\ file' \in Files /\ config' = <<>> /\ lineno' = 0
      /\ section' = "none" /\ prev_name' = "none"
      /\ UNCHANGED <<environ, cut, log, databases, reloads>>
  BY DEF Load
<1>2. DOMAIN config' = {}
  BY <1>1
<1>3. TypeOK'
  <2>1. file' \in Seq(Line) \cup {NONE}
    BY <1>1, FilesAssumption
  <2>2. phase' = "parsing" => Len(file') \in Nat
    BY <1>1, <2>1
  <2>3. phase' = "parsing" => lineno' <= Len(file')
    BY <1>1, <2>2
  <2>4. environ \in Seq(Variable) /\ cut \subseteq DOMAIN environ
        /\ databases \subseteq {"db", "dbrw", "dbr"} /\ reloads \in 0..MaxReloads
    BY DEF BootInv, TypeOK
  <2> QED
    BY <1>1, <1>2, <2>1, <2>3, <2>4 DEF TypeOK, Phases, Sections
<1>4. PlaceKept'
  <2> SUFFICES ASSUME phase' = "parsing" PROVE PlaceKept'
    BY DEF PlaceKept
  <2>1. file' \in Seq(Line)
    BY <1>1, FilesAssumption
  <2>2. Headers' \in SUBSET (Nat \ {0}) /\ Errors' \in SUBSET (Nat \ {0})
    BY <2>1 DEF Headers, Errors
  <2>3. \A e \in Errors' : lineno' < e
    BY <1>1, <2>2
  <2>4. IsLast(0, Headers, lineno + 1)'
    BY <1>1, <2>2 DEF IsLast
  <2>5. ~Continuable(lineno + 1)'
    BY <1>1 DEF Continuable
  <2> QED
    BY <1>1, <2>3, <2>4, <2>5 DEF PlaceKept
<1>5. ConfigKept'
  <2>1. ASSUME NEW k \in AllKeys, phase' = "parsing"
        PROVE  FromFile(k, {i \in 1..lineno : Says(i, k)})'
    BY <1>1, <1>2 DEF FromFile, Has
  <2> QED
    BY <1>1, <2>1 DEF ConfigKept
<1>6. CutOnce'
  BY <1>1 DEF BootInv, CutOnce
<1>7. Filled' /\ Connected'
  BY <1>1, <1>2 DEF Filled, Connected, Has
<1> QED
  BY <1>3, <1>4, <1>5, <1>6, <1>7 DEF BootInv

\* A line that is read keeps the invariant: the process is gone, or the place
\* has moved on by that line and the configuration has what it says.
LEMMA LineKeepsInv ==
    ASSUME BootInv, phase = "parsing", lineno < Len(file), lineno + 1 \notin Errors,
           lineno' = lineno + 1, UNCHANGED <<environ, cut, file, log, databases, reloads>>,
           section' = IF lineno + 1 \in Headers THEN L.title ELSE section,
           prev_name' = IF lineno + 1 \in Headers THEN "none"
                        ELSE IF lineno + 1 \in Items THEN L.title ELSE prev_name,
           Filled', \A k \in DOMAIN config' : Len(k) = 2,
           \/ phase' = "aborted"
           \/ /\ phase' = "parsing"
              /\ \A k \in AllKeys :
                   \/ /\ ~Says(lineno + 1, k)
                      /\ k \in DOMAIN config' <=> k \in DOMAIN config
                      /\ k \in DOMAIN config => config'[k] = config[k]
                   \/ /\ Says(lineno + 1, k)
                      /\ k \in DOMAIN config' /\ config'[k] = Stored(k, LineValue(lineno + 1))
    PROVE  BootInv'
<1>1. TypeOK /\ PlaceKept /\ ConfigKept /\ CutOnce
  BY DEF BootInv
<1>2. phase' \in {"aborted", "parsing"} /\ file' = file
  OBVIOUS
<1>3. TypeOK'
  <2>1. /\ environ \in Seq(Variable) /\ cut \subseteq DOMAIN environ
        /\ file \in Seq(Line) \cup {NONE} /\ file # NONE
        /\ lineno \in Nat /\ section \in Sections /\ prev_name \in Names \cup {"none"}
        /\ databases \subseteq {"db", "dbrw", "dbr"} /\ reloads \in 0..MaxReloads
    BY <1>1 DEF TypeOK
  <2>2. /\ L \in Line
        /\ lineno + 1 \in Headers => L.kind = "section"
        /\ lineno + 1 \in Items => L.kind = "item"
    BY <1>1, NextLine
  <2>3. /\ L.kind = "section" => L.title \in Sections
        /\ L.kind = "item" => L.title \in Names
    BY <2>2, LineKinds
  <2>4. section' \in Sections /\ prev_name' \in Names \cup {"none"}
    BY <2>1, <2>2, <2>3
  <2>5. Len(file) \in Nat
    BY <1>1, LineNumbers
  <2>6. lineno' \in Nat /\ lineno' <= Len(file')
    BY <1>2, <2>1, <2>5
  <2> QED
    BY <1>2, <2>1, <2>4, <2>6 DEF TypeOK, Phases
<1>4. PlaceKept'
  BY <1>1, <1>2, PlaceNext
<1>5. ConfigKept'
  <2>1. ASSUME NEW k \in AllKeys, phase' = "parsing"
        PROVE  FromFile(k, {i \in 1..lineno : Says(i, k)})'
    <3>1. FromFile(k, {i \in 1..lineno : Says(i, k)})
      BY <1>1 DEF ConfigKept
    <3> QED
      BY <1>1, <2>1, <3>1, FileNext
  <2> QED
    BY <1>2, <2>1 DEF ConfigKept
<1>6. CutOnce' /\ Connected'
  BY <1>1, <1>2 DEF CutOnce, Connected
<1> QED
  BY <1>3, <1>4, <1>5, <1>6 DEF BootInv

LEMMA QuietLineKeepsInv ==
    ASSUME BootInv, SkipLine \/ ReadSection
    PROVE  BootInv'
<1>1. /\ phase = "parsing" /\ lineno < Len(file) /\ lineno' = lineno + 1 /\ phase' = phase
      /\ config' = config /\ UNCHANGED <<environ, cut, file, log, databases, reloads>>
  BY DEF SkipLine, ReadSection, Reading, Read, Elsewhere
<1>2. TypeOK /\ PlaceKept /\ Filled
  BY DEF BootInv
<1>3. /\ L = file[lineno + 1]
      /\ lineno + 1 \in Headers <=> L.kind = "section" /\ ~Continuing
      /\ lineno + 1 \in Items <=> L.kind = "item" /\ ~Continuing
      /\ lineno + 1 \in More <=> L.kind # "comment" /\ Continuing
      /\ lineno + 1 \in Errors <=> L.kind = "broken" /\ ~Continuing
  BY <1>1, <1>2, NextLine
<1>4. /\ lineno + 1 \notin Items /\ lineno + 1 \notin More /\ lineno + 1 \notin Errors
      /\ section' = IF lineno + 1 \in Headers THEN L.title ELSE section
      /\ prev_name' = IF lineno + 1 \in Headers THEN "none"
                      ELSE IF lineno + 1 \in Items THEN L.title ELSE prev_name
  <2>1. CASE SkipLine
    <3>1. L.kind = "comment" /\ section' = section /\ prev_name' = prev_name
      BY <1>3, <2>1 DEF SkipLine, Reading
    <3> QED
      BY <1>3, <3>1
  <2>2. CASE ReadSection
    <3>1. L.kind = "section" /\ ~Continuing /\ section' = L.title /\ prev_name' = "none"
      BY <1>3, <2>2, Zenon DEF ReadSection, Reading
    <3> QED
      BY <1>3, <3>1
  <2> QED
    BY <2>1, <2>2
<1>5. \A k \in AllKeys : ~Says(lineno + 1, k)
  BY <1>4 DEF Says
<1>6. Filled' /\ \A k \in DOMAIN config' : Len(k) = 2
  BY <1>1, <1>2 DEF Filled, Has, TypeOK
<1> QED
  BY <1>1, <1>4, <1>5, <1>6, LineKeepsInv

\* A definition that is handled is one for its own key, if that is a key.
LEMMA HandleSays ==
    ASSUME NEW s, NEW n, NEW v, Handle(s, n, v, phase), NEW k \in AllKeys
    PROVE  \/ phase' = "aborted"
           \/ /\ k # KeyOf(s, n)
              /\ k \in DOMAIN config' <=> k \in DOMAIN config
              /\ k \in DOMAIN config => config'[k] = config[k]
           \/ k = KeyOf(s, n) /\ k \in DOMAIN config' /\ config'[k] = Stored(k, v)
<1> SUFFICES ASSUME phase' # "aborted"
             PROVE  \/ /\ k # KeyOf(s, n)
                       /\ k \in DOMAIN config' <=> k \in DOMAIN config
                       /\ k \in DOMAIN config => config'[k] = config[k]
                    \/ k = KeyOf(s, n) /\ k \in DOMAIN config' /\ config'[k] = Stored(k, v)
  OBVIOUS
<1>1. load_config_tree(s, n, v)
  BY DEF Handle
<1>2. CASE n = "instance"
  <2>1. config' = config /\ k # KeyOf(s, n)
    BY <1>1, <1>2, KeyShape DEF load_config_tree
  <2> QED
    BY <2>1
<1>3. CASE n # "instance"
  <2>1. config' = With(config, KeyOf(s, n), Stored(KeyOf(s, n), v))
    BY <1>1, <1>3 DEF load_config_tree
  <2> DEFINE K == KeyOf(s, n)
             V == Stored(K, v)
             c == With(config, K, V)
  <2>2. /\ DOMAIN c = DOMAIN config \cup {K} /\ c[K] = V
        /\ \A l \in DOMAIN config : l # K => c[l] = config[l]
    <3> HIDE DEF K, V
    <3> QED
      BY DEF With
  <2>3. config' = c
    BY <2>1
  <2> HIDE DEF K, c
  <2>4. \/ /\ k # K
           /\ k \in DOMAIN config' <=> k \in DOMAIN config
           /\ k \in DOMAIN config => config'[k] = config[k]
        \/ k = K /\ k \in DOMAIN config' /\ config'[k] = Stored(k, v)
    BY <2>2, <2>3 DEF V
  <2> QED
    BY <2>4 DEF K
<1> QED
  BY <1>2, <1>3

LEMMA SayingLineKeepsInv ==
    ASSUME BootInv, ReadItem \/ ReadContinuation
    PROVE  BootInv'
<1> DEFINE i == lineno + 1
<1>1. TypeOK /\ PlaceKept /\ Filled /\ \A k \in DOMAIN config : Len(k) = 2
  BY DEF BootInv, TypeOK
<1>2. /\ phase = "parsing" /\ lineno < Len(file) /\ lineno' = i
      /\ UNCHANGED <<environ, cut, file, log, databases, reloads>> /\ section' = section
  BY DEF ReadItem, ReadContinuation, Reading, Read, Elsewhere
<1>3. /\ L = file[i]
      /\ i \in Headers <=> L.kind = "section" /\ ~Continuing
      /\ i \in Items <=> L.kind = "item" /\ ~Continuing
      /\ i \in More <=> L.kind # "comment" /\ Continuing
      /\ i \in Errors <=> L.kind = "broken" /\ ~Continuing
      /\ section = SectionOf(i)
      /\ i \in Items => NameOf(i) = L.title
      /\ i \in More => NameOf(i) = prev_name
  BY <1>1, <1>2, NextLine
<1>4. /\ i \in Items \cup More /\ i \notin Headers /\ i \notin Errors
      /\ prev_name' = IF i \in Items THEN L.title ELSE prev_name
      /\ Handle(SectionOf(i), NameOf(i), LineValue(i), phase)
  <2>1. CASE ReadItem
    <3>1. L.kind = "item" /\ ~Continuing /\ prev_name' = L.title
          /\ Handle(section, L.title, L.value, phase)
      BY <1>3, <2>1, Zenon DEF ReadItem, Reading
    <3>2. i \in Items
      BY <1>3, <3>1
    <3>3. LineValue(i) = L.value
      BY <1>3, <3>2 DEF LineValue
    <3>4. section = SectionOf(i) /\ L.title = NameOf(i)
      BY <1>3, <3>2
    <3>5. Handle(SectionOf(i), NameOf(i), LineValue(i), phase)
      BY <3>1, <3>3, <3>4
    <3> QED
      BY <1>3, <3>1, <3>2, <3>5
  <2>2. CASE ReadContinuation
    <3>1. /\ L.kind \in {"item", "section", "broken"} /\ Continuing /\ prev_name' = prev_name
          /\ Handle(section, prev_name, Text(L), phase)
      BY <1>3, <2>2 DEF ReadContinuation, Reading
    <3>2. i \in More /\ i \notin Items
      BY <1>3, <3>1
    <3>3. LineValue(i) = Text(L)
      BY <1>3, <3>2 DEF LineValue
    <3>4. section = SectionOf(i) /\ prev_name = NameOf(i)
      BY <1>3, <3>2
    <3>5. Handle(SectionOf(i), NameOf(i), LineValue(i), phase)
      BY <3>1, <3>3, <3>4
    <3> QED
      BY <1>3, <3>1, <3>2, <3>5
  <2> QED
    BY <2>1, <2>2
<1>5. Filled' /\ \A k \in DOMAIN config' : Len(k) = 2
  BY <1>1, <1>4, HandleFills
<1>6. phase' \in {"aborted", "parsing"}
  BY <1>2, <1>4, HandleDoes
<1>7. ASSUME NEW k \in AllKeys, phase' # "aborted"
      PROVE  \/ /\ ~Says(i, k)
                /\ k \in DOMAIN config' <=> k \in DOMAIN config
                /\ k \in DOMAIN config => config'[k] = config[k]
             \/ /\ Says(i, k)
                /\ k \in DOMAIN config' /\ config'[k] = Stored(k, LineValue(i))
  <2>1. \/ /\ k # KeyOf(SectionOf(i), NameOf(i))
           /\ k \in DOMAIN config' <=> k \in DOMAIN config
           /\ k \in DOMAIN config => config'[k] = config[k]
        \/ /\ k = KeyOf(SectionOf(i), NameOf(i))
           /\ k \in DOMAIN config' /\ config'[k] = Stored(k, LineValue(i))
    BY <1>4, <1>7, HandleSays
  <2>2. Says(i, k) <=> k = KeyOf(SectionOf(i), NameOf(i))
    BY <1>4 DEF Says
  <2> QED
    BY <2>1, <2>2
<1> QED
  BY <1>2, <1>3, <1>4, <1>5, <1>6, <1>7, LineKeepsInv

LEMMA EndOfFileKeepsInv == ASSUME BootInv, EndOfFile PROVE BootInv'
<1>1. /\ phase = "parsing" /\ phase' = "checking" /\ lineno' = 0
      /\ section' = "none" /\ prev_name' = "none"
      /\ UNCHANGED <<config, environ, cut, file, log, databases, reloads>>
      /\ lineno = Len(file) \/ (lineno < Len(file) /\ L.kind = "broken" /\ ~Continuing)
  BY Zenon DEF EndOfFile, Reading, Elsewhere, L
<1>2. TypeOK /\ PlaceKept /\ ConfigKept /\ CutOnce /\ Filled
  BY DEF BootInv
<1>3. lineno = Len(file) \/ lineno + 1 \in Errors
  BY <1>1, <1>2, NextLine
<1>4. TypeOK'
  BY <1>1, <1>2 DEF TypeOK, Phases, Sections
<1>5. ConfigKept'
  <2>1. ASSUME NEW k \in AllKeys PROVE FromFile(k, FileDefines(k))'
    <3>1. FromFile(k, {i \in 1..lineno : Says(i, k)})
      BY <1>1, <1>2 DEF ConfigKept
    <3>2. FromFile(k, FileDefines(k))
      BY <1>1, <1>2, <1>3, <3>1, FileRead
    <3> QED
      BY <1>1, <3>2, FileKept
  <2> QED
    BY <1>1, <2>1 DEF ConfigKept
<1>6. CutOnce' /\ Filled' /\ PlaceKept' /\ Connected'
  BY <1>1, <1>2 DEF CutOnce, Filled, Has, PlaceKept, Connected
<1> QED
  BY <1>4, <1>5, <1>6 DEF BootInv

LEMMA validate_configKeepsInv == ASSUME BootInv, validate_config PROVE BootInv'
<1>1. /\ phase = "checking" /\ phase' \in {"aborted", "logging"}
      /\ UNCHANGED <<lineno, section, prev_name, environ, cut, file, log, databases, reloads>>
      /\ phase' = "logging" => Required \subseteq DOMAIN config
      /\ phase' = "aborted" => config' = config
      /\ phase' = "logging" => config' = IF Has(Debug) THEN config ELSE With(config, Debug, <<"0">>)
  BY DEF validate_config, Elsewhere, Has
<1>2. TypeOK /\ ConfigKept /\ CutOnce /\ Filled
  BY DEF BootInv
<1>3. \/ config' = config /\ (phase' = "logging" => Has(Debug))
      \/ /\ ~Has(Debug) /\ phase' = "logging"
         /\ DOMAIN config' = DOMAIN config \cup {Debug} /\ config'[Debug] = <<"0">>
         /\ \A l \in DOMAIN config : config'[l] = config[l]
  <2>1. CASE phase' = "logging" /\ ~Has(Debug)
    <3>1. config' = With(config, Debug, <<"0">>)
      BY <1>1, <2>1
    <3>2. /\ DOMAIN config' = DOMAIN config \cup {Debug} /\ config'[Debug] = <<"0">>
          /\ \A l \in DOMAIN config : l # Debug => config'[l] = config[l]
      BY <3>1 DEF With
    <3> QED
      BY <2>1, <3>2 DEF Has
  <2>2. CASE phase' = "aborted" \/ Has(Debug)
    BY <1>1, <2>2
  <2> QED
    BY <1>1, <2>1, <2>2
<1>4. TypeOK'
  <2>1. \A k \in DOMAIN config' : Len(k) = 2
    <3>1. \A k \in DOMAIN config : Len(k) = 2
      BY <1>2 DEF TypeOK
    <3> QED
      BY <1>3, <3>1, KeysAndNumbers
  <2> QED
    BY <1>1, <1>2, <2>1 DEF TypeOK, Phases
<1>5. ConfigKept'
  <2>1. ASSUME NEW k \in AllKeys, phase' = "logging"
        PROVE  FromFile(k, FileDefines(k))' \/ Defaulted(k)'
    <3>1. FromFile(k, FileDefines(k))
      BY <1>1, <1>2 DEF ConfigKept
    <3>2. CASE config' = config \/ k # Debug
      <4>1. /\ k \in DOMAIN config' <=> k \in DOMAIN config
            /\ k \in DOMAIN config => config'[k] = config[k]
        BY <1>3, <3>2
      <4> QED
        BY <1>1, <3>1, <4>1, FileKept
    <3>3. CASE config' # config /\ k = Debug
      <4>1. ~Has(k) /\ Has(k)' /\ config'[k] = <<"0">>
        BY <1>3, <3>3 DEF Has
      <4>2. FileDefines(k)' = FileDefines(k) /\ FileDefines(k) = {}
        BY <1>1, <3>1, <4>1, SameFile DEF FromFile
      <4> QED
        BY <3>3, <4>1, <4>2 DEF Defaulted
    <3> QED
      BY <3>2, <3>3
  <2> QED
    BY <1>1, <2>1 DEF ConfigKept
<1>6. Filled'
  <2>1. \A k \in DOMAIN config' : k[1] = "app" => config'[k] # <<>>
    BY <1>2, <1>3 DEF Filled, Debug
  <2>2. Debug \in DOMAIN config' => config'[Debug] \in {<<"0">>, <<"1">>}
    BY <1>2, <1>3 DEF Filled, Has
  <2>3. phase' = "logging" => Required \cup {Debug} \subseteq DOMAIN config'
    BY <1>1, <1>3 DEF Has
  <2> QED
    BY <1>1, <2>1, <2>2, <2>3 DEF Filled, Has
<1>7. CutOnce' /\ PlaceKept' /\ Connected'
  BY <1>1, <1>2 DEF CutOnce, PlaceKept, Connected
<1> QED
  BY <1>4, <1>5, <1>6, <1>7 DEF BootInv

\* What is said of the keys stays while the variables that are taken do.
LEMMA SaidKept ==
    ASSUME BootInv, phase \in {"environment", "bootstrap", "running"},
           UNCHANGED <<environ, file, config, reloads>>,
           lineno' = lineno \/ reloads > 0
    PROVE  \A k \in AllKeys : Clear(k)' =>
             IF Taken(k)' = {} THEN FromFile(k, FileDefines(k))' \/ Defaulted(k)'
             ELSE \E i \in Taken(k)' : /\ \A j \in Taken(k)' : j <= i
                                       /\ Has(k)' /\ config'[k] = Stored(k, environ'[i].value)
<1> SUFFICES ASSUME NEW k \in AllKeys, Clear(k)'
             PROVE  IF Taken(k)' = {} THEN FromFile(k, FileDefines(k))' \/ Defaulted(k)'
                    ELSE \E i \in Taken(k)' : /\ \A j \in Taken(k)' : j <= i
                                              /\ Has(k)'
                                                 /\ config'[k] = Stored(k, environ'[i].value)
  OBVIOUS
<1>1. Clear(k)
  BY DEF Clear
<1>2. Taken(k)' = Taken(k)
  <2>1. reloads \in Nat
    BY DEF BootInv, TypeOK
  <2>2. VariablesFor(k)' = VariablesFor(k)
    BY DEF VariablesFor
  <2> QED
    BY <2>1, <2>2 DEF Taken
<1>3. IF Taken(k) = {} THEN FromFile(k, FileDefines(k)) \/ Defaulted(k)
      ELSE \E i \in Taken(k) : /\ \A j \in Taken(k) : j <= i
                               /\ Has(k) /\ config[k] = Stored(k, environ[i].value)
  BY <1>1 DEF BootInv, ConfigKept
<1>4. /\ FromFile(k, FileDefines(k)) => FromFile(k, FileDefines(k))'
      /\ Defaulted(k) => Defaulted(k)'
  BY FileKept
<1>5. Has(k)' <=> Has(k)
  BY DEF Has
<1> QED
  BY <1>2, <1>3, <1>4, <1>5

LEMMA OpenLogKeepsInv == ASSUME BootInv, OpenLog PROVE BootInv'
<1>1. /\ phase = "logging" /\ phase' = "environment"
      /\ UNCHANGED <<environ, cut, file, lineno, section, prev_name, config, databases, reloads>>
  BY DEF OpenLog
<1>2. TypeOK /\ ConfigKept /\ CutOnce /\ Filled /\ lineno = 0
      /\ DOMAIN environ \in SUBSET (Nat \ {0})
  BY <1>1 DEF BootInv, TypeOK
<1>3. TypeOK'
  <2>1. Len(environ) \in Nat
    BY <1>2 DEF TypeOK
  <2> QED
    BY <1>1, <1>2, <2>1 DEF TypeOK, Phases
<1>4. ConfigKept'
  <2>1. ASSUME NEW k \in AllKeys
        PROVE  Taken(k)' = {} /\ (FromFile(k, FileDefines(k))' \/ Defaulted(k)')
    <3>1. FromFile(k, FileDefines(k)) \/ Defaulted(k)
      BY <1>1, <1>2 DEF ConfigKept
    <3>2. \A i \in VariablesFor(k) : ~(i <= 0)
      BY <1>2 DEF VariablesFor
    <3>3. VariablesFor(k)' = VariablesFor(k)
      BY <1>1 DEF VariablesFor
    <3>4. Taken(k)' = {}
      BY <1>1, <1>2, <3>2, <3>3 DEF Taken
    <3> QED
      BY <1>1, <3>1, <3>4, FileKept
  <2> QED
    BY <1>1, <2>1 DEF ConfigKept
<1>5. CutOnce'
  BY <1>1, <1>2 DEF CutOnce
<1>6. Filled' /\ PlaceKept' /\ Connected'
  BY <1>1, <1>2 DEF Filled, Has, PlaceKept, Connected
<1> QED
  BY <1>3, <1>4, <1>5, <1>6 DEF BootInv

LEMMA SkipVariableKeepsInv == ASSUME BootInv, SkipVariable PROVE BootInv'
<1>1. /\ phase = "environment" /\ phase' = phase /\ lineno < Len(environ) /\ lineno' = lineno + 1
      /\ lineno + 1 \in cut
      /\ UNCHANGED <<environ, cut, file, section, prev_name, config, databases, reloads>>
  BY DEF SkipVariable, Read
<1>2. TypeOK /\ CutOnce /\ Filled /\ lineno \in Nat /\ Len(environ) \in Nat /\ reloads \in Nat
  BY DEF BootInv, TypeOK
<1>3. reloads > 0
  <2>1. lineno + 1 \notin 1..lineno
    BY <1>2
  <2> QED
    BY <1>1, <1>2, <2>1 DEF CutOnce
<1>4. TypeOK'
  BY <1>1, <1>2 DEF TypeOK
<1>5. ConfigKept'
  BY <1>1, <1>3, SaidKept DEF ConfigKept
<1>6. CutOnce' /\ Filled' /\ PlaceKept' /\ Connected'
  BY <1>1, <1>2, <1>3 DEF CutOnce, Filled, Has, PlaceKept, Connected
<1> QED
  BY <1>4, <1>5, <1>6 DEF BootInv

LEMMA EndOfEnvironmentKeepsInv == ASSUME BootInv, EndOfEnvironment PROVE BootInv'
<1>1. /\ phase = "environment" /\ phase' = "bootstrap" /\ lineno = Len(environ)
      /\ UNCHANGED <<environ, cut, file, lineno, section, prev_name, config, databases, reloads>>
  BY DEF EndOfEnvironment, Elsewhere
<1>2. TypeOK /\ CutOnce /\ Filled
  BY DEF BootInv
<1>3. TypeOK'
  BY <1>1, <1>2 DEF TypeOK, Phases
<1>4. ConfigKept'
  BY <1>1, SaidKept DEF ConfigKept
<1>5. CutOnce' /\ Filled' /\ PlaceKept' /\ Connected'
  BY <1>1, <1>2 DEF CutOnce, Filled, Has, PlaceKept, Connected
<1> QED
  BY <1>3, <1>4, <1>5 DEF BootInv

LEMMA BootstrapKeepsInv == ASSUME BootInv, Bootstrap PROVE BootInv'
<1>1. /\ phase = "bootstrap" /\ phase' = "running"
      /\ databases' = databases \cup IF Has(<<"db", "name">>) THEN {"db"}
                                    ELSE {d \in {"dbrw", "dbr"} : Has(<<d, "name">>)}
      /\ UNCHANGED <<environ, cut, file, lineno, section, prev_name, config, reloads>>
  BY DEF Bootstrap
<1>2. TypeOK /\ CutOnce /\ Filled
  BY DEF BootInv
<1>3. TypeOK'
  <2>1. databases' \subseteq {"db", "dbrw", "dbr"}
    BY <1>1, <1>2 DEF TypeOK
  <2> QED
    BY <1>1, <1>2, <2>1 DEF TypeOK, Phases
<1>4. ConfigKept'
  BY <1>1, SaidKept DEF ConfigKept
<1>5. Connected'
  <2>1. Has(<<"dbrw", "name">>) /\ ~Has(<<"db", "name">>) => "dbrw" \in databases'
    BY <1>1
  <2> QED
    BY <1>1, <2>1 DEF Connected, Has
<1>6. CutOnce' /\ Filled' /\ PlaceKept'
  BY <1>1, <1>2 DEF CutOnce, Filled, Has, PlaceKept
<1> QED
  BY <1>3, <1>4, <1>5, <1>6 DEF BootInv

LEMMA ReleaseKeepsInv == ASSUME BootInv, Release PROVE BootInv'
<1>1. /\ phase = "running" /\ phase' \in {"unloaded", "crashed"}
      /\ reloads < MaxReloads /\ reloads' = reloads + 1 /\ file' = NONE
      /\ config' = <<>> \/ config' = config
      /\ UNCHANGED <<environ, cut, lineno, section, prev_name, databases>>
  BY DEF Release
<1>2. /\ TypeOK /\ CutOnce /\ Filled /\ reloads \in 0..MaxReloads /\ MaxReloads \in Nat
      /\ environ \in Seq(Variable)
  BY ReloadsAssumption DEF BootInv, TypeOK
<1>3. DOMAIN config' = {} \/ config' = config
  <2>1. DOMAIN <<>> = {}
    OBVIOUS
  <2> QED
    BY <1>1, <2>1
<1>4. TypeOK'
  <2>1. reloads' \in 0..MaxReloads
    BY <1>1, <1>2
  <2>2. \A k \in DOMAIN config' : Len(k) = 2
    BY <1>2, <1>3 DEF TypeOK
  <2> QED
    BY <1>1, <1>2, <2>1, <2>2 DEF TypeOK, Phases
<1>5. Filled'
  BY <1>1, <1>2, <1>3 DEF Filled, Has
<1>6. CutOnce'
  <2>1. cut = DOMAIN environ
    <3>1. reloads = 0 \/ reloads > 0
      BY <1>2
    <3>2. DOMAIN environ = 1..Len(environ)
      BY <1>2
    <3>3. CASE reloads = 0
      <4>1. cut = 1..lineno /\ lineno = Len(environ)
        BY <1>1, <1>2, <3>3 DEF CutOnce
      <4> QED
        BY <3>2, <4>1
    <3>4. CASE reloads > 0
      BY <1>2, <3>4 DEF CutOnce
    <3> QED
      BY <3>1, <3>3, <3>4
  <2>2. reloads' # 0
    BY <1>1, <1>2
  <2> QED
    BY <1>1, <2>1, <2>2 DEF CutOnce
<1>7. PlaceKept' /\ ConfigKept' /\ Connected'
  BY <1>1 DEF PlaceKept, ConfigKept, Connected
<1> QED
  BY <1>4, <1>5, <1>6, <1>7 DEF BootInv

\* A variable that is taken is the last one said so far for its own key, and
\* says nothing of the other keys; one that is misread says nothing of a key
\* that is clear.
LEMMA TakeVariableDoes ==
    ASSUME BootInv, TakeVariable, phase' # "aborted", NEW k \in AllKeys, Clear(k)
    PROVE  \/ /\ lineno + 1 \notin VariablesFor(k)
              /\ k \in DOMAIN config' <=> k \in DOMAIN config
              /\ k \in DOMAIN config => config'[k] = config[k]
           \/ /\ lineno + 1 \in VariablesFor(k)
              /\ k \in DOMAIN config' /\ config'[k] = Stored(k, environ[lineno + 1].value)
<1>1. /\ environ \in Seq(Variable) /\ lineno \in Nat /\ lineno < Len(environ)
      /\ \/ ~Misread /\ Handle(Var.section, Var.name, Var.value, phase)
         \/ Misread /\ Handle(Var.name, Var.value[2], <<Var.value[1]>>, phase)
  BY DEF TakeVariable, BootInv, TypeOK
<1>2. lineno + 1 \in DOMAIN environ /\ Var = environ[lineno + 1] /\ Var \in Variable
  BY <1>1 DEF Var
<1>3. lineno + 1 \in VariablesFor(k) <=> k = KeyOf(Var.section, Var.name)
  BY <1>2 DEF VariablesFor
<1>4. CASE ~Misread
  <2>1. Handle(Var.section, Var.name, Var.value, phase)
    BY <1>1, <1>4
  <2>2. \/ /\ k # KeyOf(Var.section, Var.name)
           /\ k \in DOMAIN config' <=> k \in DOMAIN config
           /\ k \in DOMAIN config => config'[k] = config[k]
        \/ /\ k = KeyOf(Var.section, Var.name)
           /\ k \in DOMAIN config' /\ config'[k] = Stored(k, Var.value)
    BY <2>1, HandleSays
  <2> QED
    BY <1>2, <1>3, <2>2
<1>5. CASE Misread
  <2>1. Var.section = "none" /\ Len(Var.value) = 2
    BY <1>5 DEF Misread, Bare
  <2>2. k[1] # "none"
    <3>1. Len(Var.value) > 1
      BY <2>1
    <3>2. HasUnderscore(environ[lineno + 1])
      BY <1>2, <2>1, <3>1 DEF HasUnderscore
    <3> QED
      BY <1>2, <3>2, Zenon DEF Clear
  <2>3. k # KeyOf(Var.section, Var.name)
    BY <2>1, <2>2, KeyShape
  <2>4. k # KeyOf(Var.name, Var.value[2])
    <3>1. Var.name \in Names /\ k[1] \in Sections
      BY <1>2 DEF Variable, AllKeys
    <3>2. k[1] # Var.name
      BY <3>1, KeysAndNumbers
    <3> QED
      BY <2>2, <3>2, KeyShape
  <2>5. Handle(Var.name, Var.value[2], <<Var.value[1]>>, phase)
    BY <1>1, <1>5
  <2>6. /\ k \in DOMAIN config' <=> k \in DOMAIN config
        /\ k \in DOMAIN config => config'[k] = config[k]
    BY <2>4, <2>5, HandleSays
  <2> QED
    BY <1>3, <2>3, <2>6
<1> QED
  BY <1>4, <1>5

LEMMA TakeVariableKeepsInv == ASSUME BootInv, TakeVariable PROVE BootInv'
<1>1. /\ phase = "environment" /\ lineno < Len(environ) /\ lineno' = lineno + 1
      /\ lineno + 1 \notin cut /\ cut' = cut \cup {lineno + 1}
      /\ UNCHANGED <<section, prev_name, environ, file, log, databases, reloads>>
  BY DEF TakeVariable, Read
<1>2. /\ TypeOK /\ ConfigKept /\ CutOnce /\ Filled /\ \A k \in DOMAIN config : Len(k) = 2
      /\ lineno \in Nat /\ Len(environ) \in Nat /\ environ \in Seq(Variable)
      /\ reloads \in Nat
  BY DEF BootInv, TypeOK
<1>3. lineno + 1 \in DOMAIN environ
  BY <1>1, <1>2
<1>4. reloads = 0 /\ cut = 1..lineno
  <2>1. ~(reloads > 0)
    BY <1>1, <1>2, <1>3 DEF CutOnce
  <2> QED
    BY <1>1, <1>2, <2>1 DEF CutOnce
<1>5. PICK s, n, v : Handle(s, n, v, phase)
  BY Zenon DEF TakeVariable
<1>6. phase' \in {"aborted", "environment"}
  BY <1>1, <1>5, HandleDoes
<1>7. Filled' /\ \A k \in DOMAIN config' : Len(k) = 2
  BY <1>2, <1>5, HandleFills
<1>8. TypeOK'
  <2>1. cut' \subseteq DOMAIN environ'
    BY <1>1, <1>2, <1>3 DEF TypeOK
  <2> QED
    BY <1>1, <1>2, <1>6, <1>7, <2>1 DEF TypeOK, Phases
<1>9. CutOnce'
  <2>1. cut' = 1..lineno'
    BY <1>1, <1>2, <1>4
  <2> QED
    BY <1>1, <1>4, <1>6, <2>1 DEF CutOnce
<1>10. ConfigKept'
  <2>1. ASSUME NEW k \in AllKeys, phase' = "environment", Clear(k)'
        PROVE  IF Taken(k)' = {} THEN FromFile(k, FileDefines(k))' \/ Defaulted(k)'
               ELSE \E i \in Taken(k)' : /\ \A j \in Taken(k)' : j <= i
                                         /\ Has(k)' /\ config'[k] = Stored(k, environ'[i].value)
    <3>1. Clear(k)
      BY <1>1, <2>1 DEF Clear
    <3>2. \/ /\ lineno + 1 \notin VariablesFor(k)
             /\ k \in DOMAIN config' <=> k \in DOMAIN config
             /\ k \in DOMAIN config => config'[k] = config[k]
          \/ /\ lineno + 1 \in VariablesFor(k)
             /\ k \in DOMAIN config' /\ config'[k] = Stored(k, environ[lineno + 1].value)
      BY <2>1, <3>1, TakeVariableDoes
    <3> DEFINE V == VariablesFor(k)
    <3>3. Taken(k)' = {i \in V : i <= lineno + 1} /\ Taken(k) = {i \in V : i <= lineno}
      <4>1. VariablesFor(k)' = V
        BY <1>1 DEF VariablesFor
      <4> HIDE DEF V
      <4> QED
        BY <1>1, <1>4, <4>1 DEF Taken, V
    <3>4. V \in SUBSET Nat
      BY <1>2 DEF VariablesFor
    <3>5. CASE lineno + 1 \in V
      <4>1. lineno + 1 \in Taken(k)' /\ \A j \in Taken(k)' : j <= lineno + 1
        BY <1>2, <3>3, <3>5
      <4>2. Has(k)' /\ config'[k] = Stored(k, environ'[lineno + 1].value)
        BY <1>1, <3>2, <3>5 DEF Has
      <4> QED
        BY <4>1, <4>2
    <3>6. CASE lineno + 1 \notin V
      <4>1. Taken(k)' = Taken(k)
        <5> HIDE DEF V
        <5>1. \A i \in V : i <= lineno + 1 <=> i <= lineno
          BY <1>2, <3>4, <3>6
        <5> QED
          BY <3>3, <5>1
      <4>2. /\ k \in DOMAIN config' <=> k \in DOMAIN config
            /\ k \in DOMAIN config => config'[k] = config[k]
        BY <3>2, <3>6
      <4>3. /\ FromFile(k, FileDefines(k)) => FromFile(k, FileDefines(k))'
            /\ Defaulted(k) => Defaulted(k)'
        BY <1>1, <4>2, FileKept
      <4>4. IF Taken(k) = {} THEN FromFile(k, FileDefines(k)) \/ Defaulted(k)
            ELSE \E i \in Taken(k) : /\ \A j \in Taken(k) : j <= i
                                     /\ Has(k) /\ config[k] = Stored(k, environ[i].value)
        BY <1>1, <1>2, <3>1 DEF ConfigKept
      <4>5. /\ Has(k) => Has(k)'
            /\ Has(k) => config'[k] = config[k] /\ environ' = environ
        BY <1>1, <4>2 DEF Has
      <4> QED
        BY <4>1, <4>3, <4>4, <4>5
    <3> QED
      BY <3>5, <3>6
  <2> QED
    BY <1>6, <2>1 DEF ConfigKept
<1>11. PlaceKept' /\ Connected'
  BY <1>6 DEF PlaceKept, Connected
<1> QED
  BY <1>7, <1>8, <1>9, <1>10, <1>11 DEF BootInv

LEMMA NextInv == BootInv /\ [Next]_vars => BootInv'
<1> SUFFICES ASSUME BootInv, [Next]_vars PROVE BootInv'
  OBVIOUS
<1>1. CASE Load
  BY <1>1, LoadKeepsInv
<1>2. CASE SkipLine \/ ReadSection
  BY <1>2, QuietLineKeepsInv
<1>3. CASE ReadItem \/ ReadContinuation
  BY <1>3, SayingLineKeepsInv
<1>4. CASE EndOfFile
  BY <1>4, EndOfFileKeepsInv
<1>5. CASE validate_config
  BY <1>5, validate_configKeepsInv
<1>6. CASE OpenLog
  BY <1>6, OpenLogKeepsInv
<1>7. CASE SkipVariable
  BY <1>7, SkipVariableKeepsInv
<1>8. CASE TakeVariable
  BY <1>8, TakeVariableKeepsInv
<1>9. CASE EndOfEnvironment
  BY <1>9, EndOfEnvironmentKeepsInv
<1>10. CASE Bootstrap
  BY <1>10, BootstrapKeepsInv
<1>11. CASE Release
  BY <1>11, ReleaseKeepsInv
<1>12. CASE UNCHANGED vars
  <2>1. UNCHANGED <<phase, environ, cut, file, lineno, section, prev_name, config, databases,
                    reloads>>
    BY <1>12 DEF vars
  <2>2. TypeOK' /\ CutOnce' /\ Filled' /\ Connected'
    BY <2>1 DEF BootInv, TypeOK, CutOnce, Filled, Connected, Has
  <2>3. PlaceKept'
    <3>1. Headers' = Headers /\ Items' = Items /\ Errors' = Errors
      BY <2>1, SameFile
    <3>2. Continuable(lineno + 1)' <=> Continuable(lineno + 1)
      BY <2>1 DEF Continuable
    <3> QED
      BY <2>1, <3>1, <3>2 DEF BootInv, PlaceKept
  <2>4. ConfigKept'
    <3>1. ASSUME NEW k \in AllKeys, phase' = "parsing"
          PROVE  FromFile(k, {i \in 1..lineno : Says(i, k)})'
      <4> DEFINE S == {i \in 1..lineno : Says(i, k)}
      <4>1. FromFile(k, S)
        BY <2>1, <3>1 DEF BootInv, ConfigKept
      <4>2. S' = S /\ \A i \in S : LineValue(i)' = LineValue(i)
        BY <2>1, SameFile
      <4> HIDE DEF S
      <4>3. FromFile(k, S)'
        BY <2>1, <4>1, <4>2 DEF FromFile, Has
      <4> QED
        BY <4>3 DEF S
    <3>2. ASSUME NEW k \in AllKeys
          PROVE  /\ phase' = "checking" => FromFile(k, FileDefines(k))'
                 /\ phase' = "logging" => FromFile(k, FileDefines(k))' \/ Defaulted(k)'
      BY <2>1, FileKept DEF BootInv, ConfigKept
    <3> QED
      BY <2>1, <3>1, <3>2, SaidKept DEF ConfigKept
  <2> QED
    BY <2>2, <2>3, <2>4 DEF BootInv
<1> QED
  BY <1>1, <1>2, <1>3, <1>4, <1>5, <1>6, <1>7, <1>8, <1>9, <1>10, <1>11, <1>12 DEF Next, Boot

\* What every reachable state satisfies.
LEMMA BootInvariant == Spec => []BootInv
<1>1. Init => BootInv
  BY InitInv
<1>2. BootInv /\ [Next]_vars => BootInv'
  BY NextInv
<1> QED
  BY <1>1, <1>2, PTL DEF Spec

-----------------------------------------------------------------------------
(* Theorems.                                                               *)

\* The parser and application_env stay within what they read, in whatever
\* order files and environments follow one another.
THEOREM BootTypeCorrect == Spec => []TypeOK
<1>1. BootInv => TypeOK
  BY DEF BootInv
<1> QED
  BY <1>1, BootInvariant, PTL

\* A worker that validate_config has let through has all it requires, and no
\* variable of the environment that application_env takes afterwards empties
\* an item of the section app.
THEOREM UpMeansComplete == Spec => []Complete
<1>1. BootInv => Complete
  <2> SUFFICES ASSUME BootInv, phase = "running" PROVE Complete
    BY DEF Complete
  <2>1. Filled
    BY DEF BootInv
  <2> QED
    BY <2>1 DEF Filled, Complete, Has, Get
<1> QED
  BY <1>1, BootInvariant, PTL

\* What the configuration of a worker that is up has for a key.
LEMMA UpKey ==
    ASSUME BootInv, phase = "running", NEW k \in AllKeys, Clear(k)
    PROVE  /\ reloads = 0 /\ VariablesFor(k) # {} =>
                Has(k) /\ config[k] = Stored(k, environ[Greatest(VariablesFor(k))].value)
           /\ ~(reloads = 0 /\ VariablesFor(k) # {}) /\ FileDefines(k) # {} =>
                Has(k) /\ config[k] = FileSays(k)
           /\ ~(reloads = 0 /\ VariablesFor(k) # {}) /\ FileDefines(k) = {} =>
                IF k = Debug THEN Has(k) /\ config[k] = <<"0">> ELSE ~Has(k)
<1> DEFINE V == VariablesFor(k)
           F == FileDefines(k)
<1>1. /\ environ \in Seq(Variable) /\ file \in Seq(Line) /\ lineno = Len(environ)
      /\ Has(Debug)
  BY DEF BootInv, TypeOK, CutOnce, Filled, Has
<1>2. V \in SUBSET Nat /\ \A i \in V : i <= lineno
  <2>1. DOMAIN environ = 1..lineno /\ lineno \in Nat
    BY <1>1
  <2>2. \A i \in V : i \in DOMAIN environ
    BY DEF VariablesFor
  <2> HIDE DEF V
  <2> QED
    BY <2>1, <2>2
<1>3. F \in SUBSET Nat
  <2>1. DOMAIN file \in SUBSET Nat
    BY <1>1
  <2>2. \A i \in F : i \in DOMAIN file
    BY DEF FileDefines, Items, More
  <2> HIDE DEF F
  <2> QED
    BY <2>1, <2>2
<1>4. Taken(k) = IF reloads = 0 THEN V ELSE {}
  <2>1. Taken(k) = {i \in V : reloads = 0 /\ i <= lineno}
    BY DEF Taken
  <2> HIDE DEF V
  <2> QED
    BY <1>2, <2>1
<1>5. IF Taken(k) = {} THEN FromFile(k, F) \/ Defaulted(k)
      ELSE \E i \in Taken(k) : /\ \A j \in Taken(k) : j <= i
                               /\ Has(k) /\ config[k] = Stored(k, environ[i].value)
  BY DEF BootInv, ConfigKept
<1>6. ASSUME reloads = 0, V # {}
      PROVE  Has(k) /\ config[k] = Stored(k, environ[Greatest(V)].value)
  <2>1. PICK i \in V : /\ \A j \in V : j <= i
                       /\ Has(k) /\ config[k] = Stored(k, environ[i].value)
    <3> HIDE DEF V
    <3> QED
      BY <1>4, <1>5, <1>6
  <2>2. Greatest(V) = i
    <3> HIDE DEF V
    <3> QED
      BY <1>2, <2>1, GreatestIs
  <2> QED
    BY <2>1, <2>2
<1>7. ASSUME ~(reloads = 0 /\ V # {}) PROVE FromFile(k, F) \/ Defaulted(k)
  <2> HIDE DEF V, F
  <2> QED
    BY <1>4, <1>5, <1>7
<1>8. ASSUME ~(reloads = 0 /\ V # {}), F # {} PROVE Has(k) /\ config[k] = FileSays(k)
  <2>1. \E i \in F : /\ \A j \in F : j <= i
                     /\ Has(k) /\ config[k] = Stored(k, LineValue(i))
    BY <1>7, <1>8 DEF FromFile, Defaulted
  <2>2. PICK i \in F : /\ \A j \in F : j <= i
                       /\ Has(k) /\ config[k] = Stored(k, LineValue(i))
    <3> HIDE DEF F
    <3> QED
      BY <2>1
  <2>3. Greatest(F) = i
    <3> HIDE DEF F
    <3> QED
      BY <1>3, <2>2, GreatestIs
  <2> QED
    BY <2>2, <2>3 DEF FileSays, LineValue
<1>9. ASSUME ~(reloads = 0 /\ V # {}), F = {}
      PROVE  IF k = Debug THEN Has(k) /\ config[k] = <<"0">> ELSE ~Has(k)
  <2>1. ~Has(k) \/ Defaulted(k)
    BY <1>7, <1>9 DEF FromFile
  <2> QED
    BY <1>1, <2>1 DEF Defaulted
<1> QED
  BY <1>6, <1>8, <1>9

\* The configuration that ini_parse_stream, validate_config and application_env
\* build up at the first load, line by line and variable by variable, is the one
\* that a file without an error and the environment say as a whole, whatever the
\* continuation lines and the repeated definitions.
THEOREM ConfigIsWhatIsWritten == Spec => []ConfigAsWritten
<1>1. BootInv => ConfigAsWritten
  <2> SUFFICES ASSUME BootInv, phase = "running", reloads = 0,
                      \A i \in DOMAIN environ : ~HasUnderscore(environ[i]),
                      NEW k \in AllKeys
               PROVE  IF VariablesFor(k) # {}
                        THEN Get(k) = Stored(k, environ[Greatest(VariablesFor(k))].value)
                      ELSE IF FileDefines(k) # {} THEN Get(k) = FileSays(k)
                      ELSE Get(k) = IF k = Debug THEN <<"0">> ELSE NONE
    BY DEF ConfigAsWritten
  <2>1. Clear(k)
    BY Zenon DEF Clear
  <2>2. Get(k) = IF Has(k) THEN config[k] ELSE NONE
    BY DEF Get
  <2> QED
    BY <2>1, <2>2, UpKey
<1> QED
  BY <1>1, BootInvariant, PTL

\* database_init registers the connection that model_principal_auth asks for
\* at a first load that has it configured.
THEOREM LoginFindsItsDatabase == Spec => []LoginHasDatabase
<1>1. BootInv => LoginHasDatabase
  <2> DEFINE named(s) == VariablesFor(<<s, "name">>) \cup FileDefines(<<s, "name">>) # {}
  <2> SUFFICES ASSUME BootInv, phase = "running", reloads = 0, named("dbrw"), ~named("db")
               PROVE  "dbrw" \in databases
    BY DEF LoginHasDatabase
  <2>1. ASSUME NEW s \in {"dbrw", "db"} PROVE Has(<<s, "name">>) <=> named(s)
    <3> DEFINE k == <<s, "name">>
    <3>1. k \in AllKeys /\ k[1] # "none" /\ k # Debug
      BY DEF AllKeys, Sections, Names, Debug
    <3>2. Clear(k)
      BY <3>1 DEF Clear
    <3> HIDE DEF k
    <3>3. Has(k) <=> VariablesFor(k) # {} \/ FileDefines(k) # {}
      BY <3>1, <3>2, UpKey
    <3> QED
      BY <3>3 DEF k
  <2> HIDE DEF named
  <2> QED
    BY <2>1 DEF BootInv, Connected
<1> QED
  BY <1>1, BootInvariant, PTL
=============================================================================
