-------------------------- MODULE ViewEngineProofs --------------------------
(***************************************************************************)
(* Theorems about ViewEngine, for all views, assets and values.            *)
(***************************************************************************)
EXTENDS ViewEngine, SequenceTheorems, WellFoundedInduction, TLAPS

\* A pass that is over leaves nothing behind for the response that it was for.
Replaced ==
    /\ phase \in {"predef", "done"} /\ session # NULL => NoMacro("var")
    /\ phase = "done" => ~Has(page, "predef")

ViewInv == TypeOK /\ Replaced

\* The macro that each pass looks for, as far as its rounds only go forward.
Macro == [comment |-> "open", function |-> "function", user |-> "var", predef |-> "predef"]

\* The first comment is closed after it is opened.
CommentClosed ==
    \A i, end \in DOMAIN page :
        IsFirst(page, i, "open") /\ IsFirst(page, end, "close") => i <= end

\* What is left of the page after the macro that is next.
RoundsAdvance ==
    [][phase' = phase /\ phase \in DOMAIN Macro /\ (phase = "comment" => CommentClosed) =>
         \A i \in DOMAIN page, j \in DOMAIN page' :
            IsFirst(page, i, Macro[phase]) /\ IsFirst(page', j, Macro[phase]) =>
                Len(page') - j < Len(page) - i]_vars

-----------------------------------------------------------------------------
(* Places on a page.                                                       *)

\* A nonempty set of places has a first one.
LEMMA LeastPlace ==
    ASSUME NEW I \in SUBSET Nat, I # {}
    PROVE  \E i \in I : \A j \in I : i <= j
<1>1. PICK i \in I : \A j \in I : <<j, i>> \notin OpToRel(<, Nat)
  BY NatLessThanWellFounded, WFMin
<1>2. SUFFICES ASSUME NEW j \in I PROVE i <= j
  OBVIOUS
<1>3. i \in Nat /\ j \in Nat /\ <<j, i>> \notin OpToRel(<, Nat)
  BY <1>1
<1> QED
  BY <1>3 DEF OpToRel

\* A macro that stands somewhere from a place on has a first place there.
LEMMA FirstThere ==
    ASSUME NEW S, NEW s \in Seq(S), NEW from \in Nat \ {0}, NEW kind,
           NEW k \in from..Len(s), s[k].kind = kind, s[k].whole
    PROVE  \E i \in DOMAIN s : IsFirstFrom(s, from, i, kind)
<1> DEFINE I == {j \in from..Len(s) : s[j].kind = kind /\ s[j].whole}
<1>1. PICK i \in I : \A j \in I : i <= j
  <2>1. I \in SUBSET Nat /\ k \in I
    OBVIOUS
  <2> HIDE DEF I
  <2> QED
    BY <2>1, LeastPlace
<1>2. \A j \in from..i - 1 : j \notin I
  BY <1>1
<1> QED
  BY <1>1, <1>2 DEF IsFirstFrom

\* What aya_buf_replace_string makes of a page.
LEMMA SpliceHas ==
    ASSUME NEW S, NEW s \in Seq(S), NEW r \in Seq(S),
           NEW i \in 1..Len(s), NEW j \in 0..Len(s)
    PROVE  /\ Splice(s, i, j, r) \in Seq(S)
           /\ Len(Splice(s, i, j, r)) = (i - 1) + Len(r) + (Len(s) - j)
           /\ \A k \in 1..Len(Splice(s, i, j, r)) :
                Splice(s, i, j, r)[k] =
                    IF k < i THEN s[k]
                    ELSE IF k < i + Len(r) THEN r[(k - i) + 1]
                    ELSE s[(k - ((i - 1) + Len(r))) + j]
<1> DEFINE n == Len(s)
           a == SubSeq(s, 1, i - 1)
           b == SubSeq(s, j + 1, n)
           p == a \o r
<1>1. n \in Nat /\ i \in 1..n /\ j \in 0..n /\ \A k \in 1..n : s[k] \in S
  OBVIOUS
<1>2. a \in Seq(S) /\ Len(a) = i - 1 /\ \A k \in 1..(i - 1) : a[k] = s[k]
  <2>1. (\A k \in 1..(i - 1) : s[k] \in S) /\ 1 \in Int /\ i - 1 \in Int
    BY <1>1
  <2> HIDE DEF n
  <2>2. /\ a \in Seq(S) /\ Len(a) = IF 1 <= i - 1 THEN ((i - 1) - 1) + 1 ELSE 0
        /\ \A k \in 1..(((i - 1) - 1) + 1) : a[k] = s[(1 + k) - 1]
    BY <2>1, SubSeqProperties
  <2> HIDE DEF a
  <2> QED
    BY <1>1, <2>2
<1>3. b \in Seq(S) /\ Len(b) = n - j /\ \A k \in 1..(n - j) : b[k] = s[k + j]
  <2>1. (\A k \in (j + 1)..n : s[k] \in S) /\ j + 1 \in Int /\ n \in Int
    BY <1>1
  <2> HIDE DEF n
  <2>2. /\ b \in Seq(S) /\ Len(b) = IF j + 1 <= n THEN (n - (j + 1)) + 1 ELSE 0
        /\ \A k \in 1..((n - (j + 1)) + 1) : b[k] = s[((j + 1) + k) - 1]
    BY <2>1, SubSeqProperties
  <2> HIDE DEF b
  <2> QED
    BY <1>1, <2>2
<1> HIDE DEF a, b
<1>4. /\ p \in Seq(S) /\ Len(p) = (i - 1) + Len(r)
      /\ \A k \in 1..((i - 1) + Len(r)) : p[k] = IF k <= i - 1 THEN a[k] ELSE r[k - (i - 1)]
  <2>1. /\ p \in Seq(S) /\ Len(p) = Len(a) + Len(r)
        /\ \A k \in 1..(Len(a) + Len(r)) : p[k] = IF k <= Len(a) THEN a[k] ELSE r[k - Len(a)]
    BY <1>2, ConcatProperties
  <2> HIDE DEF p
  <2> QED
    BY <1>2, <2>1
<1> HIDE DEF p
<1> DEFINE q == p \o b
<1>5. /\ q \in Seq(S) /\ Len(q) = Len(p) + Len(b)
      /\ \A k \in 1..(Len(p) + Len(b)) : q[k] = IF k <= Len(p) THEN p[k] ELSE b[k - Len(p)]
  BY <1>3, <1>4, ConcatProperties
<1>6. Splice(s, i, j, r) = q
  BY DEF Splice, q, p, a, b, n
<1> HIDE DEF n, q
<1>7. Len(r) \in Nat
  OBVIOUS
<1>8. ASSUME NEW k \in 1..Len(q)
      PROVE  q[k] = IF k < i THEN s[k]
                    ELSE IF k < i + Len(r) THEN r[(k - i) + 1]
                    ELSE s[(k - ((i - 1) + Len(r))) + j]
  <2> DEFINE l == Len(r)
  <2>1. l \in Nat /\ Len(p) = (i - 1) + l /\ Len(b) = n - j /\ Len(q) = ((i - 1) + l) + (n - j)
    BY <1>3, <1>4, <1>5, <1>7
  <2>2. q[k] = IF k <= (i - 1) + l THEN p[k] ELSE b[k - ((i - 1) + l)]
    BY <1>5, <2>1
  <2>3. k \in 1..((i - 1) + l) => p[k] = IF k <= i - 1 THEN s[k] ELSE r[k - (i - 1)]
    BY <1>1, <1>2, <1>4, <2>1, SMTT(30)
  <2>4. k - ((i - 1) + l) \in 1..(n - j) => b[k - ((i - 1) + l)] = s[(k - ((i - 1) + l)) + j]
    BY <1>3
  <2>5. k \in 1..(((i - 1) + l) + (n - j))
    BY <2>1
  <2> HIDE DEF l
  <2>6. k - (i - 1) = (k - i) + 1
    BY <1>1, <2>5
  <2>7. CASE k <= (i - 1) + l
    BY <1>1, <2>1, <2>2, <2>3, <2>5, <2>6, <2>7 DEF l
  <2>8. CASE ~(k <= (i - 1) + l)
    <3>1. k - ((i - 1) + l) \in 1..(n - j) /\ ~(k < i) /\ ~(k < i + l)
      BY <1>1, <2>1, <2>5, <2>8
    <3> QED
      BY <2>2, <2>4, <2>8, <3>1 DEF l
  <2> QED
    BY <2>7, <2>8
<1> QED
  BY <1>1, <1>3, <1>4, <1>5, <1>6, <1>8 DEF n

\* The rounds of a pass go forward: nothing before the macro that was replaced
\* is one of its kind, nor what it was replaced with.
LEMMA SpliceGoesOn ==
    ASSUME NEW s \in Seq(Tokens), NEW r \in Seq(Tokens), NEW kind,
           NEW i \in 1..Len(s), NEW j \in i..Len(s), IsFirst(s, i, kind),
           \A k \in 1..Len(r) : r[k].kind # kind,
           NEW k \in 1..Len(Splice(s, i, j, r)), IsFirst(Splice(s, i, j, r), k, kind)
    PROVE  Len(Splice(s, i, j, r)) - k < Len(s) - i
<1> DEFINE q == Splice(s, i, j, r)
<1>1. /\ q \in Seq(Tokens) /\ Len(q) = (i - 1) + Len(r) + (Len(s) - j)
      /\ \A m \in 1..Len(q) : q[m] = IF m < i THEN s[m]
                                     ELSE IF m < i + Len(r) THEN r[(m - i) + 1]
                                     ELSE s[(m - ((i - 1) + Len(r))) + j]
  BY SpliceHas
<1>2. q[k].kind = kind /\ q[k].whole
  BY DEF IsFirst, IsFirstFrom
<1>3. \A m \in 1..(i - 1) : ~(s[m].kind = kind /\ s[m].whole)
  BY DEF IsFirst, IsFirstFrom
<1> HIDE DEF q
<1>4. Len(s) \in Nat /\ Len(r) \in Nat /\ i \in Nat /\ j \in Nat /\ k \in Nat /\ i <= j /\ 1 <= i
      /\ 1 <= k
  OBVIOUS
<1>5. ~(k < i)
  <2> SUFFICES ASSUME k < i PROVE FALSE
    OBVIOUS
  <2>1. q[k] = s[k] /\ k \in 1..(i - 1)
    BY <1>1, <1>4 DEF q
  <2> QED
    BY <1>2, <1>3, <2>1
<1>6. ~(k < i + Len(r))
  <2> SUFFICES ASSUME k < i + Len(r) PROVE FALSE
    OBVIOUS
  <2>1. q[k] = r[(k - i) + 1] /\ (k - i) + 1 \in 1..Len(r)
    BY <1>1, <1>4, <1>5 DEF q
  <2> QED
    BY <1>2, <2>1
<1>7. Len(q) = (i - 1) + Len(r) + (Len(s) - j)
  BY <1>1
<1> DEFINE n == Len(s)
           l == Len(r)
<1>8. n \in Nat /\ l \in Nat /\ Len(q) = (i - 1) + l + (n - j) /\ ~(k < i + l)
  BY <1>4, <1>6, <1>7
<1> HIDE DEF n, l
<1>9. Len(q) - k < n - i
  BY <1>4, <1>8
<1> QED
  BY <1>9 DEF n, q

\* What replaces a macro of another kind brings no other macro to the front.
LEMMA SpliceKeepsFirst ==
    ASSUME NEW s \in Seq(Tokens), NEW r \in Seq(Tokens), NEW kind,
           NEW i \in 1..Len(s), s[i].kind # kind,
           \A k \in 1..Len(r) : r[k].kind # kind,
           NEW k \in 1..Len(Splice(s, i, i, r)), IsFirst(Splice(s, i, i, r), k, kind)
    PROVE  \E f \in 1..Len(s) : IsFirst(s, f, kind) /\ s[f] = Splice(s, i, i, r)[k]
<1> DEFINE q == Splice(s, i, i, r)
           n == Len(s)
           l == Len(r)
<1>1. /\ Len(q) = (i - 1) + l + (n - i)
      /\ \A m \in 1..Len(q) : q[m] = IF m < i THEN s[m]
                                     ELSE IF m < i + l THEN r[(m - i) + 1]
                                     ELSE s[(m - ((i - 1) + l)) + i]
  BY SpliceHas
<1>2. q[k].kind = kind /\ q[k].whole /\ \A m \in 1..(k - 1) : ~(q[m].kind = kind /\ q[m].whole)
  BY DEF IsFirst, IsFirstFrom
<1>3. /\ n \in Nat /\ l \in Nat /\ i \in 1..n /\ k \in 1..Len(q)
      /\ \A m \in 1..l : r[m].kind # kind
  OBVIOUS
<1>4. ASSUME NEW f \in 1..n, s[f].kind = kind, s[f].whole,
             \A m \in 1..(f - 1) : ~(s[m].kind = kind /\ s[m].whole), s[f] = q[k]
      PROVE  \E g \in 1..n : IsFirst(s, g, kind) /\ s[g] = q[k]
  BY <1>4 DEF IsFirst, IsFirstFrom
<1> HIDE DEF q, n, l
<1>5. CASE k < i
  <2>1. q[k] = s[k] /\ \A m \in 1..(k - 1) : q[m] = s[m]
    BY <1>1, <1>3, <1>5, SMTT(30)
  <2>2. k \in 1..n
    BY <1>3, <1>5
  <2>3. \E g \in 1..n : IsFirst(s, g, kind) /\ s[g] = q[k]
    BY <1>2, <1>4, <2>1, <2>2
  <2> QED
    BY <2>3 DEF q, n
<1>6. CASE k >= i /\ k < i + l
  <2>1. q[k] = r[(k - i) + 1] /\ (k - i) + 1 \in 1..l
    BY <1>1, <1>3, <1>6
  <2> QED
    BY <1>2, <1>3, <2>1
<1>7. CASE k >= i + l
  <2> DEFINE f == (k - ((i - 1) + l)) + i
  <2>1. f \in 1..n /\ f > i
    BY <1>1, <1>3, <1>7
  <2>2. q[k] = s[f]
    <3>1. ~(k < i) /\ ~(k < i + l)
      BY <1>3, <1>7
    <3> QED
      BY <1>1, <1>3, <3>1
  <2>3. ASSUME NEW m \in 1..(f - 1) PROVE ~(s[m].kind = kind /\ s[m].whole)
    <3>1. CASE m < i
      <4>1. m \in 1..(k - 1) /\ m \in 1..Len(q)
        BY <1>1, <1>3, <1>7, <3>1
      <4>2. q[m] = s[m]
        BY <1>1, <3>1, <4>1
      <4> QED
        BY <1>2, <4>1, <4>2
    <3>2. CASE m = i
      BY <3>2
    <3>3. CASE m > i
      <4> DEFINE g == (m - i) + ((i - 1) + l)
      <4>1. g \in 1..(k - 1) /\ g \in 1..Len(q) /\ ~(g < i) /\ ~(g < i + l)
        BY <1>1, <1>3, <1>7, <2>1, <2>3, <3>3
      <4>2. (g - ((i - 1) + l)) + i = m
        BY <1>3, <2>1, <2>3, SMTT(30)
      <4> HIDE DEF g
      <4>3. q[g] = s[m]
        BY <1>1, <4>1, <4>2
      <4> QED
        BY <1>2, <4>1, <4>3
    <3> QED
      BY <1>3, <2>1, <3>1, <3>2, <3>3
  <2> HIDE DEF f
  <2>4. \E g \in 1..n : IsFirst(s, g, kind) /\ s[g] = q[k]
    BY <1>2, <1>4, <2>1, <2>2, <2>3
  <2> QED
    BY <2>4 DEF q, n
<1> QED
  BY <1>3, <1>5, <1>6, <1>7

-----------------------------------------------------------------------------
(* What stands on a page.                                                  *)

LEMMA TokensAre ==
    /\ Written \subseteq Tokens /\ Nul \in Tokens
    /\ \A t \in Args : Text(t) \in Tokens /\ Text(t).kind = "text"
    /\ \A t \in Tokens : t.kind \in Kinds /\ t.arg \in Args
    /\ \A t \in Tokens : t.kind = "predef" => t.arg \in DOMAIN Predefined /\ t.whole
<1>1. Written \subseteq Tokens
  BY DEF Tokens
<1>2. Nul \in Written
  BY NullAssumption DEF Nul, Token, Written, Kinds
<1>3. \A t \in Args : Text(t) \in Written /\ Text(t).kind = "text"
  BY DEF Text, Token, Written, Kinds
<1>4. \A t \in Tokens : t.kind \in Kinds /\ t.arg \in Args
  BY DEF Tokens, Written, Kinds
<1>5. \A t \in Tokens : t.kind = "predef" => t.arg \in DOMAIN Predefined /\ t.whole
  BY DEF Tokens, Written
<1> QED
  BY <1>1, <1>2, <1>3, <1>4, <1>5

LEMMA WrittenPages == Seq(Written) \subseteq Seq(Tokens)
BY TokensAre

\* Values are texts.
LEMMA ValuesAre ==
    ASSUME NEW v \in Values
    PROVE  v \in Seq(Tokens) /\ \A k \in 1..Len(v) : v[k].kind = "text"
<1>1. CASE v = <<>>
  BY <1>1
<1>2. ASSUME NEW t \in Args, v = <<Text(t)>>
      PROVE  v \in Seq(Tokens) /\ \A k \in 1..Len(v) : v[k].kind = "text"
  <2>1. Text(t) \in Tokens /\ Text(t).kind = "text"
    BY TokensAre
  <2> QED
    BY <1>2, <2>1
<1> QED
  BY <1>1, <1>2 DEF Values

LEMMA SpliceFirstTyped ==
    ASSUME NEW s \in Seq(Tokens), NEW kind, NEW r \in Seq(Tokens)
    PROVE  SpliceFirst(s, kind, r) \in Seq(Tokens)
<1>1. CASE Has(s, kind)
  <2>1. PICK i \in DOMAIN s : i = CHOOSE j \in DOMAIN s : IsFirst(s, j, kind)
    BY <1>1 DEF Has
  <2>2. i \in 1..Len(s) /\ i \in 0..Len(s)
    OBVIOUS
  <2>3. Splice(s, i, i, r) \in Seq(Tokens)
    BY <2>2, SpliceHas
  <2> QED
    BY <1>1, <2>1, <2>3 DEF SpliceFirst
<1>2. CASE ~Has(s, kind)
  BY <1>2 DEF SpliceFirst
<1> QED
  BY <1>1, <1>2

LEMMA CutToken ==
    ASSUME NEW t \in Tokens, t.kind \in {"template", "include", "if"}
    PROVE  [t EXCEPT !.whole = FALSE] \in Tokens
<1>1. t \in [kind : Kinds, arg : Args, whole : BOOLEAN]
  BY DEF Tokens, Written, Kinds
<1>2. [t EXCEPT !.whole = FALSE] \in
        [kind : {"template", "include", "if"}, arg : Args, whole : {FALSE}]
  BY <1>1
<1> QED
  BY <1>2 DEF Tokens

\* Only macros that name an asset or a variable are left cut.
LEMMA CutTyped ==
    ASSUME TypeOK, NEW i \in DOMAIN page, page[i].kind \in {"template", "include", "if"}
    PROVE  CutAt(i) \in Seq(Tokens)
<1>1. page \in Seq(Tokens) /\ page[i] \in Tokens /\ page[i].arg \in Args
  <2>1. page \in Seq(Tokens)
    BY DEF TypeOK
  <2>2. page[i] \in Tokens
    BY <2>1
  <2> QED
    BY <2>1, <2>2, TokensAre
<1>2. [page[i] EXCEPT !.whole = FALSE] \in Tokens
  BY <1>1, CutToken
<1>3. CutAt(i) = [page EXCEPT ![i] = [page[i] EXCEPT !.whole = FALSE]]
  BY DEF CutAt
<1> QED
  BY <1>1, <1>2, <1>3

\* A macro that a pass takes is one of its kind.
LEMMA MacroAt ==
    ASSUME TypeOK, NEW i \in DOMAIN page, NEW kind, IsFirst(page, i, kind)
    PROVE  /\ page \in Seq(Tokens) /\ i \in 1..Len(page) /\ i \in 0..Len(page)
           /\ page[i] \in Tokens /\ page[i].kind = kind
<1>1. page \in Seq(Tokens)
  BY DEF TypeOK
<1> QED
  BY <1>1 DEF IsFirst, IsFirstFrom

\* What the step of a pass has to establish.
LEMMA GoTyped ==
    ASSUME TypeOK, NEW s \in Seq(Tokens), NEW p,
           p \in {"template", "include", "comment", "function", "statement", "user", "predef",
                  "done", "not found", "crashed"},
           Go(p, s)
    PROVE  TypeOK'
BY DEF TypeOK, Go, inputs

LEMMA StayTyped ==
    ASSUME TypeOK, NEW s \in Seq(Tokens), Stay(s)
    PROVE  TypeOK'
BY DEF TypeOK, Stay, Go, inputs

-----------------------------------------------------------------------------
(* Each pass keeps the page a page.                                        *)

LEMMA StartTyped == TypeOK /\ Start => TypeOK'
<1> SUFFICES ASSUME TypeOK, Start PROVE TypeOK'
  OBVIOUS
<1>1. CASE view = NULL /\ Go("not found", <<>>)
  <2>1. <<>> \in Seq(Tokens)
    OBVIOUS
  <2> QED
    BY <1>1, <2>1, GoTyped
<1>2. CASE view # NULL
  <2>1. view \in Seq(Tokens)
    BY <1>2, AssetsAssumption, WrittenPages DEF TypeOK
  <2> QED
    BY <1>2, <2>1, GoTyped DEF Start
<1> QED
  BY <1>1, <1>2 DEF Start

LEMMA TemplateTyped == TypeOK /\ ProcessTemplate => TypeOK'
<1> SUFFICES ASSUME TypeOK, ProcessTemplate PROVE TypeOK'
  OBVIOUS
<1>1. page \in Seq(Tokens)
  BY DEF TypeOK
<1>2. CASE Go("include", page)
  BY <1>1, <1>2, GoTyped
<1>3. ASSUME NEW i \in DOMAIN page, IsMacro(i, "template"), Go("include", CutAt(i))
      PROVE  TypeOK'
  BY <1>3, MacroAt, CutTyped, GoTyped DEF IsMacro
<1>4. ASSUME NEW i \in DOMAIN page, NEW end \in DOMAIN page, page[i].arg \in DOMAIN Assets,
             Go("include", SpliceFirst(Assets[page[i].arg], "yield", SubSeq(page, i + 1, end - 1)))
      PROVE  TypeOK'
  <2>1. Assets[page[i].arg] \in Seq(Tokens)
    BY <1>4, AssetsAssumption, WrittenPages
  <2>2. SubSeq(page, i + 1, end - 1) \in Seq(Tokens)
    <3>1. \A k \in (i + 1)..(end - 1) : page[k] \in Tokens
      BY <1>1
    <3>2. i + 1 \in Int /\ end - 1 \in Int
      BY <1>1
    <3> QED
      BY <3>1, <3>2, SubSeqProperties
  <2>3. SpliceFirst(Assets[page[i].arg], "yield", SubSeq(page, i + 1, end - 1)) \in Seq(Tokens)
    BY <2>1, <2>2, SpliceFirstTyped
  <2> QED
    BY <1>4, <2>3, GoTyped
<1> QED
  BY <1>2, <1>3, <1>4 DEF ProcessTemplate

LEMMA IncludeTyped == TypeOK /\ ProcessInclude => TypeOK'
<1> SUFFICES ASSUME TypeOK, ProcessInclude PROVE TypeOK'
  OBVIOUS
<1>1. page \in Seq(Tokens)
  BY DEF TypeOK
<1>2. CASE Go("comment", page)
  BY <1>1, <1>2, GoTyped
<1>3. ASSUME NEW i \in DOMAIN page, IsMacro(i, "include"), Go("comment", CutAt(i))
      PROVE  TypeOK'
  BY <1>3, MacroAt, CutTyped, GoTyped DEF IsMacro
<1>4. ASSUME NEW i \in DOMAIN page, IsMacro(i, "include"), page[i].arg \in DOMAIN Assets,
             Stay(Splice(page, i, i, Assets[page[i].arg] \o <<Nul>>))
      PROVE  TypeOK'
  <2>1. Assets[page[i].arg] \in Seq(Tokens) /\ <<Nul>> \in Seq(Tokens)
    BY <1>4, AssetsAssumption, WrittenPages, TokensAre
  <2>2. Assets[page[i].arg] \o <<Nul>> \in Seq(Tokens)
    BY <2>1, ConcatProperties
  <2>3. Splice(page, i, i, Assets[page[i].arg] \o <<Nul>>) \in Seq(Tokens)
    BY <1>4, <2>2, MacroAt, SpliceHas DEF IsMacro
  <2> QED
    BY <1>4, <2>3, StayTyped
<1> QED
  BY <1>2, <1>3, <1>4 DEF ProcessInclude

LEMMA CommentTyped == TypeOK /\ ProcessComment => TypeOK'
<1> SUFFICES ASSUME TypeOK, ProcessComment PROVE TypeOK'
  OBVIOUS
<1>1. page \in Seq(Tokens)
  BY DEF TypeOK
<1>2. CASE Go("function", page)
  BY <1>1, <1>2, GoTyped
<1>3. ASSUME NEW i \in DOMAIN page, NEW end \in DOMAIN page, Stay(Splice(page, i, end, <<>>))
      PROVE  TypeOK'
  <2>1. Splice(page, i, end, <<>>) \in Seq(Tokens)
    <3>1. i \in 1..Len(page) /\ end \in 0..Len(page) /\ <<>> \in Seq(Tokens)
      BY <1>1
    <3> QED
      BY <1>1, <3>1, SpliceHas
  <2> QED
    BY <1>3, <2>1, StayTyped
<1> QED
  BY <1>2, <1>3 DEF ProcessComment

LEMMA FunctionTyped == TypeOK /\ ProcessFunction => TypeOK'
<1> SUFFICES ASSUME TypeOK, ProcessFunction PROVE TypeOK'
  OBVIOUS
<1>1. page \in Seq(Tokens)
  BY DEF TypeOK
<1>2. CASE Go("statement", page)
  BY <1>1, <1>2, GoTyped
<1>3. CASE Go("crashed", page)
  BY <1>1, <1>3, GoTyped
<1>4. ASSUME NEW i \in DOMAIN page, IsMacro(i, "function"), page[i].arg \in DOMAIN Functions,
             Stay(Splice(page, i, i, <<Text(Functions[page[i].arg]), Nul>>))
      PROVE  TypeOK'
  <2>1. Text(Functions[page[i].arg]) \in Tokens /\ Nul \in Tokens
    BY <1>4, TextsAssumption, TokensAre
  <2>2. <<Text(Functions[page[i].arg]), Nul>> \in Seq(Tokens)
    BY <2>1
  <2>3. Splice(page, i, i, <<Text(Functions[page[i].arg]), Nul>>) \in Seq(Tokens)
    BY <1>4, <2>2, MacroAt, SpliceHas DEF IsMacro
  <2> QED
    BY <1>4, <2>3, StayTyped
<1> QED
  BY <1>2, <1>3, <1>4 DEF ProcessFunction, NoFunction

\* What follows the tokens that are replaced stays.
LEMMA SpliceKeepsRest ==
    ASSUME NEW s \in Seq(Tokens), NEW r \in Seq(Tokens),
           NEW i \in 1..Len(s), NEW j \in 1..Len(s), NEW end \in 1..Len(s), j < end
    PROVE  \E k \in 1..Len(Splice(s, i, j, r)) : Splice(s, i, j, r)[k] = s[end]
<1> DEFINE q == Splice(s, i, j, r)
           n == Len(s)
           l == Len(r)
           k == ((i - 1) + l) + (end - j)
<1>1. j \in 0..Len(s)
  OBVIOUS
<1>2. /\ Len(q) = (i - 1) + l + (n - j)
      /\ \A m \in 1..Len(q) : q[m] = IF m < i THEN s[m]
                                     ELSE IF m < i + l THEN r[(m - i) + 1]
                                     ELSE s[(m - ((i - 1) + l)) + j]
  BY <1>1, SpliceHas, SMTT(30)
<1>3. n \in Nat /\ l \in Nat /\ i \in 1..n /\ j \in 1..n /\ end \in 1..n
  OBVIOUS
<1> HIDE DEF q, n, l
<1>4. k \in 1..Len(q) /\ ~(k < i) /\ ~(k < i + l) /\ (k - ((i - 1) + l)) + j = end
  BY <1>2, <1>3
<1> HIDE DEF k
<1>5. q[k] = s[end]
  BY <1>2, <1>4
<1> QED
  BY <1>4, <1>5 DEF q

\* The head of a statement goes, and its @endif is still there.
LEMMA EndifStays ==
    ASSUME TypeOK, NEW i \in DOMAIN page, NEW end \in DOMAIN page, NEW last \in DOMAIN page,
           NEW r \in Seq(Tokens),
           IsFirstFrom(page, i, end, "endif"), last < end
    PROVE  /\ Splice(page, i, last, r) \in Seq(Tokens)
           /\ Has(Splice(page, i, last, r), "endif")
<1> DEFINE s == Splice(page, i, last, r)
<1>1. page \in Seq(Tokens)
  BY DEF TypeOK
<1>2. i \in 1..Len(page) /\ last \in 1..Len(page) /\ end \in 1..Len(page) /\ last \in 0..Len(page)
  BY <1>1
<1>3. s \in Seq(Tokens)
  BY <1>1, <1>2, SpliceHas
<1>4. PICK k \in 1..Len(s) : s[k] = page[end]
  BY <1>1, <1>2, SpliceKeepsRest
<1> HIDE DEF s
<1>5. s[k].kind = "endif" /\ s[k].whole
  BY <1>4 DEF IsFirstFrom
<1>6. \E f \in DOMAIN s : IsFirstFrom(s, 1, f, "endif")
  <2>1. k \in 1..Len(s) /\ 1 \in Nat \ {0}
    BY <1>3, <1>4
  <2> QED
    BY <1>3, <1>5, <2>1, FirstThere, Zenon
<1> QED
  BY <1>3, <1>6 DEF Has, IsFirst, s

LEMMA WithoutElseTyped ==
    ASSUME NEW s \in Seq(Tokens), Has(s, "endif")
    PROVE  WithoutElse(s) \in Seq(Tokens)
<1>1. CASE Has(s, "else")
  <2>1. PICK m \in DOMAIN s : m = CHOOSE i \in DOMAIN s : IsFirst(s, i, "else")
    BY <1>1 DEF Has
  <2>2. PICK e \in DOMAIN s : e = CHOOSE i \in DOMAIN s : IsFirst(s, i, "endif")
    BY DEF Has
  <2>3. m \in 1..Len(s) /\ e - 1 \in 0..Len(s) /\ <<>> \in Seq(Tokens)
    OBVIOUS
  <2>4. Splice(s, m, e - 1, <<>>) \in Seq(Tokens)
    BY <2>3, SpliceHas
  <2> QED
    BY <1>1, <2>1, <2>2, <2>4 DEF WithoutElse
<1>2. CASE ~Has(s, "else")
  BY <1>2 DEF WithoutElse
<1> QED
  BY <1>1, <1>2

LEMMA StatementTyped == TypeOK /\ ProcessStatement => TypeOK'
<1> SUFFICES ASSUME TypeOK, ProcessStatement PROVE TypeOK'
  OBVIOUS
<1>1. page \in Seq(Tokens) /\ <<Nul>> \in Seq(Tokens) /\ <<>> \in Seq(Tokens)
  <2>1. page \in Seq(Tokens) /\ Nul \in Tokens
    BY TokensAre DEF TypeOK
  <2> QED
    BY <2>1
<1>2. CASE Go("user", page)
  BY <1>1, <1>2, GoTyped
<1>3. ASSUME NEW i \in DOMAIN page, IsMacro(i, "if"), Go("user", CutAt(i))
      PROVE  TypeOK'
  BY <1>3, MacroAt, CutTyped, GoTyped DEF IsMacro
<1>4. ASSUME NEW i \in DOMAIN page, NEW end \in DOMAIN page, NEW last \in DOMAIN page,
             IsMacro(i, "if"), IsFirstFrom(page, i, end, "endif"),
             IsHead(i, last, end, get_vvar(page[i].arg)),
             \E s \in {Splice(page, i, last, IF last = i THEN <<Nul>> ELSE <<>>)} :
                Stay(SpliceFirst(IF NoMiddle(i, end) THEN s ELSE WithoutElse(s), "endif", <<>>))
      PROVE  TypeOK'
  <2> DEFINE s == Splice(page, i, last, IF last = i THEN <<Nul>> ELSE <<>>)
             t == IF NoMiddle(i, end) THEN s ELSE WithoutElse(s)
  <2>1. i \in Int /\ end \in Int /\ last \in Int /\ i < end
    <3>1. page[i].kind = "if" /\ page[end].kind = "endif" /\ end >= i
      BY <1>4, MacroAt DEF IsMacro, IsFirstFrom
    <3> QED
      BY <1>1, <3>1
  <2>2. last < end
    <3>1. CASE get_vvar(page[i].arg) # 0
      BY <1>4, <2>1, <3>1 DEF IsHead
    <3>2. CASE get_vvar(page[i].arg) = 0 /\ NoMiddle(i, end)
      BY <1>4, <2>1, <3>2 DEF IsHead
    <3>3. CASE get_vvar(page[i].arg) = 0 /\ ~NoMiddle(i, end)
      BY <1>4, <2>1, <3>3 DEF IsHead, IsMiddle
    <3> QED
      BY <3>1, <3>2, <3>3
  <2>3. s \in Seq(Tokens) /\ Has(s, "endif")
    <3>1. (IF last = i THEN <<Nul>> ELSE <<>>) \in Seq(Tokens)
      BY <1>1
    <3> QED
      BY <1>4, <2>2, <3>1, EndifStays
  <2> HIDE DEF s
  <2>4. t \in Seq(Tokens)
    BY <2>3, WithoutElseTyped
  <2>5. SpliceFirst(t, "endif", <<>>) \in Seq(Tokens)
    <3> HIDE DEF t
    <3> QED
      BY <1>1, <2>4, SpliceFirstTyped
  <2>6. Stay(SpliceFirst(t, "endif", <<>>))
    BY <1>4 DEF s
  <2> QED
    BY <2>5, <2>6, StayTyped
<1> QED
  BY <1>2, <1>3, <1>4, Zenon DEF ProcessStatement

LEMMA ValueOfTyped ==
    ASSUME TypeOK, session # NULL, NEW name
    PROVE  /\ ValueOf(name) \in Seq(Tokens)
           /\ \A k \in 1..Len(ValueOf(name)) : ValueOf(name)[k].kind \in {"text", "nul"}
<1>1. Nul \in Tokens /\ Nul.kind = "nul"
  BY TokensAre DEF Nul, Token
<1>2. CASE name \in DOMAIN session
  <2>1. Text(session[name]) \in Tokens /\ Text(session[name]).kind = "text"
    BY <1>2, TextsAssumption, TokensAre DEF TypeOK
  <2>2. ValueOf(name) = <<Text(session[name]), Nul>>
    BY <1>2 DEF ValueOf
  <2> QED
    BY <1>1, <2>1, <2>2
<1>3. CASE name \notin DOMAIN session
  <2>1. ValueOf(name) = <<Nul>>
    BY <1>3 DEF ValueOf
  <2> QED
    BY <1>1, <2>1
<1> QED
  BY <1>2, <1>3

LEMMA UserVarsTyped == TypeOK /\ ProcessUserVars => TypeOK'
<1> SUFFICES ASSUME TypeOK, ProcessUserVars PROVE TypeOK'
  OBVIOUS
<1>1. page \in Seq(Tokens)
  BY DEF TypeOK
<1>2. CASE Go("predef", page)
  BY <1>1, <1>2, GoTyped
<1>3. ASSUME NEW i \in DOMAIN page, session # NULL, IsMacro(i, "var"),
             Stay(Splice(page, i, i, ValueOf(page[i].arg)))
      PROVE  TypeOK'
  <2>1. Splice(page, i, i, ValueOf(page[i].arg)) \in Seq(Tokens)
    BY <1>3, MacroAt, ValueOfTyped, SpliceHas DEF IsMacro
  <2> QED
    BY <1>3, <2>1, StayTyped
<1> QED
  BY <1>2, <1>3 DEF ProcessUserVars

\* A predefined name stands for a text.
LEMMA PredefinedIs ==
    ASSUME TypeOK, NEW i \in DOMAIN page, IsFirst(page, i, "predef")
    PROVE  /\ Predefined[page[i].arg] \in Seq(Tokens)
           /\ \A k \in 1..Len(Predefined[page[i].arg]) : Predefined[page[i].arg][k].kind = "text"
<1>1. page[i].arg \in DOMAIN Predefined
  BY MacroAt, TokensAre
<1> QED
  BY <1>1, TextsAssumption, ValuesAre

LEMMA PredefVarsTyped == TypeOK /\ ProcessPredefVars => TypeOK'
<1> SUFFICES ASSUME TypeOK, ProcessPredefVars PROVE TypeOK'
  OBVIOUS
<1>1. page \in Seq(Tokens)
  BY DEF TypeOK
<1>2. CASE Go("done", page) \/ Go("crashed", page)
  BY <1>1, <1>2, GoTyped
<1>3. ASSUME NEW i \in DOMAIN page, IsFirst(page, i, "predef"),
             Stay(Splice(page, i, i, Predefined[page[i].arg]))
      PROVE  TypeOK'
  <2>1. Splice(page, i, i, Predefined[page[i].arg]) \in Seq(Tokens)
    BY <1>3, MacroAt, PredefinedIs, SpliceHas
  <2> QED
    BY <1>3, <2>1, StayTyped
<1> QED
  BY <1>2, <1>3 DEF ProcessPredefVars

-----------------------------------------------------------------------------
(* What the passes leave for the response.                                 *)

LEMMA RepeatedNoMacro ==
    ASSUME TypeOK, NEW i \in DOMAIN page, IsFirst(page, i, "predef"), NoMacro("var"),
           page' = Splice(page, i, i, Predefined[page[i].arg])
    PROVE  NoMacro("var")'
<1> DEFINE r == Predefined[page[i].arg]
<1>1. /\ page \in Seq(Tokens) /\ i \in 1..Len(page) /\ page[i].kind # "var"
      /\ r \in Seq(Tokens) /\ \A k \in 1..Len(r) : r[k].kind # "var"
  BY MacroAt, PredefinedIs
<1> HIDE DEF r
<1>2. page' \in Seq(Tokens) /\ page' = Splice(page, i, i, r)
  <2>1. i \in 0..Len(page)
    BY <1>1
  <2> QED
    BY <1>1, <2>1, SpliceHas DEF r
<1>3. ASSUME NEW k \in DOMAIN page', IsFirst(page', k, "var"), page'[k].arg # NULL
      PROVE  FALSE
  <2>1. k \in 1..Len(page')
    BY <1>2
  <2>2. PICK f \in 1..Len(page) : IsFirst(page, f, "var") /\ page[f] = page'[k]
    BY <1>1, <1>2, <1>3, <2>1, SpliceKeepsFirst
  <2>3. f \in DOMAIN page /\ IsMacro(f, "var")
    BY <1>1, <1>3, <2>2 DEF IsMacro
  <2> QED
    BY <2>3 DEF NoMacro
<1> QED
  BY <1>3 DEF NoMacro, IsMacro

LEMMA ReplacedKept == ViewInv /\ [Next]_vars => Replaced'
<1> SUFFICES ASSUME ViewInv, [Next]_vars PROVE Replaced'
  OBVIOUS
<1>0. TypeOK /\ Replaced
  BY DEF ViewInv
<1>1. CASE Start
  <2>1. CASE phase' # "done"
    BY <1>1, <2>1 DEF Start, Go, Replaced
  <2>2. CASE phase' = "done"
    <3>1. page' = view /\ \A i \in DOMAIN view : view[i].kind = "text"
      BY <1>1, <2>2 DEF Start, Go
    <3> QED
      BY <3>1 DEF Replaced, NoMacro, IsMacro, Has, IsFirst, IsFirstFrom
  <2> QED
    BY <2>1, <2>2
<1>2. CASE \/ ProcessTemplate \/ ProcessInclude \/ ProcessComment \/ ProcessFunction
           \/ ProcessStatement
  <2>1. phase' \in {"include", "comment", "function", "statement", "user", "crashed"}
    <3>1. CASE ProcessTemplate
      BY <3>1 DEF ProcessTemplate, Go
    <3>2. CASE ProcessInclude
      BY <3>2 DEF ProcessInclude, Stay, Go
    <3>3. CASE ProcessComment
      BY <3>3 DEF ProcessComment, Stay, Go
    <3>4. CASE ProcessFunction
      BY <3>4 DEF ProcessFunction, NoFunction, Stay, Go
    <3>5. CASE ProcessStatement
      BY <3>5, Zenon DEF ProcessStatement, Stay, Go
    <3> QED
      BY <1>2, <3>1, <3>2, <3>3, <3>4, <3>5
  <2> QED
    BY <2>1 DEF Replaced
<1>3. CASE ProcessUserVars
  <2>1. phase' = "predef" => page' = page /\ session' = session
        /\ (session = NULL \/ NoMacro("var"))
    BY <1>3 DEF ProcessUserVars, Stay, Go, inputs
  <2>2. phase' \in {"user", "predef"}
    BY <1>3 DEF ProcessUserVars, Stay, Go
  <2> QED
    BY <2>1, <2>2 DEF Replaced, NoMacro, IsMacro
<1>4. CASE ProcessPredefVars
  <2>1. phase = "predef" /\ session' = session
    BY <1>4 DEF ProcessPredefVars, Stay, Go, inputs
  <2>2. CASE ~Has(page, "predef") /\ Go("done", page)
    BY <1>0, <2>1, <2>2 DEF Replaced, NoMacro, IsMacro, Go
  <2>3. CASE Go("crashed", page)
    BY <2>3 DEF Replaced, Go
  <2>4. ASSUME NEW i \in DOMAIN page, IsFirst(page, i, "predef"),
               Stay(Splice(page, i, i, Predefined[page[i].arg]))
        PROVE  Replaced'
    <3>1. phase' = "predef" /\ page' = Splice(page, i, i, Predefined[page[i].arg])
      BY <2>1, <2>4 DEF Stay, Go
    <3>2. session # NULL => NoMacro("var")'
      BY <1>0, <2>1, <2>4, <3>1, RepeatedNoMacro DEF Replaced
    <3> QED
      BY <2>1, <3>1, <3>2 DEF Replaced
  <2> QED
    BY <1>4, <2>2, <2>3, <2>4 DEF ProcessPredefVars
<1>5. CASE UNCHANGED vars
  BY <1>0, <1>5 DEF vars, inputs, Replaced, NoMacro, IsMacro
<1> QED
  BY <1>1, <1>2, <1>3, <1>4, <1>5 DEF Next

LEMMA InitInv == Init => ViewInv
<1> SUFFICES ASSUME Init PROVE ViewInv
  OBVIOUS
<1>1. page \in Seq(Tokens) /\ phase = "start"
  BY DEF Init
<1> QED
  BY <1>1 DEF Init, ViewInv, TypeOK, Replaced

LEMMA NextInv == ViewInv /\ [Next]_vars => ViewInv'
<1> SUFFICES ASSUME ViewInv, [Next]_vars PROVE ViewInv'
  OBVIOUS
<1>1. TypeOK
  BY DEF ViewInv
<1>2. UNCHANGED vars => TypeOK'
  BY <1>1 DEF vars, inputs, TypeOK
<1>3. TypeOK'
  BY <1>1, <1>2, StartTyped, TemplateTyped, IncludeTyped, CommentTyped, FunctionTyped,
     StatementTyped, UserVarsTyped, PredefVarsTyped DEF Next
<1> QED
  BY <1>3, ReplacedKept DEF ViewInv

LEMMA SpecInv == Spec => []ViewInv
BY InitInv, NextInv, PTL DEF Spec

-----------------------------------------------------------------------------
(* Theorems.                                                               *)

\* Every round of every pass leaves a page of whole tokens and cut macros,
\* whatever is spliced into whatever, and wherever an @else or @endif stands.
THEOREM ViewTypeCorrect == Spec => []TypeOK
<1>1. ViewInv => TypeOK
  BY DEF ViewInv
<1> QED
  BY <1>1, SpecInv, PTL

\* No predefined name is left in a response, and for a request that has a
\* session no variable before the first macro without a name, although
\* process_user_vars is over before process_predef_vars rewrites the page.
THEOREM VariablesReplaced == Spec => []Replaced
<1>1. ViewInv => Replaced
  BY DEF ViewInv
<1> QED
  BY <1>1, SpecInv, PTL

\* The loops of the passes for comments, functions, user variables and
\* predefined variables come to their end: with each round there is less of
\* the page behind the macro that is next, however much the page has grown.
THEOREM PassesGoForward == Spec => RoundsAdvance
<1> DEFINE Forward ==
      phase' = phase /\ phase \in DOMAIN Macro /\ (phase = "comment" => CommentClosed) =>
         \A i \in DOMAIN page, j \in DOMAIN page' :
            IsFirst(page, i, Macro[phase]) /\ IsFirst(page', j, Macro[phase]) =>
                Len(page') - j < Len(page) - i
<1>1. ASSUME TypeOK, Next,
             phase \in DOMAIN Macro, phase' = phase, phase = "comment" => CommentClosed,
             NEW i \in DOMAIN page, NEW k \in DOMAIN page',
             IsFirst(page, i, Macro[phase]), IsFirst(page', k, Macro[phase])
      PROVE  Len(page') - k < Len(page) - i
  <2>1. page \in Seq(Tokens) /\ i \in 1..Len(page)
    <3>1. page \in Seq(Tokens)
      BY <1>1 DEF TypeOK
    <3> QED
      BY <1>1, <3>1
  <2>2. ASSUME NEW r \in Seq(Tokens), NEW j \in i..Len(page), page' = Splice(page, i, j, r),
               \A m \in 1..Len(r) : r[m].kind # Macro[phase]
        PROVE  Len(page') - k < Len(page) - i
    <3>1. page' \in Seq(Tokens)
      <4>1. j \in 0..Len(page)
        BY <2>1
      <4> QED
        BY <2>1, <2>2, <4>1, SpliceHas
    <3>2. k \in 1..Len(page')
      BY <1>1, <3>1
    <3> QED
      BY <1>1, <2>1, <2>2, <3>2, SpliceGoesOn
  <2>3. \A f \in DOMAIN page : IsFirst(page, f, Macro[phase]) => f = i
    BY <1>1, <2>1 DEF IsFirst, IsFirstFrom
  <2>4. i \in i..Len(page)
    BY <2>1
  <2>5. CASE phase = "comment"
    <3>1. Macro[phase] = "open" /\ ProcessComment
      BY <1>1, <2>5 DEF Macro, Next, Start, ProcessTemplate, ProcessInclude, ProcessFunction,
         ProcessStatement, ProcessUserVars, ProcessPredefVars
    <3>2. PICK end \in DOMAIN page : IsFirst(page, end, "close")
                                     /\ page' = Splice(page, i, end, <<>>)
      BY <1>1, <2>3, <2>5, <3>1 DEF ProcessComment, IsCommentEnd, Stay, Go
    <3>3. end \in i..Len(page)
      BY <1>1, <2>1, <2>5, <3>1, <3>2 DEF CommentClosed
    <3>4. <<>> \in Seq(Tokens) /\ \A m \in 1..Len(<<>>) : <<>>[m].kind # Macro[phase]
      OBVIOUS
    <3> QED
      BY <2>2, <3>2, <3>3, <3>4
  <2>6. CASE phase = "function"
    <3>1. Macro[phase] = "function" /\ ProcessFunction
      BY <1>1, <2>6 DEF Macro, Next, Start, ProcessTemplate, ProcessInclude, ProcessComment,
         ProcessStatement, ProcessUserVars, ProcessPredefVars
    <3> DEFINE r == <<Text(Functions[page[i].arg]), Nul>>
    <3>2. page[i].arg \in DOMAIN Functions /\ page' = Splice(page, i, i, r)
      BY <1>1, <2>3, <2>6, <3>1 DEF ProcessFunction, NoFunction, IsMacro, Stay, Go
    <3>3. r \in Seq(Tokens) /\ \A m \in 1..Len(r) : r[m].kind # Macro[phase]
      <4>1. /\ Text(Functions[page[i].arg]) \in Tokens /\ Nul \in Tokens
            /\ Text(Functions[page[i].arg]).kind = "text" /\ Nul.kind = "nul"
        BY <3>2, TextsAssumption, TokensAre DEF Nul, Token
      <4> QED
        BY <3>1, <4>1
    <3> HIDE DEF r
    <3> QED
      BY <2>2, <2>4, <3>2, <3>3
  <2>7. CASE phase = "user"
    <3>1. Macro[phase] = "var" /\ ProcessUserVars
      BY <1>1, <2>7 DEF Macro, Next, Start, ProcessTemplate, ProcessInclude, ProcessComment,
         ProcessFunction, ProcessStatement, ProcessPredefVars
    <3>2. session # NULL /\ page' = Splice(page, i, i, ValueOf(page[i].arg))
      BY <1>1, <2>3, <2>7, <3>1 DEF ProcessUserVars, IsMacro, Stay, Go
    <3>3. /\ ValueOf(page[i].arg) \in Seq(Tokens)
          /\ \A m \in 1..Len(ValueOf(page[i].arg)) : ValueOf(page[i].arg)[m].kind # Macro[phase]
      BY <1>1, <3>1, <3>2, ValueOfTyped
    <3> QED
      BY <2>2, <2>4, <3>2, <3>3
  <2>8. CASE phase = "predef"
    <3>1. Macro[phase] = "predef" /\ ProcessPredefVars
      BY <1>1, <2>8 DEF Macro, Next, Start, ProcessTemplate, ProcessInclude, ProcessComment,
         ProcessFunction, ProcessStatement, ProcessUserVars
    <3>2. page' = Splice(page, i, i, Predefined[page[i].arg])
      BY <1>1, <2>3, <2>8, <3>1 DEF ProcessPredefVars, Stay, Go
    <3>3. /\ Predefined[page[i].arg] \in Seq(Tokens)
          /\ \A m \in 1..Len(Predefined[page[i].arg]) :
                Predefined[page[i].arg][m].kind # Macro[phase]
      BY <1>1, <3>1, PredefinedIs
    <3> QED
      BY <2>2, <2>4, <3>2, <3>3
  <2> QED
    BY <1>1, <2>5, <2>6, <2>7, <2>8 DEF Macro
<1>2. ViewInv /\ [Next]_vars => [Forward]_vars
  BY <1>1, Zenon DEF ViewInv
<1> QED
  BY <1>2, SpecInv, PTL DEF Spec, RoundsAdvance
=============================================================================
