----------------------------- MODULE TextProofs -----------------------------
(***************************************************************************)
(* Theorems about Text, for strings and numbers of any size.               *)
(***************************************************************************)
EXTENDS Text, SequenceTheorems, FiniteSetTheorems, WellFoundedInduction, TLAPS

\* An input is a string of what it is made of.
InputInv == subject \in DOMAIN Subjects /\ input \in Seq(Subjects[subject])

LEMMA SpecInv == Spec => []InputInv
<1>1. Init => InputInv
  BY DEF Init, InputInv
<1>2. InputInv /\ [Next]_vars => InputInv'
  <2> SUFFICES ASSUME InputInv, [Next]_vars PROVE InputInv'
    OBVIOUS
  <2>1. CASE Next
    <3>1. PICK c \in Subjects[subject] : input' = Append(input, c)
      BY <2>1 DEF Next
    <3>2. subject' = subject
      BY <2>1 DEF Next
    <3>3. Append(input, c) \in Seq(Subjects[subject])
      BY DEF InputInv
    <3> QED
      BY <3>1, <3>2, <3>3 DEF InputInv
  <2>2. CASE UNCHANGED vars
    BY <2>2 DEF vars, InputInv
  <2> QED
    BY <2>1, <2>2
<1> QED
  BY <1>1, <1>2, PTL DEF Spec

-----------------------------------------------------------------------------
(* Keys.                                                                   *)

\* A copy that has room for a string is that string.
LEMMA CutWhole ==
    ASSUME NEW S, NEW s \in Seq(S), NEW n \in Nat, Len(s) <= n
    PROVE  Cut(s, n) = s
<1>1. Len(s) \in Nat /\ (IF n < Len(s) THEN n ELSE Len(s)) = Len(s)
  OBVIOUS
<1>2. SubSeq(s, 1, Len(s)) = s
  OBVIOUS
<1> QED
  BY <1>1, <1>2 DEF Cut

\* load_config_tree allocates for a section, a dot and a name just what they
\* take.
LEMMA KeyIsWhole ==
    ASSUME NEW S, NEW section \in Seq(S), NEW name \in Seq(S)
    PROVE  KeyOf(section, name) = section \o <<".">> \o name
<1> DEFINE T == S \cup {"."}
           dot == <<".">>
           n == KeyLength(section, name)
<1>1. section \in Seq(T) /\ name \in Seq(T) /\ dot \in Seq(T) /\ Len(dot) = 1
  OBVIOUS
<1>2. /\ Len(section) \in Nat /\ Len(name) \in Nat
      /\ n = Len(section) + Len(name) + 2
  BY DEF KeyLength
<1> HIDE DEF T, dot, n
<1>3. section \o dot \in Seq(T) /\ Len(section \o dot) = Len(section) + 1
  <2>1. \A u, v \in Seq(T) : u \o v \in Seq(T) /\ Len(u \o v) = Len(u) + Len(v)
    OBVIOUS
  <2>2. section \o dot \in Seq(T) /\ Len(section \o dot) = Len(section) + Len(dot)
    BY <1>1, <2>1, Zenon
  <2> QED
    BY <1>1, <2>2
<1>4. strlcpy(section, n) = section
  <2>1. n - 1 \in Nat /\ Len(section) <= n - 1
    BY <1>2
  <2> QED
    BY <1>1, <2>1, CutWhole DEF strlcpy
<1>5. strlcat(section, dot, n) = section \o dot
  <2>1. n - 1 - Len(section) \in Nat /\ Len(dot) <= n - 1 - Len(section)
    BY <1>1, <1>2
  <2>2. Cut(dot, n - 1 - Len(section)) = dot
    BY <1>1, <2>1, CutWhole
  <2> QED
    BY <2>2, Zenon DEF strlcat
<1>6. strlcat(section \o dot, name, n) = section \o dot \o name
  <2>1. n - 1 - Len(section \o dot) \in Nat /\ Len(name) <= n - 1 - Len(section \o dot)
    BY <1>2, <1>3
  <2>2. Cut(name, n - 1 - Len(section \o dot)) = name
    BY <1>1, <2>1, CutWhole
  <2> QED
    BY <2>2, Zenon DEF strlcat
<1> QED
  BY <1>4, <1>5, <1>6 DEF KeyOf, dot, n

\* The text that joins section, dot and name of an item is stored whole as its
\* key, for sections and names of any length.
THEOREM KeysStoredWhole == Spec => []KeysWhole
<1>1. InputInv => KeysWhole
  <2> SUFFICES ASSUME InputInv, NEW i \in 1..Len(input)
               PROVE  KeyOf(SubSeq(input, 1, i), SubSeq(input, i + 1, Len(input)))
                        = SubSeq(input, 1, i) \o <<".">> \o SubSeq(input, i + 1, Len(input))
    BY DEF KeysWhole
  <2> DEFINE S == Subjects[subject]
  <2>1. SubSeq(input, 1, i) \in Seq(S) /\ SubSeq(input, i + 1, Len(input)) \in Seq(S)
    BY DEF InputInv
  <2> QED
    BY <2>1, KeyIsWhole
<1> QED
  BY <1>1, SpecInv, PTL

-----------------------------------------------------------------------------
(* Extensions.                                                             *)

\* Some places in a string, if any, have a last one.
LEMMA GreatestPlace ==
    ASSUME NEW n \in Nat, NEW I \in SUBSET (1..n), I # {}
    PROVE  Max(I) \in I /\ \A j \in I : j <= Max(I)
<1> DEFINE D == 1..n
           After(i) == {j \in I : j > i}
           Tails == {After(i) : i \in I}
<1>1. IsWellFoundedOn(StrictSubsetOrdering(D), SUBSET D)
  <2>1. IsFiniteSet(D)
    BY FS_Interval
  <2> HIDE DEF D
  <2>2. FiniteSubsetsOf(D) = SUBSET D
    BY <2>1, FS_FiniteSubsetsOfFinite
  <2> QED
    BY <2>1, <2>2, FS_StrictSubsetOrderingWellFounded
<1>2. Tails \subseteq SUBSET D /\ Tails # {}
  OBVIOUS
<1>3. PICK x \in Tails : \A y \in Tails : <<y, x>> \notin StrictSubsetOrdering(D)
  <2> HIDE DEF Tails, D
  <2> QED
    BY <1>1, <1>2, WFMin
<1>4. PICK i \in I : x = After(i)
  OBVIOUS
<1>5. \A j \in I : i >= j
  <2> SUFFICES ASSUME NEW j \in I, j > i PROVE FALSE
    OBVIOUS
  <2>1. After(j) \subseteq After(i) /\ j \in After(i) /\ j \notin After(j)
    <3>1. i \in Int /\ j \in Int /\ \A k \in I : k \in Int
      OBVIOUS
    <3>2. \A k \in I : k > j => k > i
      BY <3>1
    <3>3. After(j) \subseteq After(i)
      <4> SUFFICES ASSUME NEW k \in I, k > j PROVE k > i
        OBVIOUS
      <4> QED
        BY <3>2
    <3> QED
      BY <3>1, <3>3
  <2>2. <<After(j), After(i)>> \in StrictSubsetOrdering(D)
    BY <2>1, <1>2 DEF StrictSubsetOrdering
  <2> QED
    BY <2>2, <1>3, <1>4
<1>6. Max(I) \in I /\ \A j \in I : Max(I) >= j
  BY <1>5 DEF Max
<1> QED
  BY <1>6

\* LastDot is where the last dot is, and 0 if there is none.
LEMMA LastDotIs ==
    ASSUME NEW S, NEW s \in Seq(S)
    PROVE  /\ LastDot(s) \in 0..Len(s)
           /\ LastDot(s) # 0 => s[LastDot(s)] = "."
           /\ \A i \in 1..Len(s) : i > LastDot(s) => s[i] # "."
<1> DEFINE n == Len(s)
           I == {i \in 1..n : s[i] = "."}
           d == LastDot(s)
<1>1. d = IF I # {} THEN Max(I) ELSE 0
  BY DEF LastDot, SelectLastInSeq
<1>2. n \in Nat /\ I \in SUBSET (1..n)
  OBVIOUS
<1>3. I # {} => d \in I /\ \A j \in I : j <= d
  <2> HIDE DEF n, I, d
  <2> QED
    BY <1>1, <1>2, GreatestPlace
<1>4. d \in 0..n
  <2>1. d = 0 \/ d \in 1..n
    BY <1>1, <1>2, <1>3
  <2> HIDE DEF n, d
  <2> QED
    BY <1>2, <2>1
<1>5. d # 0 => s[d] = "."
  <2>1. d # 0 => d \in I
    BY <1>1, <1>3
  <2> QED
    BY <2>1
<1>6. ASSUME NEW i \in 1..n, i > d PROVE s[i] # "."
  <2>1. i \notin I
    <3> HIDE DEF n, I, d
    <3> QED
      BY <1>2, <1>3, <1>4, <1>6
  <2> QED
    BY <2>1
<1> QED
  BY <1>4, <1>5, <1>6

\* What a string has after a place.
LEMMA TailIs ==
    ASSUME NEW S, NEW s \in Seq(S), NEW d \in 0..Len(s)
    PROVE  /\ SubSeq(s, d + 1, Len(s)) \in Seq(S) /\ Len(SubSeq(s, d + 1, Len(s))) = Len(s) - d
           /\ \A i \in 1..(Len(s) - d) : SubSeq(s, d + 1, Len(s))[i] = s[i + d]
BY SubSeqProperties

LEMMA EmptyLength ==
    ASSUME NEW S, NEW s \in Seq(S)
    PROVE  s # <<>> <=> Len(s) >= 1
OBVIOUS

\* A file is stored with an extension that requests can name, exactly if a
\* request that v_extension lets through can ask for it: whatever the name of
\* the file is that the client gave, and however many dots are in it.
THEOREM StoredIsFetchable == Spec => []Fetchable
<1>1. InputInv => Fetchable
  <2> SUFFICES ASSUME InputInv, subject = "name"
               PROVE  validator_file_extension(Stored(input)) <=>
                        \E dot \in 2..Len(input) :
                            /\ input[dot] = "." /\ Len(input) - dot \in 1..EXT_MAX
                            /\ \A i \in (dot + 1)..Len(input) : input[i] # "."
                               /\ input[i] \in Letters
    BY DEF Fetchable
  <2> DEFINE S == Subjects[subject]
             n == Len(input)
             last == LastDot(input)
             after == SubSeq(input, last + 1, n)
             Names(dot) == /\ input[dot] = "." /\ n - dot \in 1..EXT_MAX
                           /\ \A i \in (dot + 1)..n : input[i] # "." /\ input[i] \in Letters
  <2>1. input \in Seq(S) /\ n \in Nat /\ NULL \notin Seq(S) /\ EXT_MAX \in Nat
    BY NullAssumption, LimitAssumption DEF InputInv
  <2>2. /\ last \in 0..n /\ (last # 0 => input[last] = ".")
        /\ \A i \in 1..n : i > last => input[i] # "."
    BY <2>1, LastDotIs
  <2>3. /\ after \in Seq(S) /\ Len(after) = n - last /\ after # NULL
        /\ \A i \in 1..(n - last) : after[i] = input[i + last]
    <3>1. last \in 0..n
      BY <2>2
    <3> HIDE DEF last, S, after
    <3>2. after \in Seq(S) /\ Len(after) = n - last
          /\ \A i \in 1..(n - last) : after[i] = input[i + last]
      BY <2>1, <3>1, TailIs DEF after
    <3> QED
      BY <2>1, <3>2
  <2>4. ASSUME NEW dot \in 2..n, Names(dot) PROVE dot = last
    <3>1. dot \in 1..n /\ ~(dot > last)
      BY <2>1, <2>2, <2>4
    <3>2. last # 0 /\ last \in 1..n /\ last \in Nat /\ dot \in Nat
      BY <2>1, <2>2, <3>1
    <3>3. last \notin (dot + 1)..n
      BY <2>2, <2>4, <3>2
    <3> HIDE DEF last, n
    <3> QED
      BY <2>1, <3>1, <3>2, <3>3
  <2>5. CASE last <= 1
    <3>1. Stored(input) = <<"(", "null", ")">>
      BY <2>5 DEF Stored, file_extension
    <3>2. ~validator_file_extension(Stored(input))
      BY <3>1, LettersAssumption DEF validator_file_extension, strisalpha, isalpha
    <3>3. ~\E dot \in 2..n : Names(dot)
      BY <2>1, <2>2, <2>4, <2>5
    <3> QED
      BY <3>2, <3>3
  <2>6. CASE last > 1
    <3>1. Stored(input) = after
      <4>1. file_extension(input) = after
        BY <2>2, <2>6 DEF file_extension
      <4> QED
        BY <2>3, <4>1 DEF Stored
    <3>2. /\ after \in Seq(S) /\ Len(after) = n - last
          /\ \A i \in 1..(n - last) : after[i] = input[i + last]
          /\ n \in Nat /\ last \in 2..n /\ EXT_MAX \in Nat
          /\ \A i \in 1..n : i > last => input[i] # "."
      BY <2>1, <2>2, <2>3, <2>6
    <3>3. Names(last) <=> validator_file_extension(after)
      <4>1. (n - last \in 1..EXT_MAX) <=> after # <<>> /\ Len(after) <= EXT_MAX
        <5> DEFINE m == n - last
        <5>1. after # <<>> <=> Len(after) >= 1
          BY <3>2, EmptyLength
        <5>2. Len(after) = m /\ m \in Nat /\ EXT_MAX \in Nat
          BY <3>2
        <5> HIDE DEF after, m
        <5>3. m \in 1..EXT_MAX <=> after # <<>> /\ Len(after) <= EXT_MAX
          BY <5>1, <5>2
        <5> QED
          BY <5>3 DEF m
      <4>2. DOMAIN after = 1..(n - last)
        BY <3>2
      <4>3. (\A i \in DOMAIN after : after[i] \in Letters)
              <=> \A i \in (last + 1)..n : input[i] # "." /\ input[i] \in Letters
        <5>1. ASSUME \A i \in DOMAIN after : after[i] \in Letters, NEW i \in (last + 1)..n
              PROVE  input[i] # "." /\ input[i] \in Letters
          <6>1. i \in 1..n /\ i > last /\ i - last \in 1..(n - last) /\ (i - last) + last = i
            BY <3>2
          <6>2. after[i - last] = input[i]
            BY <3>2, <6>1
          <6>3. i - last \in DOMAIN after
            BY <4>2, <6>1, Zenon
          <6>4. input[i] \in Letters
            BY <5>1, <6>2, <6>3, Zenon
          <6>5. input[i] # "."
            BY <3>2, <6>1, Zenon
          <6> QED
            BY <6>4, <6>5
        <5>2. ASSUME \A i \in (last + 1)..n : input[i] # "." /\ input[i] \in Letters,
                     NEW i \in DOMAIN after
              PROVE  after[i] \in Letters
          <6>0. i \in 1..(n - last) /\ n \in Nat /\ last \in Nat
            BY <3>2, <4>2
          <6>1. i \in 1..(n - last) /\ i + last \in (last + 1)..n
            <7> HIDE DEF n, last
            <7> QED
              BY <6>0
          <6>2. after[i] = input[i + last]
            BY <3>2, <6>1
          <6>3. input[i + last] \in Letters
            BY <5>2, <6>1, Zenon
          <6> QED
            BY <6>2, <6>3, Zenon
        <5> QED
          BY <5>1, <5>2
      <4>4. input[last] = "."
        BY <2>2, <2>6
      <4> QED
        BY <4>1, <4>3, <4>4 DEF validator_file_extension, strisalpha, isalpha
    <3>4. (\E dot \in 2..n : Names(dot)) <=> Names(last)
      BY <2>4, <3>2
    <3> QED
      BY <3>1, <3>3, <3>4
  <2> QED
    BY <2>2, <2>5, <2>6
<1> QED
  BY <1>1, SpecInv, PTL

-----------------------------------------------------------------------------
(* Base64url.                                                              *)

\* A group of six bits is written as a character of its own.
LEMMA SixIsCoded == \A six \in 0..63 : b64(six) \in 45..122 /\ unb64(b64(six)) = six
<1> SUFFICES ASSUME NEW six \in 0..63 PROVE b64(six) \in 45..122 /\ unb64(b64(six)) = six
  OBVIOUS
<1>1. CASE six < 26
  <2>1. b64(six) = 65 + six
    BY <1>1 DEF b64
  <2>2. 65 + six \in 65..90
    BY <1>1
  <2> QED
    BY <1>1, <2>1, <2>2 DEF unb64
<1>2. CASE six \in 26..51
  <2>1. b64(six) = 97 + (six - 26)
    BY <1>2 DEF b64
  <2>2. 97 + (six - 26) \in 97..122 /\ 97 + (six - 26) \notin 65..90
    BY <1>2
  <2> QED
    BY <1>2, <2>1, <2>2 DEF unb64
<1>3. CASE six \in 52..61
  <2>1. b64(six) = 48 + (six - 52)
    BY <1>3 DEF b64
  <2>2. 48 + (six - 52) \in 48..57
    BY <1>3
  <2>3. 48 + (six - 52) \notin 65..90 /\ 48 + (six - 52) \notin 97..122
    BY <1>3
  <2> QED
    BY <1>3, <2>1, <2>2, <2>3 DEF unb64
<1>4. CASE six \in {62, 63}
  BY <1>4 DEF b64, unb64
<1> QED
  BY <1>1, <1>2, <1>3, <1>4

\* The four groups of three bytes are groups of six bits, and hold the bytes.
LEMMA BytesOfSixes ==
    ASSUME NEW a \in 0..255, NEW b \in 0..255, NEW c \in 0..255
    PROVE  LET s == Sixes(a, b, c)
           IN  (\A i \in 1..4 : s[i] \in 0..63) /\ Bytes(s[1], s[2], s[3], s[4]) = <<a, b, c>>
<1> DEFINE p == a \div 4
           q == ((a % 4) * 16) + (b \div 16)
           r == ((b % 16) * 4) + (c \div 64)
           t == c % 64
<1>1. p \in 0..63 /\ q \in 0..63 /\ r \in 0..63 /\ t \in 0..63
  OBVIOUS
<1>2. (p * 4) + (q \div 16) = a
  OBVIOUS
<1>3. ((q * 16) + (r \div 4)) % 256 = b
  OBVIOUS
<1>4. ((r * 64) + t) % 256 = c
  OBVIOUS
<1>5. Sixes(a, b, c) = <<p, q, r, t>>
  BY DEF Sixes
<1>6. Bytes(p, q, r, t) = <<a, b, c>>
  <2> HIDE DEF p, q, r, t
  <2> QED
    BY <1>2, <1>3, <1>4 DEF Bytes
<1> QED
  <2> HIDE DEF p, q, r, t
  <2> QED
    BY <1>1, <1>5, <1>6

\* Whatever its bytes are, a group that is encoded is decoded to them.
THEOREM GroupsSurvive ==
    \A a, b, c \in 0..255 :
        LET s == Sixes(a, b, c)
            six(i) == unb64(b64(s[i]))
        IN  Bytes(six(1), six(2), six(3), six(4)) = <<a, b, c>>
<1> SUFFICES ASSUME NEW a \in 0..255, NEW b \in 0..255, NEW c \in 0..255
             PROVE  LET s == Sixes(a, b, c)
                        six(i) == unb64(b64(s[i]))
                    IN  Bytes(six(1), six(2), six(3), six(4)) = <<a, b, c>>
  OBVIOUS
<1> DEFINE s == Sixes(a, b, c)
<1>1. (\A i \in 1..4 : s[i] \in 0..63) /\ Bytes(s[1], s[2], s[3], s[4]) = <<a, b, c>>
  BY BytesOfSixes
<1> HIDE DEF s
<1>2. \A i \in 1..4 : unb64(b64(s[i])) = s[i]
  BY <1>1, SixIsCoded
<1>3. /\ unb64(b64(s[1])) = s[1] /\ unb64(b64(s[2])) = s[2]
      /\ unb64(b64(s[3])) = s[3] /\ unb64(b64(s[4])) = s[4]
  BY <1>2
<1> QED
  BY <1>1, <1>3 DEF s

\* For data and texts of any length, what is written and its NUL fit into what
\* core/jwt.c allocates, and the length that is told of a text is that of the
\* data it was made of.
THEOREM LengthsFit ==
    \A n \in Nat : /\ EncodedLength(n) + 1 <= EncodedSpace(n)
                   /\ DecodedLength(n) + 1 <= DecodedSpace(n)
                   /\ DecodedLength(EncodedLength(n)) = n
<1> SUFFICES ASSUME NEW n \in Nat
             PROVE  /\ EncodedLength(n) + 1 <= EncodedSpace(n)
                    /\ DecodedLength(n) + 1 <= DecodedSpace(n)
                    /\ DecodedLength(EncodedLength(n)) = n
  OBVIOUS
<1>1. EncodedLength(n) + 1 <= EncodedSpace(n)
  BY DEF EncodedLength, EncodedSpace, Pad
<1>2. DecodedLength(n) + 1 <= DecodedSpace(n)
  BY DEF DecodedLength, DecodedSpace, ShortOfGroup
<1>3. DecodedLength(EncodedLength(n)) = n
  BY DEF DecodedLength, EncodedLength, ShortOfGroup, Pad
<1> QED
  BY <1>1, <1>2, <1>3

\* The bytes of data that an encoder reads, and the groups it makes of them.
ByteAt(data, i) == IF i <= Len(data) THEN data[i] ELSE 0
GroupAt(data, g) == Sixes(ByteAt(data, 3*g + 1), ByteAt(data, 3*g + 2), ByteAt(data, 3*g + 3))

LEMMA ByteAtIsByte ==
    ASSUME NEW data \in Seq(0..255), NEW i \in Nat \ {0}
    PROVE  ByteAt(data, i) \in 0..255
<1>1. i <= Len(data) => data[i] \in 0..255
  BY ElementOfSeq
<1> QED
  BY <1>1 DEF ByteAt

LEMMA TableIsSeq ==
    ASSUME NEW S, NEW n \in Nat, NEW f \in [1..n -> S]
    PROVE  f \in Seq(S) /\ Len(f) = n /\ DOMAIN f = 1..n
OBVIOUS

LEMMA CodeLength ==
    \A n \in Nat : 4 * (n \div 3) + RestLength(n % 3) \in Nat
BY DEF RestLength

\* Each character of an encoded text stands for a group of six bits.
LEMMA EncodedIs ==
    ASSUME NEW data \in Seq(0..255)
    PROVE  LET n == Len(data)
               length == 4 * (n \div 3) + RestLength(n % 3)
               code == base64url_encode(data)
           IN  /\ length \in Nat /\ DOMAIN code = 1..length /\ Len(code) = length
               /\ code \in Seq(45..122)
               /\ \A i \in 1..length :
                    unb64(code[i]) = GroupAt(data, (i - 1) \div 4)[((i - 1) % 4) + 1]
<1> DEFINE n == Len(data)
           length == 4 * (n \div 3) + RestLength(n % 3)
           code == base64url_encode(data)
           at(i) == GroupAt(data, (i - 1) \div 4)[((i - 1) % 4) + 1]
<1>1. n \in Nat /\ length \in Nat
  <2>1. n \in Nat
    OBVIOUS
  <2> QED
    BY <2>1, CodeLength
<1>2. code = [i \in 1..length |-> b64(at(i))]
  BY DEF base64url_encode, GroupAt, ByteAt
<1>3. \A i \in 1..length : at(i) \in 0..63
  <2> SUFFICES ASSUME NEW i \in 1..length PROVE at(i) \in 0..63
    OBVIOUS
  <2>1. (i - 1) \div 4 \in Nat /\ ((i - 1) % 4) + 1 \in 1..4
    BY <1>1
  <2> HIDE DEF length
  <2> DEFINE g == (i - 1) \div 4
             k == ((i - 1) % 4) + 1
  <2>2. g \in Nat /\ k \in 1..4
    BY <2>1
  <2> HIDE DEF g, k
  <2>3. /\ ByteAt(data, 3*g + 1) \in 0..255 /\ ByteAt(data, 3*g + 2) \in 0..255
        /\ ByteAt(data, 3*g + 3) \in 0..255
    <3>1. 3*g + 1 \in Nat \ {0} /\ 3*g + 2 \in Nat \ {0} /\ 3*g + 3 \in Nat \ {0}
      BY <2>2
    <3> QED
      BY <3>1, ByteAtIsByte, Zenon
  <2>4. GroupAt(data, g)[k] \in 0..63
    BY <2>2, <2>3, BytesOfSixes, Zenon DEF GroupAt
  <2> QED
    BY <2>4 DEF g, k
<1> HIDE DEF length, at, code
<1>4. \A i \in 1..length : b64(at(i)) \in 45..122 /\ unb64(b64(at(i))) = at(i)
  BY <1>3, SixIsCoded
<1>5. DOMAIN code = 1..length /\ Len(code) = length /\ code \in Seq(45..122)
  <2>1. code \in [1..length -> 45..122]
    BY <1>2, <1>4
  <2> QED
    BY <1>1, <2>1, TableIsSeq
<1>6. \A i \in 1..length : unb64(code[i]) = at(i)
  BY <1>2, <1>4
<1> QED
  BY <1>1, <1>5, <1>6 DEF length, at, code

\* The bits of the data, with zeros behind them.
Weights == <<128, 64, 32, 16, 8, 4, 2, 1>>
BitAt(data, k) == (ByteAt(data, (k \div 8) + 1) \div Weights[(k % 8) + 1]) % 2

LEMMA BitsBehind ==
    ASSUME NEW data \in Seq(0..255), NEW k \in Nat
    PROVE  (IF k < 8 * Len(data) THEN Bit(data, k) ELSE 0) = BitAt(data, k)
<1>1. CASE k < 8 * Len(data)
  <2>1. (k \div 8) + 1 <= Len(data)
    <3> DEFINE n == Len(data)
    <3>1. n \in Nat /\ k < 8 * n
      BY <1>1
    <3> HIDE DEF n
    <3>2. (k \div 8) + 1 <= n
      BY <3>1
    <3> QED
      BY <3>2 DEF n
  <2> QED
    BY <1>1, <2>1 DEF Bit, BitAt, ByteAt, Weights
<1>2. CASE ~(k < 8 * Len(data))
  <2>1. ~((k \div 8) + 1 <= Len(data))
    <3> DEFINE n == Len(data)
    <3>1. n \in Nat /\ ~(k < 8 * n)
      BY <1>2
    <3> HIDE DEF n
    <3>2. ~((k \div 8) + 1 <= n)
      BY <3>1
    <3> QED
      BY <3>2 DEF n
  <2>2. ByteAt(data, (k \div 8) + 1) = 0
    BY <2>1 DEF ByteAt
  <2>3. k % 8 \in 0..7
    OBVIOUS
  <2>4. \A u \in 0..7 : (0 \div Weights[u + 1]) % 2 = 0
    BY DEF Weights
  <2> QED
    BY <1>2, <2>2, <2>3, <2>4 DEF BitAt
<1> QED
  BY <1>1, <1>2

BitOf(a, w) == (a \div w) % 2

\* A byte by its bits.
LEMMA EightBits ==
    ASSUME NEW a \in 0..255
    PROVE  /\ \A w \in {128, 64, 32, 16, 8, 4, 2, 1} : BitOf(a, w) \in 0..1
           /\ a = 128 * BitOf(a, 128) + 64 * BitOf(a, 64) + 32 * BitOf(a, 32)
                  + 16 * BitOf(a, 16) + 8 * BitOf(a, 8) + 4 * BitOf(a, 4) + 2 * BitOf(a, 2)
                  + BitOf(a, 1)
BY DEF BitOf

LEMMA PartsOfByte ==
    ASSUME NEW a \in 0..255
    PROVE  /\ a \div 4 = 32 * BitOf(a, 128) + 16 * BitOf(a, 64) + 8 * BitOf(a, 32)
                  + 4 * BitOf(a, 16) + 2 * BitOf(a, 8) + BitOf(a, 4)
           /\ a % 4 = 2 * BitOf(a, 2) + BitOf(a, 1)
           /\ a \div 16 = 8 * BitOf(a, 128) + 4 * BitOf(a, 64) + 2 * BitOf(a, 32) + BitOf(a, 16)
           /\ a % 16 = 8 * BitOf(a, 8)
                  + 4 * BitOf(a, 4) + 2 * BitOf(a, 2) + BitOf(a, 1)
           /\ a \div 64 = 2 * BitOf(a, 128) + BitOf(a, 64)
           /\ a % 64 = 32 * BitOf(a, 32) + 16 * BitOf(a, 16) + 8 * BitOf(a, 8)
                  + 4 * BitOf(a, 4) + 2 * BitOf(a, 2) + BitOf(a, 1)
<1> DEFINE b7 == BitOf(a, 128)
           b6 == BitOf(a, 64)
           b5 == BitOf(a, 32)
           b4 == BitOf(a, 16)
           b3 == BitOf(a, 8)
           b2 == BitOf(a, 4)
           b1 == BitOf(a, 2)
           b0 == BitOf(a, 1)
<1>1. /\ b7 \in 0..1 /\ b6 \in 0..1 /\ b5 \in 0..1 /\ b4 \in 0..1
      /\ b3 \in 0..1 /\ b2 \in 0..1 /\ b1 \in 0..1 /\ b0 \in 0..1
  BY DEF BitOf
<1>2. a = 128 * b7 + 64 * b6 + 32 * b5 + 16 * b4 + 8 * b3 + 4 * b2 + 2 * b1 + b0
  BY EightBits
<1> HIDE DEF b7, b6, b5, b4, b3, b2, b1, b0
<1>3. /\ a \div 4 = 32 * b7 + 16 * b6 + 8 * b5 + 4 * b4 + 2 * b3 + b2
      /\ a % 4 = 2 * b1 + b0
      /\ a \div 16 = 8 * b7 + 4 * b6 + 2 * b5 + b4
      /\ a % 16 = 8 * b3 + 4 * b2 + 2 * b1 + b0
      /\ a \div 64 = 2 * b7 + b6
      /\ a % 64 = 32 * b5 + 16 * b4 + 8 * b3 + 4 * b2 + 2 * b1 + b0
  BY <1>1, <1>2
<1> QED
  BY <1>3 DEF b7, b6, b5, b4, b3, b2, b1, b0

\* Three groups of eight bits, six by six.
BySix(a, b, c) ==
    <<32 * BitOf(a, 128) + 16 * BitOf(a, 64) + 8 * BitOf(a, 32)
        + 4 * BitOf(a, 16) + 2 * BitOf(a, 8) + BitOf(a, 4),
      32 * BitOf(a, 2) + 16 * BitOf(a, 1) + 8 * BitOf(b, 128)
        + 4 * BitOf(b, 64) + 2 * BitOf(b, 32) + BitOf(b, 16),
      32 * BitOf(b, 8) + 16 * BitOf(b, 4) + 8 * BitOf(b, 2)
        + 4 * BitOf(b, 1) + 2 * BitOf(c, 128) + BitOf(c, 64),
      32 * BitOf(c, 32) + 16 * BitOf(c, 16) + 8 * BitOf(c, 8)
        + 4 * BitOf(c, 4) + 2 * BitOf(c, 2) + BitOf(c, 1)>>

LEMMA SixesAreBits ==
    ASSUME NEW a \in 0..255, NEW b \in 0..255, NEW c \in 0..255
    PROVE  Sixes(a, b, c) = BySix(a, b, c)
<1>1. a \div 4
       = 32 * BitOf(a, 128) + 16 * BitOf(a, 64) + 8 * BitOf(a, 32)
         + 4 * BitOf(a, 16) + 2 * BitOf(a, 8) + BitOf(a, 4)
  BY PartsOfByte
<1>2. ((a % 4) * 16) + (b \div 16)
       = 32 * BitOf(a, 2) + 16 * BitOf(a, 1) + 8 * BitOf(b, 128)
         + 4 * BitOf(b, 64) + 2 * BitOf(b, 32) + BitOf(b, 16)
  <2> DEFINE a1 == BitOf(a, 2)
             a0 == BitOf(a, 1)
             b7 == BitOf(b, 128)
             b6 == BitOf(b, 64)
             b5 == BitOf(b, 32)
             b4 == BitOf(b, 16)
  <2>1. a % 4 = 2 * a1 + a0 /\ b \div 16 = 8 * b7 + 4 * b6 + 2 * b5 + b4
    BY PartsOfByte
  <2>2. /\ a1 \in 0..1 /\ a0 \in 0..1 /\ b7 \in 0..1
        /\ b6 \in 0..1 /\ b5 \in 0..1 /\ b4 \in 0..1
    BY DEF BitOf
  <2> HIDE DEF a1, a0, b7, b6, b5, b4
  <2>3. ((a % 4) * 16) + (b \div 16) = 32 * a1 + 16 * a0 + 8 * b7 + 4 * b6 + 2 * b5 + b4
    BY <2>1, <2>2
  <2> QED
    BY <2>3 DEF a1, a0, b7, b6, b5, b4
<1>3. ((b % 16) * 4) + (c \div 64)
       = 32 * BitOf(b, 8) + 16 * BitOf(b, 4) + 8 * BitOf(b, 2)
         + 4 * BitOf(b, 1) + 2 * BitOf(c, 128) + BitOf(c, 64)
  <2> DEFINE b3 == BitOf(b, 8)
             b2 == BitOf(b, 4)
             b1 == BitOf(b, 2)
             b0 == BitOf(b, 1)
             c7 == BitOf(c, 128)
             c6 == BitOf(c, 64)
  <2>1. b % 16 = 8 * b3 + 4 * b2 + 2 * b1 + b0 /\ c \div 64 = 2 * c7 + c6
    BY PartsOfByte
  <2>2. /\ b3 \in 0..1 /\ b2 \in 0..1 /\ b1 \in 0..1
        /\ b0 \in 0..1 /\ c7 \in 0..1 /\ c6 \in 0..1
    BY DEF BitOf
  <2> HIDE DEF b3, b2, b1, b0, c7, c6
  <2>3. ((b % 16) * 4) + (c \div 64) = 32 * b3 + 16 * b2 + 8 * b1 + 4 * b0 + 2 * c7 + c6
    BY <2>1, <2>2
  <2> QED
    BY <2>3 DEF b3, b2, b1, b0, c7, c6
<1>4. c % 64
       = 32 * BitOf(c, 32) + 16 * BitOf(c, 16) + 8 * BitOf(c, 8)
         + 4 * BitOf(c, 4) + 2 * BitOf(c, 2) + BitOf(c, 1)
  BY PartsOfByte
<1> QED
  BY <1>1, <1>2, <1>3, <1>4 DEF Sixes, BySix

\* The bits of a byte are at eight times its place.
BitsAre(data, q, x) ==
    /\ BitAt(data, 8*q + 0) = BitOf(x, 128)
    /\ BitAt(data, 8*q + 1) = BitOf(x, 64)
    /\ BitAt(data, 8*q + 2) = BitOf(x, 32)
    /\ BitAt(data, 8*q + 3) = BitOf(x, 16)
    /\ BitAt(data, 8*q + 4) = BitOf(x, 8)
    /\ BitAt(data, 8*q + 5) = BitOf(x, 4)
    /\ BitAt(data, 8*q + 6) = BitOf(x, 2)
    /\ BitAt(data, 8*q + 7) = BitOf(x, 1)

LEMMA BitsOfByte ==
    ASSUME NEW data, NEW q \in Nat
    PROVE  BitsAre(data, q, ByteAt(data, q + 1))
<1> DEFINE x == ByteAt(data, q + 1)
<1> USE DEF BitAt, BitOf, Weights
<1>1. BitAt(data, 8*q + 0) = BitOf(x, 128)
  <2>1. ((8*q + 0) \div 8) + 1 = q + 1 /\ ((8*q + 0) % 8) + 1 = 1
    OBVIOUS
  <2> QED
    BY <2>1
<1>2. BitAt(data, 8*q + 1) = BitOf(x, 64)
  <2>1. ((8*q + 1) \div 8) + 1 = q + 1 /\ ((8*q + 1) % 8) + 1 = 2
    OBVIOUS
  <2> QED
    BY <2>1
<1>3. BitAt(data, 8*q + 2) = BitOf(x, 32)
  <2>1. ((8*q + 2) \div 8) + 1 = q + 1 /\ ((8*q + 2) % 8) + 1 = 3
    OBVIOUS
  <2> QED
    BY <2>1
<1>4. BitAt(data, 8*q + 3) = BitOf(x, 16)
  <2>1. ((8*q + 3) \div 8) + 1 = q + 1 /\ ((8*q + 3) % 8) + 1 = 4
    OBVIOUS
  <2> QED
    BY <2>1
<1>5. BitAt(data, 8*q + 4) = BitOf(x, 8)
  <2>1. ((8*q + 4) \div 8) + 1 = q + 1 /\ ((8*q + 4) % 8) + 1 = 5
    OBVIOUS
  <2> QED
    BY <2>1
<1>6. BitAt(data, 8*q + 5) = BitOf(x, 4)
  <2>1. ((8*q + 5) \div 8) + 1 = q + 1 /\ ((8*q + 5) % 8) + 1 = 6
    OBVIOUS
  <2> QED
    BY <2>1
<1>7. BitAt(data, 8*q + 6) = BitOf(x, 2)
  <2>1. ((8*q + 6) \div 8) + 1 = q + 1 /\ ((8*q + 6) % 8) + 1 = 7
    OBVIOUS
  <2> QED
    BY <2>1
<1>8. BitAt(data, 8*q + 7) = BitOf(x, 1)
  <2>1. ((8*q + 7) \div 8) + 1 = q + 1 /\ ((8*q + 7) % 8) + 1 = 8
    OBVIOUS
  <2> QED
    BY <2>1
<1> QED
  BY <1>1, <1>2, <1>3, <1>4, <1>5, <1>6, <1>7, <1>8, Zenon DEF BitsAre

\* The number that six bits of the data make.
SixAt(data, j) ==
    32 * BitAt(data, 6*j) + 16 * BitAt(data, 6*j + 1) + 8 * BitAt(data, 6*j + 2)
      + 4 * BitAt(data, 6*j + 3) + 2 * BitAt(data, 6*j + 4) + BitAt(data, 6*j + 5)

InGroup(data, q, a, b, c, j, m) ==
    /\ j \in Nat /\ m \in 1..4 /\ 6*j + 6 = 8*q + 6*m
    /\ a \in 0..255 /\ b \in 0..255 /\ c \in 0..255 /\ q \in Nat
    /\ BitsAre(data, q, a) /\ BitsAre(data, q + 1, b) /\ BitsAre(data, q + 2, c)

\* Six bits of a group of three bytes are a group of six.
LEMMA SixOfGroup ==
    ASSUME NEW data, NEW q, NEW a, NEW b, NEW c, NEW j, NEW m, InGroup(data, q, a, b, c, j, m)
    PROVE  SixAt(data, j) = Sixes(a, b, c)[m]
<1> USE DEF InGroup
<1>1. Sixes(a, b, c) = BySix(a, b, c)
  BY SixesAreBits, Zenon
<1>2. CASE m = 1
  <2>1. /\ 6*j = 8*q + 0 /\ 6*j + 1 = 8*q + 1
        /\ 6*j + 2 = 8*q + 2 /\ 6*j + 3 = 8*q + 3
        /\ 6*j + 4 = 8*q + 4 /\ 6*j + 5 = 8*q + 5
    BY <1>2
  <2>2. /\ BitAt(data, 6*j) = BitOf(a, 128) /\ BitAt(data, 6*j + 1) = BitOf(a, 64)
        /\ BitAt(data, 6*j + 2) = BitOf(a, 32) /\ BitAt(data, 6*j + 3) = BitOf(a, 16)
        /\ BitAt(data, 6*j + 4) = BitOf(a, 8) /\ BitAt(data, 6*j + 5) = BitOf(a, 4)
    BY <2>1, SMT DEF BitsAre
  <2> QED
    BY <1>2, <1>1, <2>2 DEF BySix, SixAt
<1>3. CASE m = 2
  <2>1. /\ 6*j = 8*q + 6 /\ 6*j + 1 = 8*q + 7
        /\ 6*j + 2 = 8*(q + 1) + 0 /\ 6*j + 3 = 8*(q + 1) + 1
        /\ 6*j + 4 = 8*(q + 1) + 2 /\ 6*j + 5 = 8*(q + 1) + 3
    BY <1>3
  <2>2. /\ BitAt(data, 6*j) = BitOf(a, 2) /\ BitAt(data, 6*j + 1) = BitOf(a, 1)
        /\ BitAt(data, 6*j + 2) = BitOf(b, 128) /\ BitAt(data, 6*j + 3) = BitOf(b, 64)
        /\ BitAt(data, 6*j + 4) = BitOf(b, 32) /\ BitAt(data, 6*j + 5) = BitOf(b, 16)
    BY <2>1, SMT DEF BitsAre
  <2> QED
    BY <1>3, <1>1, <2>2 DEF BySix, SixAt
<1>4. CASE m = 3
  <2>1. /\ 6*j = 8*(q + 1) + 4 /\ 6*j + 1 = 8*(q + 1) + 5
        /\ 6*j + 2 = 8*(q + 1) + 6 /\ 6*j + 3 = 8*(q + 1) + 7
        /\ 6*j + 4 = 8*(q + 2) + 0 /\ 6*j + 5 = 8*(q + 2) + 1
    BY <1>4
  <2>2. /\ BitAt(data, 6*j) = BitOf(b, 8) /\ BitAt(data, 6*j + 1) = BitOf(b, 4)
        /\ BitAt(data, 6*j + 2) = BitOf(b, 2) /\ BitAt(data, 6*j + 3) = BitOf(b, 1)
        /\ BitAt(data, 6*j + 4) = BitOf(c, 128) /\ BitAt(data, 6*j + 5) = BitOf(c, 64)
    BY <2>1, SMT DEF BitsAre
  <2> QED
    BY <1>4, <1>1, <2>2 DEF BySix, SixAt
<1>5. CASE m = 4
  <2>1. /\ 6*j = 8*(q + 2) + 2 /\ 6*j + 1 = 8*(q + 2) + 3
        /\ 6*j + 2 = 8*(q + 2) + 4 /\ 6*j + 3 = 8*(q + 2) + 5
        /\ 6*j + 4 = 8*(q + 2) + 6 /\ 6*j + 5 = 8*(q + 2) + 7
    BY <1>5
  <2>2. /\ BitAt(data, 6*j) = BitOf(c, 32) /\ BitAt(data, 6*j + 1) = BitOf(c, 16)
        /\ BitAt(data, 6*j + 2) = BitOf(c, 8) /\ BitAt(data, 6*j + 3) = BitOf(c, 4)
        /\ BitAt(data, 6*j + 4) = BitOf(c, 2) /\ BitAt(data, 6*j + 5) = BitOf(c, 1)
    BY <2>1, SMT DEF BitsAre
  <2> QED
    BY <1>5, <1>1, <2>2 DEF BySix, SixAt
<1> QED
  BY <1>2, <1>3, <1>4, <1>5

\* Six bits of the data are a group of six of its encoder.
LEMMA SixIsGroup ==
    ASSUME NEW data \in Seq(0..255), NEW j \in Nat
    PROVE  SixAt(data, j) = GroupAt(data, j \div 4)[(j % 4) + 1]
<1>0. PICK g \in Nat, m \in 1..4 : g = j \div 4 /\ m = (j % 4) + 1
  OBVIOUS
<1>1. j = 4*g + (m - 1)
  BY <1>0
<1> DEFINE q == 3 * g
           a == ByteAt(data, q + 1)
           b == ByteAt(data, q + 2)
           c == ByteAt(data, q + 3)
<1>2. /\ q \in Nat /\ q + 1 \in Nat /\ q + 2 \in Nat /\ 6*j + 6 = 8*q + 6*m
      /\ q + 1 \in Nat \ {0} /\ q + 2 \in Nat \ {0} /\ q + 3 \in Nat \ {0}
      /\ (q + 1) + 1 = q + 2 /\ (q + 2) + 1 = q + 3
  BY <1>1
<1>3. GroupAt(data, g) = Sixes(a, b, c)
  BY DEF GroupAt
<1> HIDE DEF q
<1>4. a \in 0..255 /\ b \in 0..255 /\ c \in 0..255
  BY <1>2, ByteAtIsByte
<1>5. BitsAre(data, q, a) /\ BitsAre(data, q + 1, b) /\ BitsAre(data, q + 2, c)
  <2>1. /\ BitsAre(data, q, ByteAt(data, q + 1))
        /\ BitsAre(data, q + 1, ByteAt(data, (q + 1) + 1))
        /\ BitsAre(data, q + 2, ByteAt(data, (q + 2) + 1))
    BY <1>2, BitsOfByte, Zenon
  <2> QED
    BY <1>2, <2>1
<1> HIDE DEF a, b, c
<1>6. InGroup(data, q, a, b, c, j, m)
  BY <1>2, <1>4, <1>5 DEF InGroup
<1>7. SixAt(data, j) = Sixes(a, b, c)[m]
  BY <1>6, SixOfGroup
<1> QED
  BY <1>0, <1>3, <1>7

\* The bits of the data stand in its code six by six.
LEMMA EncodedInSixes ==
    ASSUME NEW data \in Seq(0..255)
    PROVE  LET code == base64url_encode(data)
           IN  [i \in DOMAIN code |-> unb64(code[i])] = InSixes(data)
<1> DEFINE n == Len(data)
           length == 4 * (n \div 3) + RestLength(n % 3)
           code == base64url_encode(data)
           bit(k) == IF k < 8 * n THEN Bit(data, k) ELSE 0
           six(j) == 32 * bit(6*j) + 16 * bit(6*j + 1) + 8 * bit(6*j + 2)
                     + 4 * bit(6*j + 3) + 2 * bit(6*j + 4) + bit(6*j + 5)
<1>1. /\ n \in Nat /\ length \in Nat /\ DOMAIN code = 1..length
      /\ \A i \in 1..length :
           unb64(code[i]) = GroupAt(data, (i - 1) \div 4)[((i - 1) % 4) + 1]
  BY EncodedIs
<1>2. (8 * n + 5) \div 6 = length
  <2>1. n \in Nat
    OBVIOUS
  <2> HIDE DEF n
  <2> QED
    BY <2>1 DEF RestLength
<1>3. InSixes(data) = [j \in 1..length |-> six(j - 1)]
  <2>1. InSixes(data) = [j \in 1..(8 * n + 5) \div 6 |-> six(j - 1)]
    BY DEF InSixes
  <2> HIDE DEF length, six
  <2> QED
    BY <1>2, <2>1
<1>4. ASSUME NEW i \in 1..length PROVE six(i - 1) = unb64(code[i])
  <2> DEFINE j == i - 1
  <2>1. j \in Nat
    BY <1>1
  <2> HIDE DEF j
  <2>2. \A k \in Nat : bit(k) = BitAt(data, k)
    BY BitsBehind
  <2> HIDE DEF bit
  <2>3. /\ 6*j \in Nat /\ 6*j + 1 \in Nat /\ 6*j + 2 \in Nat /\ 6*j + 3 \in Nat
        /\ 6*j + 4 \in Nat /\ 6*j + 5 \in Nat
    BY <2>1
  <2>4. six(j) = GroupAt(data, j \div 4)[(j % 4) + 1]
    BY <2>1, <2>2, <2>3, SixIsGroup DEF SixAt
  <2> HIDE DEF six, code
  <2>5. six(i - 1) = GroupAt(data, (i - 1) \div 4)[((i - 1) % 4) + 1]
    BY <2>4 DEF j
  <2> QED
    BY <1>1, <2>5
<1> HIDE DEF length, six, code
<1>5. [i \in DOMAIN code |-> unb64(code[i])] = InSixes(data)
  BY <1>1, <1>3, <1>4
<1> QED
  BY <1>5 DEF code

\* Where the code of a group is cut off there are only zeros.
LEMMA CutOffIsZero ==
    ASSUME NEW data \in Seq(0..255), NEW g \in Nat, 3*g < Len(data), NEW k \in 1..4,
           4*g + k > 4 * (Len(data) \div 3) + RestLength(Len(data) % 3)
    PROVE  GroupAt(data, g)[k] = 0
<1> DEFINE n == Len(data)
           a == ByteAt(data, 3*g + 1)
           b == ByteAt(data, 3*g + 2)
           c == ByteAt(data, 3*g + 3)
<1>1. n \in Nat /\ 3*g < n /\ 4*g + k > 4 * (n \div 3) + RestLength(n % 3)
  OBVIOUS
<1>3. \/ k = 4 /\ ~(3*g + 3 <= n)
      \/ k = 3 /\ ~(3*g + 3 <= n) /\ ~(3*g + 2 <= n)
  <2> HIDE DEF n
  <2> QED
    BY <1>1 DEF RestLength
<1>4. (~(3*g + 3 <= n) => c = 0) /\ (~(3*g + 2 <= n) => b = 0)
  BY DEF ByteAt
<1>5. GroupAt(data, g) = Sixes(a, b, c)
  BY DEF GroupAt
<1> HIDE DEF a, b, c, n
<1>6. c = 0 => Sixes(a, b, c)[4] = 0
  BY DEF Sixes
<1>7. c = 0 /\ b = 0 => Sixes(a, b, c)[3] = 0
  BY DEF Sixes
<1> QED
  BY <1>3, <1>4, <1>5, <1>6, <1>7

LEMMA PlaceOfSix ==
    ASSUME NEW g \in Nat, NEW k \in 1..4
    PROVE  \E i \in Nat \ {0} : i = 4*g + k /\ (i - 1) \div 4 = g /\ ((i - 1) % 4) + 1 = k
OBVIOUS

LEMMA PlaceOfByte ==
    ASSUME NEW i \in Nat \ {0}
    PROVE  \E g \in Nat, k \in 1..3 : /\ g = (i - 1) \div 3 /\ k = ((i - 1) % 3) + 1
                                     /\ i = 3*g + k /\ 3*g < i
OBVIOUS

\* Whatever its length is, data that is encoded is decoded to itself.
LEMMA DecodedIs ==
    ASSUME NEW data \in Seq(0..255)
    PROVE  base64url_decode(base64url_encode(data)) = data
<1> DEFINE n == Len(data)
           length == 4 * (n \div 3) + RestLength(n % 3)
           code == base64url_encode(data)
           pad == ShortOfGroup(length)
           six(i) == IF i <= length THEN unb64(code[i]) ELSE 0
           group(g) == Bytes(six(4*g + 1), six(4*g + 2), six(4*g + 3), six(4*g + 4))
<1>1. /\ n \in Nat /\ length \in Nat /\ Len(code) = length
      /\ \A i \in 1..length :
           unb64(code[i]) = GroupAt(data, (i - 1) \div 4)[((i - 1) % 4) + 1]
  BY EncodedIs
<1>2. 3 * ((length + pad) \div 4) - pad = n
  <2>1. n \in Nat
    OBVIOUS
  <2> HIDE DEF n
  <2> QED
    BY <2>1 DEF RestLength, ShortOfGroup
<1>3. base64url_decode(code) = [i \in 1..n |-> group((i - 1) \div 3)[((i - 1) % 3) + 1]]
  <2>1. base64url_decode(code)
          = [i \in 1..3 * ((length + pad) \div 4) - pad |->
                group((i - 1) \div 3)[((i - 1) % 3) + 1]]
    <3> HIDE DEF length, code
    <3> QED
      BY <1>1 DEF base64url_decode
  <2> HIDE DEF length, pad, group
  <2> QED
    BY <1>2, <2>1
<1>4. ASSUME NEW g \in Nat, 3*g < n
      PROVE  group(g) = <<ByteAt(data, 3*g + 1), ByteAt(data, 3*g + 2), ByteAt(data, 3*g + 3)>>
  <2> DEFINE s == GroupAt(data, g)
  <2>1. ASSUME NEW k \in 1..4 PROVE six(4*g + k) = s[k]
    <3>0. PICK i \in Nat \ {0} : i = 4*g + k /\ (i - 1) \div 4 = g /\ ((i - 1) % 4) + 1 = k
      BY PlaceOfSix
    <3> HIDE DEF length, code
    <3>1. CASE i <= length
      <4>1. i \in 1..length
        BY <1>1, <3>1
      <4>2. unb64(code[i]) = GroupAt(data, (i - 1) \div 4)[((i - 1) % 4) + 1]
        BY <1>1, <4>1, Zenon
      <4>3. unb64(code[i]) = s[k]
        BY <3>0, <4>2
      <4> QED
        BY <3>0, <3>1, <4>3
    <3>2. CASE ~(i <= length)
      <4>1. 4*g + k > length
        BY <1>1, <3>0, <3>2
      <4>2. 3*g < Len(data) /\ 4*g + k > 4 * (Len(data) \div 3) + RestLength(Len(data) % 3)
        BY <1>4, <4>1, Zenon DEF length
      <4>3. s[k] = 0
        BY <4>2, CutOffIsZero, Zenon
      <4> QED
        BY <3>0, <3>2, <4>3
    <3> QED
      BY <3>1, <3>2
  <2>2. group(g) = Bytes(s[1], s[2], s[3], s[4])
    <3> HIDE DEF six, s
    <3> QED
      BY <2>1
  <2> HIDE DEF group
  <2>4. PICK a \in 0..255, b \in 0..255, c \in 0..255 :
            /\ a = ByteAt(data, 3*g + 1) /\ b = ByteAt(data, 3*g + 2)
            /\ c = ByteAt(data, 3*g + 3)
    <3>1. 3*g + 1 \in Nat \ {0} /\ 3*g + 2 \in Nat \ {0} /\ 3*g + 3 \in Nat \ {0}
      OBVIOUS
    <3>2. /\ ByteAt(data, 3*g + 1) \in 0..255 /\ ByteAt(data, 3*g + 2) \in 0..255
          /\ ByteAt(data, 3*g + 3) \in 0..255
      BY <3>1, ByteAtIsByte, Zenon
    <3> QED
      BY <3>2, Zenon
  <2>5. s = Sixes(a, b, c)
    BY <2>4 DEF GroupAt
  <2>6. LET z == Sixes(a, b, c)
        IN  Bytes(z[1], z[2], z[3], z[4]) = <<a, b, c>>
    BY BytesOfSixes, Zenon
  <2>7. group(g) = <<a, b, c>>
    <3> HIDE DEF s
    <3> QED
      BY <2>2, <2>5, <2>6
  <2> QED
    BY <2>4, <2>7
<1>5. ASSUME NEW i \in 1..n PROVE group((i - 1) \div 3)[((i - 1) % 3) + 1] = data[i]
  <2>0. i \in Nat \ {0} /\ i <= n
    BY <1>1, <1>5
  <2>1. PICK g \in Nat, k \in 1..3 : /\ g = (i - 1) \div 3 /\ k = ((i - 1) % 3) + 1
                                     /\ i = 3*g + k /\ 3*g < i
    BY <2>0, PlaceOfByte
  <2> HIDE DEF n
  <2>2. 3*g < n
    BY <1>1, <2>0, <2>1
  <2>3. group(g) = <<ByteAt(data, 3*g + 1), ByteAt(data, 3*g + 2), ByteAt(data, 3*g + 3)>>
    BY <1>4, <2>2
  <2> HIDE DEF group
  <2>4. group(g)[k] = ByteAt(data, 3*g + k)
    <3>1. CASE k = 1
      BY <2>3, <3>1
    <3>2. CASE k = 2
      BY <2>3, <3>2
    <3>3. CASE k = 3
      BY <2>3, <3>3
    <3> QED
      BY <3>1, <3>2, <3>3
  <2>5. ByteAt(data, 3*g + k) = data[i]
    BY <2>0, <2>1 DEF ByteAt, n
  <2> QED
    BY <2>1, <2>4, <2>5
<1> HIDE DEF group
<1>6. base64url_decode(code) = [i \in 1..n |-> data[i]]
  BY <1>3, <1>5
<1>7. data = [i \in 1..n |-> data[i]]
  OBVIOUS
<1> QED
  BY <1>6, <1>7, Zenon

LEMMA Widened ==
    ASSUME NEW S, NEW T, S \subseteq T, NEW s \in Seq(S)
    PROVE  s \in Seq(T) /\ Len(s) \in Nat
<1>1. Len(s) \in Nat /\ s \in [1..Len(s) -> S]
  OBVIOUS
<1>2. s \in [1..Len(s) -> T]
  BY <1>1
<1> QED
  BY <1>1, <1>2

LEMMA SixOfAny ==
    ASSUME NEW c
    PROVE  unb64(c) \in 0..63
BY DEF unb64

LEMMA BytesAreBytes ==
    ASSUME NEW a \in 0..63, NEW b \in 0..63, NEW c \in 0..63, NEW d \in 0..63, NEW k \in 1..3
    PROVE  Bytes(a, b, c, d)[k] \in 0..255
<1>1. a * 4 + (b \div 16) \in 0..255
  OBVIOUS
<1>2. (b * 16 + (c \div 4)) % 256 \in 0..255 /\ (c * 64 + d) % 256 \in 0..255
  OBVIOUS
<1> DEFINE x == a * 4 + (b \div 16)
           y == (b * 16 + (c \div 4)) % 256
           z == (c * 64 + d) % 256
<1>3. Bytes(a, b, c, d) = <<x, y, z>>
  BY DEF Bytes
<1>4. x \in 0..255 /\ y \in 0..255 /\ z \in 0..255
  BY <1>1, <1>2
<1> HIDE DEF x, y, z
<1> QED
  BY <1>3, <1>4

\* What any text is decoded to are bytes, as many as its caller is told.
LEMMA AnyIsDecoded ==
    ASSUME NEW S, NEW text \in Seq(S), Len(text) # 1
    PROVE  LET data == base64url_decode(text)
           IN  /\ \A i \in DOMAIN data : data[i] \in 0..255
               /\ Len(data) = DecodedLength(Len(text))
<1> DEFINE n == Len(text)
           pad == ShortOfGroup(n)
           length == 3 * ((n + pad) \div 4) - pad
           six(i) == IF i <= n THEN unb64(text[i]) ELSE 0
           group(g) == Bytes(six(4*g + 1), six(4*g + 2), six(4*g + 3), six(4*g + 4))
           data == base64url_decode(text)
<1>1. n \in Nat /\ n # 1
  OBVIOUS
<1>2. length \in Nat /\ length = DecodedLength(n)
  <2> HIDE DEF n
  <2> QED
    BY <1>1 DEF ShortOfGroup, DecodedLength
<1>3. data = [i \in 1..length |-> group((i - 1) \div 3)[((i - 1) % 3) + 1]]
  BY DEF base64url_decode
<1>4. ASSUME NEW i \in 1..length PROVE group((i - 1) \div 3)[((i - 1) % 3) + 1] \in 0..255
  <2>1. \A j : six(j) \in 0..63
    BY SixOfAny
  <2>0. i \in Nat \ {0}
    <3> HIDE DEF length
    <3> QED
      BY <1>2
  <2>2. PICK g \in Nat, k \in 1..3 : /\ g = (i - 1) \div 3 /\ k = ((i - 1) % 3) + 1
                                     /\ i = 3*g + k /\ 3*g < i
    <3> HIDE DEF length, n
    <3> QED
      BY <2>0, PlaceOfByte, Zenon
  <2>3. group(g)[k] \in 0..255
    <3> HIDE DEF six
    <3>1. PICK a \in 0..63, b \in 0..63, c \in 0..63, d \in 0..63 :
              a = six(4*g + 1) /\ b = six(4*g + 2) /\ c = six(4*g + 3) /\ d = six(4*g + 4)
      BY <2>1, Zenon
    <3>2. group(g) = Bytes(a, b, c, d)
      BY <3>1, Zenon
    <3>3. Bytes(a, b, c, d)[k] \in 0..255
      BY BytesAreBytes, Zenon
    <3> QED
      BY <3>2, <3>3, Zenon
  <2> HIDE DEF group
  <2> QED
    BY <2>2, <2>3
<1> HIDE DEF length, group, data
<1>5. data \in [1..length -> 0..255]
  BY <1>3, <1>4
<1>6. DOMAIN data = 1..length /\ Len(data) = length
  BY <1>2, <1>5, TableIsSeq
<1> QED
  BY <1>2, <1>5, <1>6 DEF data

LEMMA LengthIsTold ==
    \A n \in Nat : 4 * (n \div 3) + RestLength(n % 3) = EncodedLength(n)
BY DEF RestLength, EncodedLength, Pad

\* What a caller of base64url_encode gets can be decoded to what it passed,
\* its bits stand in the text six by six; what a caller of base64url_decode
\* gets are bytes; the lengths they are told are those, and what is written fits
\* into the space they have.
THEOREM CodedIsWhole == Spec => []CodedWhole
<1>1. InputInv => CodedWhole
  <2> SUFFICES ASSUME InputInv PROVE CodedWhole
    OBVIOUS
  <2>1. ASSUME subject = "bytes"
        PROVE  LET code == base64url_encode(input)
               IN  /\ [i \in DOMAIN code |-> unb64(code[i])] = InSixes(input)
                   /\ base64url_decode(code) = input
                   /\ Len(code) = EncodedLength(Len(input))
                   /\ Len(code) + 1 <= EncodedSpace(Len(input))
    <3>1. input \in Seq(0..255) /\ Len(input) \in Nat
      <4>1. input \in Seq(Subjects["bytes"]) /\ Subjects["bytes"] \subseteq 0..255
        BY <2>1, BytesAssumption DEF InputInv
      <4> QED
        BY <4>1, Widened
    <3>2. Len(base64url_encode(input)) = EncodedLength(Len(input))
      BY <3>1, EncodedIs, LengthIsTold
    <3>3. EncodedLength(Len(input)) + 1 <= EncodedSpace(Len(input))
      BY <3>1, LengthsFit
    <3> QED
      BY <3>1, <3>2, <3>3, EncodedInSixes, DecodedIs
  <2>2. ASSUME subject = "text", Len(input) # 1
        PROVE  LET data == base64url_decode(input)
               IN  /\ \A i \in DOMAIN data : data[i] \in 0..255
                   /\ Len(data) = DecodedLength(Len(input))
                   /\ Len(data) + 1 <= DecodedSpace(Len(input))
    <3>1. input \in Seq(Subjects[subject]) /\ Len(input) \in Nat
      BY DEF InputInv
    <3>2. DecodedLength(Len(input)) + 1 <= DecodedSpace(Len(input))
      BY <3>1, LengthsFit
    <3> QED
      BY <2>2, <3>1, <3>2, AnyIsDecoded
  <2> QED
    BY <2>1, <2>2, Zenon DEF CodedWhole, IsBytes, IsText
<1> QED
  BY <1>1, SpecInv, PTL

-----------------------------------------------------------------------------
(* Recursion and induction over what has a size.                           *)

LEMMA LeastNumber ==
    ASSUME NEW T, T \subseteq Nat, T # {}
    PROVE  \E x \in T : \A y \in T : x <= y
<1>1. PICK x \in T : \A y \in T : <<y, x>> \notin OpToRel(<, Nat)
  BY WFMin, NatLessThanWellFounded, Zenon
<1>2. \A y \in T : ~(y < x)
  BY <1>1, Zenon DEF OpToRel
<1> QED
  BY <1>2

\* What holds of everything if it holds of all that is smaller holds always.
Grows(S, size, Q) ==
    /\ size \in [S -> Nat]
    /\ \A x \in S : (\A y \in S : size[y] < size[x] => y \in Q) => x \in Q

LEMMA BySize ==
    ASSUME NEW S, NEW size, NEW Q, Grows(S, size, Q)
    PROVE  S \subseteq Q
<1> USE DEF Grows
<1> SUFFICES ASSUME ~(S \subseteq Q) PROVE FALSE
  OBVIOUS
<1> DEFINE T == {size[x] : x \in S \ Q}
<1>1. T \subseteq Nat /\ T # {}
  OBVIOUS
<1>2. PICK t \in T : \A u \in T : t <= u
  BY <1>1, LeastNumber
<1>3. PICK x \in S \ Q : t = size[x]
  OBVIOUS
<1>4. \A y \in S \ Q : size[x] <= size[y]
  BY <1>2, <1>3
<1>5. \A y \in S : size[y] < size[x] => y \in Q
  BY <1>4
<1> QED
  BY <1>3, <1>5

\* f is defined on X by what it is on the parent, which is smaller.
Solves(f, X, T, B, base, parent, step) ==
    /\ f \in [X -> T]
    /\ \A x \in X : f[x] = IF x \in B THEN base[x] ELSE step[<<x, f[parent[x]]>>]

IsRecursion(S, T, B, size, base, parent, step) ==
    /\ size \in [S -> Nat] /\ B \subseteq S /\ base \in [B -> T]
    /\ parent \in [S \ B -> S] /\ step \in [(S \ B) \X T -> T]
    /\ \A x \in S \ B : size[parent[x]] < size[x]

Smaller(S, size, n) == {x \in S : size[x] < n}

LEMMA SolvedBelow ==
    ASSUME NEW S, NEW T, NEW B, NEW size, NEW base, NEW parent, NEW step,
           IsRecursion(S, T, B, size, base, parent, step), T # {}
    PROVE  \A n \in Nat : \E f : Solves(f, Smaller(S, size, n), T, B, base, parent, step)
<1> USE DEF IsRecursion, Smaller
<1> DEFINE Below(n) == Smaller(S, size, n)
           Q == {n \in Nat : \E f : Solves(f, Below(n), T, B, base, parent, step)}
           self == [n \in Nat |-> n]
<1>0. self \in [Nat -> Nat]
  OBVIOUS
<1>1. 0 \in Q
  <2>1. Below(0) = {}
    OBVIOUS
  <2>2. Solves([x \in {} |-> 0], {}, T, B, base, parent, step)
    BY DEF Solves
  <2> QED
    BY <2>1, <2>2
<1>2. ASSUME NEW n \in Q PROVE n + 1 \in Q
  <2>1. PICK f : Solves(f, Below(n), T, B, base, parent, step)
    OBVIOUS
  <2> DEFINE value(x) == IF x \in B THEN base[x] ELSE step[<<x, f[parent[x]]>>]
             g == [x \in Below(n + 1) |-> value(x)]
  <2>2. \A x \in Below(n + 1) \ B : parent[x] \in Below(n) /\ parent[x] \in Below(n + 1)
    OBVIOUS
  <2>3. \A x \in Below(n) : f[x] = value(x) /\ f[x] \in T
    BY <2>1 DEF Solves
  <2>4. \A x \in Below(n + 1) : value(x) \in T
    BY <2>2, <2>3
  <2>5. \A x \in Below(n) : x \in Below(n + 1) /\ g[x] = f[x]
    BY <2>3
  <2> HIDE DEF Below
  <2>6. \A x \in Below(n + 1) : g[x] = IF x \in B THEN base[x] ELSE step[<<x, g[parent[x]]>>]
    BY <2>2, <2>5
  <2>7. Solves(g, Below(n + 1), T, B, base, parent, step)
    BY <2>4, <2>6 DEF Solves
  <2> QED
    BY <2>7
<1>3. \A x \in Nat : (\A y \in Nat : self[y] < self[x] => y \in Q) => x \in Q
  <2> SUFFICES ASSUME NEW x \in Nat, \A y \in Nat : self[y] < self[x] => y \in Q
               PROVE  x \in Q
    OBVIOUS
  <2>1. CASE x = 0
    BY <1>1, <2>1
  <2>2. CASE x # 0
    <3>1. x - 1 \in Nat /\ self[x - 1] < self[x] /\ (x - 1) + 1 = x
      BY <2>2
    <3> HIDE DEF Q, self
    <3>2. x - 1 \in Q
      BY <3>1
    <3>3. (x - 1) + 1 \in Q
      BY <1>2, <3>2
    <3> QED
      BY <3>1, <3>3
  <2> QED
    BY <2>1, <2>2
<1>4. Nat \subseteq Q
  <2> HIDE DEF Q, self
  <2>1. Grows(Nat, self, Q)
    BY <1>0, <1>3, Zenon DEF Grows
  <2> QED
    BY <2>1, BySize, Zenon
<1> QED
  BY <1>4

\* There is a function that a recursion over what is smaller defines.
LEMMA RecursionSolved ==
    ASSUME NEW S, NEW T, NEW B, NEW size, NEW base, NEW parent, NEW step,
           IsRecursion(S, T, B, size, base, parent, step), T # {}
    PROVE  \E f : Solves(f, S, T, B, base, parent, step)
<1>0. \A n \in Nat : \E f : Solves(f, Smaller(S, size, n), T, B, base, parent, step)
  BY SolvedBelow, Zenon
<1> USE DEF IsRecursion, Smaller
<1> DEFINE Below(n) == Smaller(S, size, n)
           Is(f, n) == Solves(f, Below(n), T, B, base, parent, step)
           at(n) == CHOOSE f : Is(f, n)
           whole == [x \in S |-> at(size[x] + 1)[x]]
<1>1. \A n \in Nat : Is(at(n), n)
  <2>1. \A n \in Nat : \E f : Is(f, n)
    BY <1>0
  <2> HIDE DEF Is
  <2> QED
    BY <2>1
\* Two of them agree where both are defined.
<1>2. ASSUME NEW f, NEW g, NEW i \in Nat, NEW j \in Nat, Is(f, i), Is(g, j), NEW z \in S,
             size[z] < i, size[z] < j
      PROVE  f[z] = g[z]
  <2> DEFINE Q == {x \in S : size[x] < i /\ size[x] < j => f[x] = g[x]}
  <2>1. \A x \in S : (\A y \in S : size[y] < size[x] => y \in Q) => x \in Q
    <3> SUFFICES ASSUME NEW x \in S, \A y \in S : size[y] < size[x] => y \in Q,
                        size[x] < i, size[x] < j
                 PROVE  f[x] = g[x]
      OBVIOUS
    <3>1. x \in Below(i) /\ x \in Below(j)
      OBVIOUS
    <3>2. x \notin B => f[parent[x]] = g[parent[x]]
      OBVIOUS
    <3>3. f[x] = IF x \in B THEN base[x] ELSE step[<<x, f[parent[x]]>>]
      BY <1>2, <3>1, Zenon DEF Solves
    <3>4. g[x] = IF x \in B THEN base[x] ELSE step[<<x, g[parent[x]]>>]
      BY <1>2, <3>1, Zenon DEF Solves
    <3> QED
      BY <3>2, <3>3, <3>4, Zenon
  <2> HIDE DEF Q
  <2>0. size \in [S -> Nat]
    OBVIOUS
  <2>3. Grows(S, size, Q)
    BY <2>0, <2>1, Zenon DEF Grows
  <2>2. S \subseteq Q
    BY <2>3, BySize, Zenon
  <2> QED
    BY <1>2, <2>2 DEF Q
<1>3. ASSUME NEW x \in S
      PROVE  whole[x] \in T /\ whole[x] = IF x \in B THEN base[x] ELSE step[<<x, whole[parent[x]]>>]
  <2> DEFINE n == size[x] + 1
             f == at(n)
  <2>1. n \in Nat /\ x \in Below(n)
    OBVIOUS
  <2>2. Is(f, n)
    BY <1>1, <2>1
  <2>3. f[x] \in T /\ f[x] = IF x \in B THEN base[x] ELSE step[<<x, f[parent[x]]>>]
    BY <2>1, <2>2 DEF Solves
  <2>4. ASSUME x \notin B PROVE whole[parent[x]] = f[parent[x]]
    <3> DEFINE y == parent[x]
               k == size[y] + 1
    <3>1. y \in S /\ k \in Nat /\ size[y] < k /\ size[y] < n
      BY <2>4
    <3>2. Is(at(k), k)
      BY <1>1, <3>1
    <3> HIDE DEF Is, at, n
    <3>3. at(k)[y] = f[y]
      BY <1>2, <2>1, <2>2, <3>1, <3>2
    <3> QED
      BY <3>1, <3>3
  <2>5. whole[x] = f[x]
    BY Zenon
  <2> HIDE DEF whole, f
  <2> QED
    BY <2>3, <2>4, <2>5
<1> HIDE DEF whole
<1>4. whole = [x \in S |-> whole[x]]
  BY DEF whole
<1>5. Solves(whole, S, T, B, base, parent, step)
  BY <1>3, <1>4 DEF Solves
<1> QED
  BY <1>5

-----------------------------------------------------------------------------
(* Numbers.                                                                *)

\* Each digit but the first is that of a tenth of the number.
LEMMA DigitsAre ==
    \A n \in Nat : /\ DigitsOf[n] \in Seq(0..9)
                   /\ DigitsOf[n] = IF n < 10 THEN <<n>> ELSE Append(DigitsOf[n \div 10], n % 10)
<1> DEFINE T == Seq(0..9)
           B == 0..9
           size == [n \in Nat |-> n]
           base == [n \in B |-> <<n>>]
           parent == [n \in Nat \ B |-> n \div 10]
           step == [p \in (Nat \ B) \X T |-> Append(p[2], p[1] % 10)]
           digits(f) == [n \in Nat |-> IF n < 10 THEN <<n>> ELSE Append(f[n \div 10], n % 10)]
<1>1. IsRecursion(Nat, T, B, size, base, parent, step) /\ T # {}
  <2>1. size \in [Nat -> Nat] /\ B \subseteq Nat
    OBVIOUS
  <2>2. base \in [B -> T] /\ T # {}
    <3>1. \A n \in B : <<n>> \in T
      OBVIOUS
    <3>2. 0 \in B
      OBVIOUS
    <3> HIDE DEF T, B
    <3> QED
      BY <3>1, <3>2
  <2>3. parent \in [Nat \ B -> Nat] /\ \A n \in Nat \ B : size[parent[n]] < size[n]
    OBVIOUS
  <2>4. step \in [(Nat \ B) \X T -> T]
    <3> SUFFICES ASSUME NEW n \in Nat \ B, NEW s \in T PROVE Append(s, n % 10) \in T
      BY Zenon
    <3>1. n % 10 \in 0..9
      OBVIOUS
    <3> QED
      BY <3>1
  <2> HIDE DEF T, B, size, base, parent, step
  <2> QED
    BY <2>1, <2>2, <2>3, <2>4 DEF IsRecursion
<1>2. PICK f : Solves(f, Nat, T, B, base, parent, step)
  <2> HIDE DEF T, B, size, base, parent, step
  <2> QED
    BY <1>1, RecursionSolved
<1>3. f = digits(f) /\ f \in [Nat -> T]
  <2>1. f \in [Nat -> T]
    BY <1>2 DEF Solves
  <2>2. ASSUME NEW n \in Nat PROVE f[n] = IF n < 10 THEN <<n>> ELSE Append(f[n \div 10], n % 10)
    <3>1. f[n] = IF n \in B THEN base[n] ELSE step[<<n, f[parent[n]]>>]
      BY <1>2 DEF Solves
    <3>2. n \in B <=> n < 10
      OBVIOUS
    <3>3. n \notin B => parent[n] = n \div 10 /\ f[n \div 10] \in T
      BY <2>1
    <3> HIDE DEF T
    <3> QED
      BY <3>1, <3>2, <3>3
  <2> HIDE DEF T
  <2> QED
    BY <2>1, <2>2
<1>4. DigitsOf = [n \in Nat |-> IF n < 10 THEN <<n>> ELSE Append(DigitsOf[n \div 10], n % 10)]
  <2>1. \E g : g = [n \in Nat |-> IF n < 10 THEN <<n>> ELSE Append(g[n \div 10], n % 10)]
    BY <1>3, Zenon
  <2> QED
    BY <2>1, Zenon DEF DigitsOf
<1>5. \A n \in Nat : DigitsOf[n] = IF n < 10 THEN <<n>> ELSE Append(DigitsOf[n \div 10], n % 10)
  BY <1>4, Zenon
<1> DEFINE Q == {n \in Nat : DigitsOf[n] \in T}
<1>6. Nat \subseteq Q
  <2>1. ASSUME NEW n \in Nat, \A m \in Nat : size[m] < size[n] => m \in Q PROVE n \in Q
    <3>1. CASE n < 10
      <4>1. <<n>> \in T
        BY <3>1
      <4> HIDE DEF T
      <4> QED
        BY <1>5, <3>1, <4>1
    <3>2. CASE ~(n < 10)
      <4>0. \A s \in T : \A d \in 0..9 : Append(s, d) \in T
        OBVIOUS
      <4>1. n \div 10 \in Nat /\ size[n \div 10] < size[n] /\ n % 10 \in 0..9
        BY <3>2
      <4> HIDE DEF size, T
      <4>2. DigitsOf[n \div 10] \in T
        BY <2>1, <4>1
      <4>3. DigitsOf[n] = Append(DigitsOf[n \div 10], n % 10)
        BY <1>5, <3>2
      <4> QED
        BY <4>0, <4>1, <4>2, <4>3
    <3> QED
      BY <3>1, <3>2
  <2>2. size \in [Nat -> Nat]
    OBVIOUS
  <2> HIDE DEF Q, size
  <2>3. Grows(Nat, size, Q)
    BY <2>1, <2>2, Zenon DEF Grows
  <2> QED
    BY <2>3, BySize, Zenon
<1>7. ASSUME NEW n \in Nat PROVE DigitsOf[n] \in Seq(0..9)
  BY <1>6
<1> QED
  BY <1>5, <1>7, Zenon

LEMMA FrontAndLast ==
    ASSUME NEW S, NEW s \in Seq(S), s # <<>>
    PROVE  /\ Front(s) \in Seq(S) /\ Last(s) \in S /\ Len(s) \in Nat \ {0}
           /\ Len(Front(s)) = Len(s) - 1
<1>1. Len(s) \in Nat \ {0} /\ s[Len(s)] \in S
  OBVIOUS
<1>2. SubSeq(s, 1, Len(s) - 1) \in Seq(S) /\ Len(SubSeq(s, 1, Len(s) - 1)) = Len(s) - 1
  <2> DEFINE m == Len(s) - 1
  <2>1. m \in Nat /\ 1 \in Int /\ m \in Int /\ \A i \in 1..m : s[i] \in S
    BY <1>1
  <2>2. (IF 1 <= m THEN m - 1 + 1 ELSE 0) = m
    <3> HIDE DEF m
    <3> QED
      BY <2>1
  <2> HIDE DEF m
  <2>3. SubSeq(s, 1, m) \in Seq(S) /\ Len(SubSeq(s, 1, m)) = m
    BY <2>1, <2>2, SubSeqProperties
  <2> QED
    BY <2>3 DEF m
<1> QED
  BY <1>1, <1>2 DEF Front, Last

LEMMA FrontOfAppend ==
    ASSUME NEW S, NEW s \in Seq(S), NEW d \in S
    PROVE  /\ Append(s, d) \in Seq(S) /\ Append(s, d) # <<>>
           /\ Front(Append(s, d)) = s /\ Last(Append(s, d)) = d
           /\ s # <<>> => Append(s, d)[1] = s[1]
<1> DEFINE t == Append(s, d)
<1>1. t \in Seq(S) /\ Len(t) = Len(s) + 1 /\ Len(s) \in Nat /\ t # <<>>
  OBVIOUS
<1>2. t[Len(s) + 1] = d /\ \A i \in 1..Len(s) : t[i] = s[i]
  OBVIOUS
<1>3. SubSeq(t, 1, Len(s)) = s
  OBVIOUS
<1> HIDE DEF t
<1>4. Len(t) - 1 = Len(s) /\ (s # <<>> => 1 \in 1..Len(s))
  BY <1>1
<1> QED
  BY <1>1, <1>2, <1>3, <1>4 DEF Front, Last, t

\* Each digit adds itself to ten times the value of those before it.
LEMMA ValuesAre ==
    \A s \in Seq(0..9) :
        ValueOf[s] = IF s = <<>> THEN 0 ELSE 10 * ValueOf[Front(s)] + Last(s)
<1> DEFINE S == Seq(0..9)
           B == {<<>>}
           size == [s \in S |-> Len(s)]
           base == [s \in B |-> 0]
           parent == [s \in S \ B |-> Front(s)]
           step == [p \in (S \ B) \X Nat |-> 10 * p[2] + Last(p[1])]
<1>0. <<>> \in S /\ \A s \in S : Len(s) \in Nat
  OBVIOUS
<1>1. \A s \in S \ B : Front(s) \in S /\ Last(s) \in 0..9 /\ Len(Front(s)) < Len(s)
  <2> SUFFICES ASSUME NEW s \in S \ B
               PROVE  Front(s) \in S /\ Last(s) \in 0..9 /\ Len(Front(s)) < Len(s)
    OBVIOUS
  <2>1. s \in Seq(0..9) /\ s # <<>>
    OBVIOUS
  <2>2. /\ Front(s) \in Seq(0..9) /\ Last(s) \in 0..9 /\ Len(s) \in Nat \ {0}
        /\ Len(Front(s)) = Len(s) - 1
    BY <2>1, FrontAndLast, Zenon
  <2> QED
    BY <2>2
<1>2. IsRecursion(S, Nat, B, size, base, parent, step) /\ Nat # {}
  <2> HIDE DEF S
  <2>1. size \in [S -> Nat] /\ B \subseteq S
    BY <1>0
  <2>2. base \in [B -> Nat]
    OBVIOUS
  <2>3. parent \in [S \ B -> S] /\ \A s \in S \ B : size[parent[s]] < size[s]
    BY <1>1
  <2>4. step \in [(S \ B) \X Nat -> Nat]
    <3>1. \A s \in S \ B : \A v \in Nat : 10 * v + Last(s) \in Nat
      BY <1>1
    <3> HIDE DEF B
    <3> QED
      BY <3>1
  <2> HIDE DEF B, size, base, parent, step
  <2> QED
    BY <2>1, <2>2, <2>3, <2>4 DEF IsRecursion
<1>3. PICK f : Solves(f, S, Nat, B, base, parent, step)
  <2> HIDE DEF S, B, size, base, parent, step
  <2> QED
    BY <1>2, RecursionSolved
<1>4. f = [s \in S |-> IF s = <<>> THEN 0 ELSE 10 * f[Front(s)] + Last(s)]
  <2>1. f \in [S -> Nat]
    BY <1>3 DEF Solves
  <2>2. ASSUME NEW s \in S PROVE f[s] = IF s = <<>> THEN 0 ELSE 10 * f[Front(s)] + Last(s)
    <3> HIDE DEF S
    <3>1. f[s] = IF s \in B THEN base[s] ELSE step[<<s, f[parent[s]]>>]
      BY <1>3 DEF Solves
    <3>2. s \in B <=> s = <<>>
      OBVIOUS
    <3>3. s \notin B => parent[s] = Front(s) /\ f[Front(s)] \in Nat
      BY <1>1, <2>1
    <3> QED
      BY <3>1, <3>2, <3>3
  <2> HIDE DEF S
  <2> QED
    BY <2>1, <2>2
<1>5. ValueOf = [s \in S |-> IF s = <<>> THEN 0 ELSE 10 * ValueOf[Front(s)] + Last(s)]
  <2>1. \E g : g = [s \in S |-> IF s = <<>> THEN 0 ELSE 10 * g[Front(s)] + Last(s)]
    BY <1>4, Zenon
  <2> QED
    BY <2>1, Zenon DEF ValueOf
<1> QED
  BY <1>5, Zenon

\* The digits of a number make the number, and do not start with a zero unless
\* it is zero.
LEMMA DigitsShow ==
    \A n \in Nat : /\ ValueOf[DigitsOf[n]] = n /\ DigitsOf[n] # <<>>
                   /\ Len(DigitsOf[n]) > 1 => n >= 10
                   /\ n # 0 => DigitsOf[n][1] # 0
<1> DEFINE Shown(n) == /\ ValueOf[DigitsOf[n]] = n /\ DigitsOf[n] # <<>>
                       /\ Len(DigitsOf[n]) > 1 => n >= 10
                       /\ n # 0 => DigitsOf[n][1] # 0
           Q == {n \in Nat : Shown(n)}
           size == [n \in Nat |-> n]
<1>0. ValueOf[<<>>] = 0
  <2>1. <<>> \in Seq(0..9)
    OBVIOUS
  <2> QED
    BY <2>1, ValuesAre, Zenon
<1>1. \A s \in Seq(0..9) : \A d \in 0..9 : ValueOf[Append(s, d)] = 10 * ValueOf[s] + d
  <2> SUFFICES ASSUME NEW s \in Seq(0..9), NEW d \in 0..9
               PROVE  ValueOf[Append(s, d)] = 10 * ValueOf[s] + d
    BY Zenon
  <2>1. /\ Append(s, d) \in Seq(0..9) /\ Append(s, d) # <<>>
        /\ Front(Append(s, d)) = s /\ Last(Append(s, d)) = d
    BY FrontOfAppend
  <2>2. ValueOf[Append(s, d)] = IF Append(s, d) = <<>> THEN 0
                                ELSE 10 * ValueOf[Front(Append(s, d))] + Last(Append(s, d))
    BY <2>1, ValuesAre, Zenon
  <2> QED
    BY <2>1, <2>2, Zenon
<1>2. ASSUME NEW n \in Nat, \A m \in Nat : size[m] < size[n] => m \in Q PROVE n \in Q
  <2>1. CASE n < 10
    <3>1. DigitsOf[n] = <<n>> /\ n \in 0..9
      <4>1. DigitsOf[n] = IF n < 10 THEN <<n>> ELSE Append(DigitsOf[n \div 10], n % 10)
        BY DigitsAre, Zenon
      <4> QED
        BY <2>1, <4>1
    <3>2. <<>> \in Seq(0..9) /\ Append(<<>>, n) = <<n>>
      OBVIOUS
    <3>3. ValueOf[Append(<<>>, n)] = 10 * ValueOf[<<>>] + n
      BY <1>1, <3>1, <3>2, Zenon
    <3>4. ValueOf[<<n>>] = n
      BY <1>0, <3>2, <3>3
    <3>5. <<n>> # <<>> /\ Len(<<n>>) = 1 /\ <<n>>[1] = n
      OBVIOUS
    <3>6. Shown(n)
      BY <3>1, <3>4, <3>5
    <3> HIDE DEF Shown
    <3> QED
      BY <3>6
  <2>2. CASE ~(n < 10)
    <3> DEFINE tenth == n \div 10
               d == n % 10
               s == DigitsOf[tenth]
    <3>1. tenth \in Nat /\ d \in 0..9 /\ size[tenth] < size[n] /\ tenth # 0
      BY <2>2
    <3>2. 10 * tenth + d = n
      OBVIOUS
    <3>3. DigitsOf[n] = Append(s, d)
      BY <2>2, DigitsAre, Zenon
    <3> HIDE DEF tenth, d
    <3>4. Shown(tenth) /\ s \in Seq(0..9)
      BY <1>2, <3>1, DigitsAre
    <3>5. ValueOf[Append(s, d)] = 10 * ValueOf[s] + d
      BY <1>1, <3>1, <3>4, Zenon
    <3>6. ValueOf[DigitsOf[n]] = n
      BY <3>2, <3>3, <3>4, <3>5
    <3>7. s # <<>> /\ s[1] # 0
      BY <3>1, <3>4
    <3>8. Append(s, d) # <<>> /\ Append(s, d)[1] = s[1]
      <4> HIDE DEF s
      <4> QED
        BY <3>1, <3>4, <3>7, FrontOfAppend
    <3>9. Shown(n)
      <4> HIDE DEF s
      <4> QED
        BY <2>2, <3>3, <3>6, <3>7, <3>8
    <3> HIDE DEF Shown
    <3> QED
      BY <3>9
  <2> QED
    BY <2>1, <2>2
<1>3. size \in [Nat -> Nat]
  OBVIOUS
<1>4. Nat \subseteq Q
  <2> HIDE DEF Q, size
  <2>1. Grows(Nat, size, Q)
    BY <1>2, <1>3, Zenon DEF Grows
  <2> QED
    BY <2>1, BySize, Zenon
<1> QED
  BY <1>4

\* The days, hours, minutes and seconds on the status page are those of the
\* time the worker is up, for any time.
THEOREM UptimeAddsUp ==
    \A diff \in Nat :
        LET up == app_uptime(diff)
        IN  /\ (up.days * 86400) + (up.hours * 3600) + (up.minutes * 60) + up.seconds = diff
            /\ up.hours \in 0..23 /\ up.minutes \in 0..59 /\ up.seconds \in 0..59
BY DEF app_uptime, Minutes

\* The uptime and the numbers that pages show are those of what they stand for,
\* however large it is: the parts of a time add up to it, and the digits of a
\* number make it, with a sign if it is negative.
THEOREM NumbersAreShown == Spec => []NumbersShown
<1>1. InputInv => NumbersShown
  <2> SUFFICES ASSUME InputInv, subject = "number", NEW i \in DOMAIN input, NEW j \in DOMAIN input
               PROVE  LET n == input[i] + input[j]
                          up == app_uptime(n)
                          shown == aya_itoa(n)
                      IN  /\ up.days * 86400 + up.hours * 3600 + up.minutes * 60 + up.seconds = n
                          /\ up.hours < 24 /\ up.minutes < 60 /\ up.seconds < 60
                          /\ ValueOf[shown] = n /\ (Len(shown) > 1 => shown[1] # 0)
                          /\ n > 0 => aya_itoa(-n) = <<"-">> \o shown
    BY DEF NumbersShown
  <2> DEFINE n == input[i] + input[j]
             up == app_uptime(n)
  <2>1. n \in Nat
    <3>1. input \in Seq(Subjects["number"]) /\ Subjects["number"] \subseteq Nat
      BY NumbersAssumption DEF InputInv
    <3>2. input[i] \in Nat /\ input[j] \in Nat
      BY <3>1
    <3> QED
      BY <3>2
  <2> HIDE DEF n
  <2>2. /\ (up.days * 86400) + (up.hours * 3600) + (up.minutes * 60) + up.seconds = n
        /\ up.hours \in 0..23 /\ up.minutes \in 0..59 /\ up.seconds \in 0..59
    BY <2>1, UptimeAddsUp
  <2>3. aya_itoa(n) = DigitsOf[n]
    BY <2>1 DEF aya_itoa
  <2>4. ValueOf[DigitsOf[n]] = n /\ (Len(DigitsOf[n]) > 1 => DigitsOf[n][1] # 0)
    <3>1. /\ ValueOf[DigitsOf[n]] = n
          /\ Len(DigitsOf[n]) > 1 => n >= 10
          /\ n # 0 => DigitsOf[n][1] # 0
      BY <2>1, DigitsShow, Zenon
    <3>2. n >= 10 => n # 0
      BY <2>1
    <3> QED
      BY <3>1, <3>2
  <2>5. n > 0 => aya_itoa(-n) = <<"-">> \o DigitsOf[n]
    <3>1. n > 0 => ~(-n >= 0) /\ -(-n) = n
      BY <2>1
    <3> QED
      BY <3>1 DEF aya_itoa
  <2>6. up.hours < 24 /\ up.minutes < 60 /\ up.seconds < 60
    <3> HIDE DEF up
    <3> QED
      BY <2>2
  <2>7. /\ up.days * 86400 + up.hours * 3600 + up.minutes * 60 + up.seconds = n
        /\ up.hours < 24 /\ up.minutes < 60 /\ up.seconds < 60
        /\ ValueOf[aya_itoa(n)] = n /\ (Len(aya_itoa(n)) > 1 => aya_itoa(n)[1] # 0)
        /\ n > 0 => aya_itoa(-n) = <<"-">> \o aya_itoa(n)
    <3> HIDE DEF up
    <3> QED
      BY <2>2, <2>3, <2>4, <2>5, <2>6
  <2> QED
    BY <2>7 DEF up, n
<1> QED
  BY <1>1, SpecInv, PTL

-----------------------------------------------------------------------------
(* Cookies.                                                                *)

\* A name from a, an = at e, and a value up to b, alone between separators.
IsCookie(s, a, e, b) ==
    /\ a \in 1..Len(s) /\ b \in 1..Len(s) /\ e \in (a + 1)..(b - 1)
    /\ s[e] = Equals /\ \A i \in a..b : i # e => s[i] \notin Separators
    /\ a = 1 \/ s[a - 1] \in {Semicolon, Blank}
    /\ b = Len(s) \/ s[b + 1] = Semicolon

Named(s, name, a, e, b) == IsCookie(s, a, e, b) /\ SubSeq(s, a, e - 1) = name

LEMMA EqualsApart == Equals \notin {Semicolon, Blank}
BY Zenon DEF Equals, Semicolon, Blank

LEMMA PartAt ==
    ASSUME NEW S, NEW s \in Seq(S), NEW a \in 1..Len(s), NEW b \in 1..Len(s), a <= b
    PROVE  /\ SubSeq(s, a, b) \in Seq(S) /\ Len(SubSeq(s, a, b)) = b - a + 1
           /\ \A i \in 1..(b - a + 1) : SubSeq(s, a, b)[i] = s[a + i - 1]
BY SubSeqProperties

\* The pairs of a header as browsers send it are those.
LEMMA PairIsCookie ==
    ASSUME NEW S, NEW s \in Seq(S), WellFormed(s), NEW p \in Pairs(s)
    PROVE  \E e \in Nat : IsCookie(s, p[1], e, p[2])
<1> DEFINE n == Len(s)
           a == p[1]
           b == p[2]
           q == SubSeq(s, a, b)
<1>1. /\ n \in Nat /\ a \in 1..n /\ b \in 1..n /\ a <= b
      /\ a = 1 \/ s[a - 1] \in {Semicolon, Blank}
      /\ b = n \/ s[b + 1] = Semicolon
      /\ \A i \in a..b : s[i] \notin {Semicolon, Blank}
  BY DEF Pairs
<1>2. IsPair(q)
  BY DEF WellFormed
<1> HIDE DEF a, b, n
<1>3. q \in Seq(S) /\ Len(q) = b - a + 1 /\ \A i \in 1..(b - a + 1) : q[i] = s[a + i - 1]
  BY <1>1, PartAt DEF n
<1> HIDE DEF q
<1>4. PICK k \in 2..(b - a) : q[k] = Equals /\ \A j \in 1..(b - a + 1) : j # k => q[j] # Equals
  <2>1. DOMAIN q = 1..(b - a + 1) /\ Len(q) - 1 = b - a
    BY <1>1, <1>3
  <2> QED
    BY <1>2, <2>1 DEF IsPair
<1> DEFINE e == a + k - 1
<1>5. e \in (a + 1)..(b - 1) /\ e \in Nat /\ k \in 1..(b - a + 1)
  BY <1>1
<1>6. s[e] = Equals
  BY <1>3, <1>4, <1>5
<1>7. ASSUME NEW i \in a..b, i # e PROVE s[i] \notin Separators
  <2>1. i - a + 1 \in 1..(b - a + 1) /\ i - a + 1 # k /\ a + (i - a + 1) - 1 = i
    BY <1>1, <1>7
  <2>2. q[i - a + 1] # Equals /\ q[i - a + 1] = s[a + (i - a + 1) - 1]
    BY <1>3, <1>4, <2>1
  <2> QED
    BY <1>1, <2>1, <2>2 DEF Separators
<1> HIDE DEF e
<1> QED
  BY <1>1, <1>5, <1>6, <1>7 DEF IsCookie, a, b, n

LEMMA CookieIsPair ==
    ASSUME NEW S, NEW s \in Seq(S), NEW a \in Nat, NEW e \in Nat, NEW b \in Nat,
           IsCookie(s, a, e, b)
    PROVE  <<a, b>> \in Pairs(s)
<1>1. a \in 1..Len(s) /\ b \in 1..Len(s) /\ a <= b /\ Len(s) \in Nat
  BY DEF IsCookie
<1>2. \A i \in a..b : s[i] \notin {Semicolon, Blank}
  BY EqualsApart DEF IsCookie, Separators
<1>3. (a = 1 \/ s[a - 1] \in {Semicolon, Blank}) /\ (b = Len(s) \/ s[b + 1] = Semicolon)
  BY DEF IsCookie
<1> QED
  BY <1>1, <1>2, <1>3 DEF Pairs

\* A place belongs to one cookie.
InCookie(s, a, e, b, i) == IsCookie(s, a, e, b) /\ i \in a..b

LEMMA OneCookie ==
    ASSUME NEW S, NEW s \in Seq(S), NEW i, NEW a \in Nat, NEW e \in Nat, NEW b \in Nat,
           NEW c \in Nat, NEW f \in Nat, NEW d \in Nat,
           InCookie(s, a, e, b, i), InCookie(s, c, f, d, i)
    PROVE  a = c /\ e = f /\ b = d
<1>0. IsCookie(s, a, e, b) /\ IsCookie(s, c, f, d) /\ i \in a..b /\ i \in c..d
  BY DEF InCookie
<1>1. /\ a \in 1..Len(s) /\ b \in 1..Len(s) /\ e \in a..b /\ s[e] = Equals
      /\ \A j \in a..b : s[j] \notin {Semicolon, Blank} /\ (j # e => s[j] # Equals)
      /\ (a = 1 \/ s[a - 1] \in {Semicolon, Blank}) /\ (b = Len(s) \/ s[b + 1] = Semicolon)
  BY <1>0, EqualsApart DEF IsCookie, Separators
<1>2. /\ c \in 1..Len(s) /\ d \in 1..Len(s) /\ f \in c..d /\ s[f] = Equals
      /\ \A j \in c..d : s[j] \notin {Semicolon, Blank} /\ (j # f => s[j] # Equals)
      /\ (c = 1 \/ s[c - 1] \in {Semicolon, Blank}) /\ (d = Len(s) \/ s[d + 1] = Semicolon)
  BY <1>0, EqualsApart DEF IsCookie, Separators
<1>3. Len(s) \in Nat
  OBVIOUS
<1>4. ~(a < c)
  <2> SUFFICES ASSUME a < c PROVE FALSE
    OBVIOUS
  <2>1. c - 1 \in a..b /\ c # 1
    BY <1>0, <1>1, <1>2
  <2> QED
    BY <1>1, <1>2, <2>1
<1>5. ~(c < a)
  <2> SUFFICES ASSUME c < a PROVE FALSE
    OBVIOUS
  <2>1. a - 1 \in c..d /\ a # 1
    BY <1>0, <1>1, <1>2
  <2> QED
    BY <1>1, <1>2, <2>1
<1>6. ~(b < d)
  <2> SUFFICES ASSUME b < d PROVE FALSE
    OBVIOUS
  <2>1. b + 1 \in c..d /\ b # Len(s)
    BY <1>0, <1>1, <1>2, <1>3
  <2> QED
    BY <1>1, <1>2, <2>1
<1>7. ~(d < b)
  <2> SUFFICES ASSUME d < b PROVE FALSE
    OBVIOUS
  <2>1. d + 1 \in a..b /\ d # Len(s)
    BY <1>0, <1>1, <1>2, <1>3
  <2> QED
    BY <1>1, <1>2, <2>1
<1>8. a = c /\ b = d
  BY <1>4, <1>5, <1>6, <1>7
<1> QED
  BY <1>1, <1>2, <1>8

\* What is no separator belongs to a cookie.
LEMMA CookieAt ==
    ASSUME NEW S, NEW s \in Seq(S), WellFormed(s), NEW i \in Nat, Inside(s, i)
    PROVE  \E a, e, b \in Nat : IsCookie(s, a, e, b) /\ i \in a..b
<1> DEFINE n == Len(s)
           A == {j \in 1..i : j = 1 \/ s[j - 1] \in {Semicolon, Blank}}
           B == {j \in i..n : j = n \/ s[j + 1] = Semicolon}
<1>1. n \in Nat /\ i \in 1..n /\ s[i] \notin {Semicolon, Blank}
  BY DEF Inside, Separators
<1>2. PICK a \in A : \A j \in A : j <= a
  <2>1. A \in SUBSET (1..i) /\ A # {}
    BY <1>1
  <2> QED
    BY <2>1, GreatestPlace
<1>3. PICK b \in B : \A j \in B : b <= j
  <2>1. B \subseteq Nat /\ B # {}
    BY <1>1
  <2> QED
    BY <2>1, LeastNumber
<1>4. /\ a \in 1..i /\ b \in i..n
      /\ a = 1 \/ s[a - 1] \in {Semicolon, Blank}
      /\ b = n \/ s[b + 1] = Semicolon
  OBVIOUS
<1>5. ASSUME NEW j \in a..i PROVE s[j] \notin {Semicolon, Blank}
  <2> SUFFICES ASSUME s[j] \in {Semicolon, Blank} PROVE FALSE
    OBVIOUS
  <2>1. j + 1 \in 1..i /\ s[(j + 1) - 1] \in {Semicolon, Blank} /\ j \in Int
    BY <1>1, <1>4
  <2>2. j + 1 <= a
    BY <1>2, <2>1
  <2> QED
    BY <2>1, <2>2, <1>4
<1>6. ASSUME NEW j \in (i + 1)..b PROVE s[j] # Semicolon
  <2> SUFFICES ASSUME s[j] = Semicolon PROVE FALSE
    OBVIOUS
  <2>1. j - 1 \in i..n /\ s[(j - 1) + 1] = Semicolon /\ j \in Int
    BY <1>1, <1>4
  <2>2. b <= j - 1
    BY <1>3, <2>1
  <2> QED
    BY <2>1, <2>2, <1>4
<1>7. ASSUME NEW j \in (i + 1)..b PROVE s[j] # Blank
  <2> SUFFICES ASSUME s[j] = Blank PROVE FALSE
    OBVIOUS
  <2>1. j \in 1..n /\ j - 1 \in i..b /\ (j - 1 = i \/ j - 1 \in (i + 1)..b)
    BY <1>1, <1>4
  <2>2. s[j - 1] = Semicolon
    BY <2>1 DEF WellFormed
  <2> QED
    BY <1>1, <1>6, <2>1, <2>2
<1> HIDE DEF A, B
<1>8. <<a, b>> \in Pairs(s)
  <2>1. \A j \in a..b : j \in a..i \/ j \in (i + 1)..b
    BY <1>1, <1>4
  <2>2. \A j \in a..b : s[j] \notin {Semicolon, Blank}
    BY <1>5, <1>6, <1>7, <2>1
  <2> QED
    BY <1>1, <1>4, <2>2 DEF Pairs
<1>9. PICK e \in Nat : IsCookie(s, a, e, b)
  <2>1. \E e \in Nat : IsCookie(s, <<a, b>>[1], e, <<a, b>>[2])
    BY <1>8, PairIsCookie, Zenon
  <2> QED
    BY <2>1
<1> QED
  BY <1>1, <1>4, <1>9

\* Name and value are what strtok finds of a cookie.
LEMMA CookieStarts ==
    ASSUME NEW S, NEW s \in Seq(S), NEW a \in Nat, NEW e \in Nat, NEW b \in Nat,
           IsCookie(s, a, e, b)
    PROVE  /\ a \in Starts(s) /\ e + 1 \in Starts(s)
           /\ \A i \in Starts(s) : i \in a..b => i = a \/ i = e + 1
           /\ ~Inside(s, a - 1) /\ ~Inside(s, e) /\ ~Inside(s, b + 1)
           /\ \A i \in a..b : i # e => Inside(s, i)
<1>0. /\ a \in 1..Len(s) /\ b \in 1..Len(s) /\ e \in (a + 1)..(b - 1)
      /\ s[e] \in Separators
      /\ \A i \in a..b : i # e => s[i] \notin Separators
      /\ a = 1 \/ s[a - 1] \in Separators
      /\ b = Len(s) \/ s[b + 1] \in Separators
  BY DEF IsCookie, Separators
<1> DEFINE n == Len(s)
<1>a. n \in Nat /\ DOMAIN s = 1..n
  OBVIOUS
<1> HIDE DEF n
<1>1. /\ n \in Nat /\ a \in 1..n /\ b \in 1..n /\ e \in (a + 1)..(b - 1)
      /\ s[e] \in Separators
      /\ \A i \in a..b : i # e => s[i] \notin Separators
      /\ a = 1 \/ s[a - 1] \in Separators
      /\ b = n \/ s[b + 1] \in Separators
      /\ \A i : Inside(s, i) <=> i \in 1..n /\ s[i] \notin Separators
  BY <1>0, <1>a DEF Inside, n
<1>2. ~Inside(s, a - 1) /\ ~Inside(s, e) /\ ~Inside(s, b + 1)
  BY <1>1
<1>3. \A i \in a..b : i # e => Inside(s, i)
  BY <1>1
<1>4. a \in Starts(s) /\ e + 1 \in Starts(s)
  <2>1. a \in a..b /\ a # e /\ e + 1 \in a..b /\ e + 1 # e /\ (e + 1) - 1 = e
        /\ a \in DOMAIN s /\ e + 1 \in DOMAIN s
    BY <1>1, <1>a
  <2> QED
    BY <1>2, <1>3, <2>1 DEF Starts
<1>5. ASSUME NEW i \in Starts(s), i \in a..b PROVE i = a \/ i = e + 1
  <2>1. Inside(s, i) /\ ~Inside(s, i - 1)
    BY DEF Starts
  <2>2. i = a \/ i - 1 \in a..b
    BY <1>1, <1>5
  <2>3. i = a \/ i - 1 = e
    BY <1>3, <2>1, <2>2
  <2> QED
    BY <1>1, <1>5, <2>3
<1> QED
  BY <1>2, <1>3, <1>4, <1>5

LEMMA LeastIs ==
    ASSUME NEW T, T \subseteq Nat, NEW m \in T, \A x \in T : m <= x
    PROVE  Min(T) = m
<1>1. \A y \in T : (\A x \in T : y <= x) => y = m
  OBVIOUS
<1> QED
  BY <1>1 DEF Min

LEMMA TokenTo ==
    ASSUME NEW S, NEW s \in Seq(S), NEW i \in 1..Len(s), NEW m \in i..Len(s),
           ~Inside(s, m + 1), \A j \in (i + 1)..m : Inside(s, j)
    PROVE  Token(s, i) = SubSeq(s, i, m)
<1> DEFINE T == {x \in DOMAIN s : x >= i /\ ~Inside(s, x + 1)}
<1>1. Len(s) \in Nat /\ DOMAIN s = 1..Len(s)
  OBVIOUS
<1>2. T \subseteq Nat /\ m \in T
  BY <1>1
<1>3. ASSUME NEW x \in T PROVE m <= x
  <2> SUFFICES ASSUME x < m PROVE FALSE
    BY <1>1
  <2>1. x + 1 \in (i + 1)..m
    BY <1>1
  <2> QED
    BY <2>1
<1> HIDE DEF T
<1>4. Min(T) = m
  BY <1>2, <1>3, LeastIs
<1> QED
  BY <1>4 DEF Token, T

LEMMA CookieTokens ==
    ASSUME NEW S, NEW s \in Seq(S), NEW a \in Nat, NEW e \in Nat, NEW b \in Nat,
           IsCookie(s, a, e, b)
    PROVE  Token(s, a) = SubSeq(s, a, e - 1) /\ Token(s, e + 1) = SubSeq(s, e + 1, b)
<1>1. a \in 1..Len(s) /\ b \in 1..Len(s) /\ e \in (a + 1)..(b - 1) /\ Len(s) \in Nat
  BY DEF IsCookie
<1>2. ~Inside(s, e) /\ ~Inside(s, b + 1) /\ \A i \in a..b : i # e => Inside(s, i)
  BY CookieStarts
<1>3. Token(s, a) = SubSeq(s, a, e - 1)
  <2>1. e - 1 \in a..Len(s) /\ (e - 1) + 1 = e
    BY <1>1
  <2>2. \A j \in (a + 1)..(e - 1) : Inside(s, j)
    BY <1>1, <1>2
  <2>3. ~Inside(s, (e - 1) + 1)
    BY <1>2, <2>1
  <2> QED
    BY <1>1, <2>1, <2>2, <2>3, TokenTo
<1>4. Token(s, e + 1) = SubSeq(s, e + 1, b)
  <2>1. e + 1 \in 1..Len(s) /\ b \in (e + 1)..Len(s)
    BY <1>1
  <2>2. \A j \in ((e + 1) + 1)..b : Inside(s, j)
    BY <1>1, <1>2
  <2> QED
    BY <1>2, <2>1, <2>2, TokenTo
<1> QED
  BY <1>3, <1>4

\* Whether a place is in the name of a cookie, or at its end.
NameAt(s, i) == \E a, e, b \in Nat : IsCookie(s, a, e, b) /\ i \in a..e

LEMMA NameTurns ==
    ASSUME NEW S, NEW s \in Seq(S), WellFormed(s), NEW i \in Nat
    PROVE  NameAt(s, i + 1) <=> IF i + 1 \in Starts(s) THEN ~NameAt(s, i) ELSE NameAt(s, i)
<1>1. CASE i + 1 \in Starts(s)
  <2>1. Inside(s, i + 1)
    BY <1>1 DEF Starts
  <2>2. PICK a, e, b \in Nat : IsCookie(s, a, e, b) /\ i + 1 \in a..b
    BY <2>1, CookieAt
  <2>a. \A j \in Starts(s) : j \in a..b => j = a \/ j = e + 1
    BY <2>2, CookieStarts, Zenon
  <2>b. e \in (a + 1)..(b - 1)
    BY <2>2 DEF IsCookie
  <2>3. e \in (a + 1)..(b - 1) /\ (i + 1 = a \/ i + 1 = e + 1)
    BY <1>1, <2>2, <2>a, <2>b
  <2>4. ASSUME NEW c \in Nat, NEW f \in Nat, NEW d \in Nat, IsCookie(s, c, f, d),
               i \in c..f \/ i + 1 \in c..f
        PROVE  c = a /\ f = e
    <3>1. f \in (c + 1)..(d - 1)
      BY <2>4 DEF IsCookie
    <3>2. i + 1 \in c..d
      BY <2>4, <3>1
    <3>3. InCookie(s, a, e, b, i + 1) /\ InCookie(s, c, f, d, i + 1)
      BY <2>2, <2>4, <3>2 DEF InCookie
    <3>4. a = c /\ e = f /\ b = d
      BY <3>3, OneCookie, Zenon
    <3> QED
      BY <3>4
  <2>5. CASE i + 1 = a
    <3>1. NameAt(s, i + 1)
      <4>1. i + 1 \in a..e
        BY <2>3, <2>5
      <4> QED
        BY <2>2, <4>1 DEF NameAt
    <3>2. ~NameAt(s, i)
      BY <2>4, <2>5 DEF NameAt
    <3> QED
      BY <1>1, <3>1, <3>2
  <2>6. CASE i + 1 = e + 1
    <3>1. NameAt(s, i)
      <4>1. i \in a..e
        BY <2>3, <2>6
      <4> QED
        BY <2>2, <4>1 DEF NameAt
    <3>2. ~NameAt(s, i + 1)
      BY <2>4, <2>6 DEF NameAt
    <3> QED
      BY <1>1, <3>1, <3>2
  <2> QED
    BY <2>3, <2>5, <2>6
<1>2. CASE i + 1 \notin Starts(s)
  <2>1. ASSUME NEW a \in Nat, NEW e \in Nat, NEW b \in Nat, IsCookie(s, a, e, b)
        PROVE  i + 1 \in a..e <=> i \in a..e
    <3>1. a \in Starts(s) /\ e + 1 \in Starts(s)
      BY <2>1, CookieStarts, Zenon
    <3>2. i + 1 # a /\ i + 1 # e + 1
      BY <1>2, <3>1
    <3> QED
      BY <3>2
  <2> QED
    BY <1>2, <2>1 DEF NameAt
<1> QED
  BY <1>1, <1>2

LEMMA CountGrows ==
    ASSUME NEW S, NEW s \in Seq(S), NEW i \in Nat
    PROVE  /\ Count(s, i) \in Nat /\ Count(s, 0) = 0
           /\ Count(s, i + 1) = IF i + 1 \in Starts(s) THEN Count(s, i) + 1 ELSE Count(s, i)
<1> DEFINE upTo(m) == {j \in Starts(s) : j <= m}
<1>1. Len(s) \in Nat /\ Starts(s) \subseteq 1..Len(s)
  BY DEF Starts
<1>2. IsFiniteSet(upTo(i))
  <2>1. IsFiniteSet(1..Len(s)) /\ upTo(i) \subseteq 1..Len(s)
    BY <1>1, FS_Interval
  <2> QED
    BY <2>1, FS_Subset
<1>3. upTo(0) = {}
  BY <1>1
<1>4. upTo(i + 1) = IF i + 1 \in Starts(s) THEN upTo(i) \cup {i + 1} ELSE upTo(i)
  BY <1>1
<1>5. i + 1 \notin upTo(i)
  OBVIOUS
<1> HIDE DEF upTo
<1>6. Cardinality(upTo(i)) \in Nat /\ Cardinality(upTo(0)) = 0
  BY <1>2, <1>3, FS_CardinalityType, FS_EmptySet
<1>7. Cardinality(upTo(i) \cup {i + 1}) = Cardinality(upTo(i)) + 1
  BY <1>2, <1>5, FS_AddElement
<1> QED
  BY <1>4, <1>6, <1>7 DEF Count, upTo

\* The tokens are names and values in turn.
LEMMA NamesAreOdd ==
    ASSUME NEW S, NEW s \in Seq(S), WellFormed(s)
    PROVE  \A i \in Nat : IsKey(Count(s, i)) <=> NameAt(s, i)
<1> DEFINE Q == {i \in Nat : IsKey(Count(s, i)) <=> NameAt(s, i)}
           self == [i \in Nat |-> i]
<1>1. 0 \in Q
  <2>1. Count(s, 0) = 0 /\ ~IsKey(0)
    BY CountGrows DEF IsKey
  <2>2. ~NameAt(s, 0)
    BY DEF NameAt, IsCookie
  <2> QED
    BY <2>1, <2>2
<1>2. ASSUME NEW i \in Q PROVE i + 1 \in Q
  <2>1. /\ Count(s, i) \in Nat
        /\ Count(s, i + 1) = IF i + 1 \in Starts(s) THEN Count(s, i) + 1 ELSE Count(s, i)
    BY CountGrows
  <2>2. IsKey(Count(s, i)) <=> NameAt(s, i)
    OBVIOUS
  <2>3. IsKey(Count(s, i) + 1) <=> ~IsKey(Count(s, i))
    BY <2>1 DEF IsKey
  <2>4. NameAt(s, i + 1) <=> IF i + 1 \in Starts(s) THEN ~NameAt(s, i) ELSE NameAt(s, i)
    BY NameTurns
  <2> HIDE DEF Q
  <2>5. IsKey(Count(s, i + 1)) <=> NameAt(s, i + 1)
    BY <2>1, <2>2, <2>3, <2>4
  <2> QED
    BY <2>5 DEF Q
<1>3. ASSUME NEW i \in Nat, \A j \in Nat : self[j] < self[i] => j \in Q PROVE i \in Q
  <2>1. i = 0 \/ (i - 1 \in Nat /\ self[i - 1] < self[i] /\ (i - 1) + 1 = i)
    OBVIOUS
  <2> QED
    BY <1>1, <1>2, <1>3, <2>1
<1>4. self \in [Nat -> Nat]
  OBVIOUS
<1> HIDE DEF Q, self
<1>5. Nat \subseteq Q
  <2>1. Grows(Nat, self, Q)
    BY <1>3, <1>4, Zenon DEF Grows
  <2> QED
    BY <2>1, BySize, Zenon
<1> QED
  BY <1>5 DEF Q

\* The tokens that count as keys are the names of the cookies.
LEMMA KeysAreNames ==
    ASSUME NEW S, NEW s \in Seq(S), WellFormed(s), NEW i \in Nat
    PROVE  i \in Starts(s) /\ IsKey(Count(s, i)) <=> \E e, b \in Nat : IsCookie(s, i, e, b)
<1>1. ASSUME i \in Starts(s), IsKey(Count(s, i)) PROVE \E e, b \in Nat : IsCookie(s, i, e, b)
  <2>1. NameAt(s, i)
    BY <1>1, NamesAreOdd
  <2>2. PICK a, e, b \in Nat : IsCookie(s, a, e, b) /\ i \in a..e
    BY <2>1 DEF NameAt
  <2>3. e \in (a + 1)..(b - 1)
    BY <2>2 DEF IsCookie
  <2>4. i \in a..b /\ i # e + 1
    BY <2>2, <2>3
  <2>5. i = a
    BY <1>1, <2>2, <2>4, CookieStarts
  <2> QED
    BY <2>2, <2>5
<1>2. ASSUME NEW e \in Nat, NEW b \in Nat, IsCookie(s, i, e, b)
      PROVE  i \in Starts(s) /\ IsKey(Count(s, i))
  <2>1. i \in i..e
    BY <1>2 DEF IsCookie
  <2>2. NameAt(s, i)
    BY <1>2, <2>1 DEF NameAt
  <2> QED
    BY <1>2, <2>2, CookieStarts, NamesAreOdd
<1> QED
  BY <1>1, <1>2

\* http_get_cookie returns NULL if no cookie has the name.
LEMMA NoCookie ==
    ASSUME NEW S, NEW s \in Seq(S), WellFormed(s), NEW name,
           \A a, e, b \in Nat : ~Named(s, name, a, e, b)
    PROVE  http_get_cookie(s, name) = NULL
<1> DEFINE found == {i \in Starts(s) : IsKey(Count(s, i)) /\ Token(s, i) = name}
<1>1. ASSUME NEW i \in found PROVE FALSE
  <2>1. i \in Nat /\ i \in Starts(s) /\ IsKey(Count(s, i)) /\ Token(s, i) = name
    BY DEF Starts
  <2>2. PICK e, b \in Nat : IsCookie(s, i, e, b)
    BY <2>1, KeysAreNames
  <2> QED
    BY <2>1, <2>2, CookieTokens DEF Named
<1>2. found = {}
  BY <1>1
<1> QED
  BY <1>2 DEF http_get_cookie

\* Otherwise it returns the value of the first one.
LEMMA FirstCookie ==
    ASSUME NEW S, NEW s \in Seq(S), WellFormed(s), NEW name,
           NEW a \in Nat, NEW e \in Nat, NEW b \in Nat,
           Named(s, name, a, e, b),
           \A c, f, d \in Nat : Named(s, name, c, f, d) => a <= c
    PROVE  http_get_cookie(s, name) = SubSeq(s, e + 1, b)
<1> USE DEF Named
<1> DEFINE found == {i \in Starts(s) : IsKey(Count(s, i)) /\ Token(s, i) = name}
           rest == {i \in Starts(s) : i > a}
<1>0. Starts(s) \subseteq Nat
  BY DEF Starts
<1>1. Min(found) = a /\ found # {}
  <2>1. a \in found
    <3>1. a \in Starts(s) /\ IsKey(Count(s, a))
      BY KeysAreNames
    <3>2. Token(s, a) = name
      BY CookieTokens
    <3> QED
      BY <3>1, <3>2
  <2>2. ASSUME NEW i \in found PROVE a <= i
    <3>1. i \in Nat /\ i \in Starts(s) /\ IsKey(Count(s, i)) /\ Token(s, i) = name
      BY <1>0
    <3>2. PICK f, d \in Nat : IsCookie(s, i, f, d)
      BY <3>1, KeysAreNames
    <3>3. SubSeq(s, i, f - 1) = name
      BY <3>1, <3>2, CookieTokens
    <3> QED
      BY <3>1, <3>2, <3>3
  <2>3. found \subseteq Nat
    BY <1>0
  <2> HIDE DEF found
  <2> QED
    BY <2>1, <2>2, <2>3, LeastIs
<1>2. Min(rest) = e + 1 /\ rest # {}
  <2>1. e \in (a + 1)..(b - 1)
    BY DEF IsCookie
  <2>2. e + 1 \in Starts(s)
    BY CookieStarts
  <2>3. e + 1 \in rest
    BY <2>1, <2>2
  <2>4. ASSUME NEW i \in rest PROVE e + 1 <= i
    <3> SUFFICES ASSUME i < e + 1 PROVE FALSE
      BY <1>0
    <3>1. i \in Starts(s) /\ i \in a..b /\ i # a /\ i # e + 1
      BY <1>0, <2>1
    <3> QED
      BY <3>1, CookieStarts
  <2>5. rest \subseteq Nat
    BY <1>0
  <2> HIDE DEF rest
  <2> QED
    BY <2>3, <2>4, <2>5, LeastIs
<1>3. http_get_cookie(s, name) = Token(s, Min(rest))
  <2>1. http_get_cookie(s, name) =
           LET later == {i \in Starts(s) : i > Min(found)}
           IN  IF found = {} THEN NULL
               ELSE IF later = {} THEN NULL ELSE Token(s, Min(later))
    BY DEF http_get_cookie
  <2> HIDE DEF found
  <2> QED
    BY <1>1, <1>2, <2>1
<1> HIDE DEF rest
<1> QED
  BY <1>2, <1>3, CookieTokens

\* A name of one letter is seen at the second place of the pair.
ShowsName(pair, x) == Head(pair) = x /\ pair[2] = Equals
ValueIn(pair) == SubSeq(pair, 3, Len(pair))

LEMMA ShortName ==
    ASSUME NEW S, NEW s \in Seq(S), NEW a \in Nat, NEW e \in Nat, NEW b \in Nat, NEW x,
           IsCookie(s, a, e, b)
    PROVE  /\ Named(s, <<x>>, a, e, b) <=> ShowsName(SubSeq(s, a, b), x)
           /\ Named(s, <<x>>, a, e, b) => SubSeq(s, e + 1, b) = ValueIn(SubSeq(s, a, b))
<1> DEFINE n == Len(s)
           q == SubSeq(s, a, b)
           w == SubSeq(s, a, e - 1)
           v == SubSeq(s, e + 1, b)
<1>1. n \in Nat /\ a \in 1..n /\ b \in 1..n /\ e \in (a + 1)..(b - 1)
  BY DEF IsCookie
<1>2. s[e] = Equals /\ \A i \in a..b : i # e => s[i] # Equals
  BY DEF IsCookie, Separators
<1>3. /\ q \in Seq(S) /\ Len(q) = b - a + 1
      /\ \A i \in 1..(b - a + 1) : q[i] = s[a + i - 1]
  BY <1>1, PartAt
<1>4. /\ w \in Seq(S) /\ Len(w) = e - a
      /\ \A i \in 1..(e - a) : w[i] = s[a + i - 1]
  <2>1. e - 1 \in 1..n /\ a <= e - 1 /\ (e - 1) - a + 1 = e - a
    BY <1>1
  <2> QED
    BY <1>1, <2>1, PartAt
<1>5. /\ v \in Seq(S) /\ Len(v) = b - e
      /\ \A i \in 1..(b - e) : v[i] = s[e + i]
  <2>1. e + 1 \in 1..n /\ e + 1 <= b /\ b - (e + 1) + 1 = b - e
        /\ \A i \in 1..(b - e) : (e + 1) + i - 1 = e + i
    BY <1>1
  <2> QED
    BY <1>1, <2>1, PartAt
<1> HIDE DEF q, w, v, n
<1>6. q[1] = s[a] /\ q[2] = s[a + 1] /\ w[1] = s[a] /\ Head(q) = q[1]
  <2>1. 1 \in 1..(b - a + 1) /\ 2 \in 1..(b - a + 1) /\ 1 \in 1..(e - a)
        /\ a + 1 - 1 = a /\ a + 2 - 1 = a + 1
    BY <1>1
  <2>2. q[1] = s[a] /\ q[2] = s[a + 1] /\ w[1] = s[a]
    BY <1>3, <1>4, <2>1
  <2>3. Head(q) = q[1]
    BY <1>1, <1>3
  <2> QED
    BY <2>2, <2>3
<1>7. ASSUME w = <<x>> PROVE e = a + 1 /\ x = s[a]
  <2>1. Len(<<x>>) = 1 /\ <<x>>[1] = x
    OBVIOUS
  <2> QED
    BY <1>1, <1>4, <1>6, <1>7, <2>1
<1>8. ASSUME s[a] = x, s[a + 1] = Equals PROVE w = <<x>>
  <2>1. e = a + 1
    BY <1>1, <1>2, <1>8
  <2>2. Len(w) = 1 /\ w[1] = x
    BY <1>1, <1>4, <1>6, <1>8, <2>1
  <2>3. x \in S /\ <<x>> \in Seq(S) /\ Len(<<x>>) = 1 /\ <<x>>[1] = x
    BY <1>1, <1>8 DEF n
  <2>4. \A i \in 1..1 : w[i] = <<x>>[i]
    BY <2>2, <2>3
  <2> QED
    BY <1>4, <2>2, <2>3, <2>4, SeqEqual
<1>9. ASSUME e = a + 1 PROVE v = SubSeq(q, 3, Len(q))
  <2>1. Len(q) \in Nat /\ 3 \in 1..Len(q) /\ Len(q) \in 1..Len(q) /\ 3 <= Len(q)
        /\ Len(q) - 3 + 1 = b - e
    BY <1>1, <1>3, <1>9
  <2> DEFINE r == SubSeq(q, 3, Len(q))
  <2>2. /\ r \in Seq(S) /\ Len(r) = b - e
        /\ \A i \in 1..(b - e) : r[i] = q[3 + i - 1]
    BY <1>3, <2>1, PartAt
  <2> HIDE DEF r
  <2>3. ASSUME NEW i \in 1..(b - e) PROVE r[i] = v[i]
    <3>1. 3 + i - 1 \in 1..(b - a + 1) /\ a + (3 + i - 1) - 1 = e + i
      BY <1>1, <1>9
    <3>2. q[3 + i - 1] = s[a + (3 + i - 1) - 1]
      BY <1>3, <3>1
    <3> QED
      BY <1>5, <2>2, <3>1, <3>2
  <2>4. r = v
    BY <1>1, <1>5, <2>2, <2>3, SeqEqual
  <2> QED
    BY <2>4 DEF r
<1>10. w = <<x>> <=> Head(q) = x /\ q[2] = Equals
  BY <1>2, <1>6, <1>7, <1>8
<1>11. w = <<x>> => v = SubSeq(q, 3, Len(q))
  BY <1>7, <1>9
<1> QED
  BY <1>10, <1>11 DEF q, w, v, Named, ShowsName, ValueIn

LEMMA CookieFound ==
    ASSUME NEW S, NEW s \in Seq(S), WellFormed(s), NEW x,
           NEW mine, mine = {p \in Pairs(s) : ShowsName(SubSeq(s, p[1], p[2]), x)}
    PROVE  IF mine = {} THEN http_get_cookie(s, <<x>>) = NULL
           ELSE \E p \in mine : /\ \A q \in mine : p[1] <= q[1]
                                /\ http_get_cookie(s, <<x>>) = ValueIn(SubSeq(s, p[1], p[2]))
<1>1. ASSUME NEW p \in mine
      PROVE  /\ p[1] \in Nat /\ p[2] \in Nat /\ p = <<p[1], p[2]>>
             /\ \E e \in Nat : Named(s, <<x>>, p[1], e, p[2])
  <2>1. p \in Pairs(s) /\ ShowsName(SubSeq(s, p[1], p[2]), x)
    OBVIOUS
  <2>2. p[1] \in Nat /\ p[2] \in Nat /\ p = <<p[1], p[2]>>
    BY <2>1 DEF Pairs
  <2>3. PICK e \in Nat : IsCookie(s, p[1], e, p[2])
    BY <2>1, PairIsCookie
  <2>4. Named(s, <<x>>, p[1], e, p[2])
    BY <2>1, <2>2, <2>3, ShortName, Zenon
  <2> QED
    BY <2>2, <2>4
<1>2. ASSUME NEW a \in Nat, NEW e \in Nat, NEW b \in Nat, Named(s, <<x>>, a, e, b)
      PROVE  <<a, b>> \in mine /\ SubSeq(s, e + 1, b) = ValueIn(SubSeq(s, a, b))
  <2>1. IsCookie(s, a, e, b)
    BY <1>2 DEF Named
  <2>2. <<a, b>> \in Pairs(s)
    BY <2>1, CookieIsPair
  <2>3. ShowsName(SubSeq(s, a, b), x) /\ SubSeq(s, e + 1, b) = ValueIn(SubSeq(s, a, b))
    BY <1>2, <2>1, ShortName, Zenon
  <2> QED
    BY <2>2, <2>3
<1>3. CASE mine = {}
  <2>1. \A a, e, b \in Nat : ~Named(s, <<x>>, a, e, b)
    BY <1>2, <1>3
  <2>2. http_get_cookie(s, <<x>>) = NULL
    BY <2>1, NoCookie, Zenon
  <2> QED
    BY <1>3, <2>2
<1>4. CASE mine # {}
  <2> DEFINE T == {p[1] : p \in mine}
  <2>1. T \subseteq Nat /\ T # {}
    BY <1>1, <1>4
  <2>2. PICK t \in T : \A u \in T : t <= u
    BY <2>1, LeastNumber
  <2>3. PICK p \in mine : t = p[1]
    OBVIOUS
  <2>4. \A q \in mine : p[1] <= q[1]
    BY <2>2, <2>3
  <2>5. PICK e \in Nat : Named(s, <<x>>, p[1], e, p[2])
    BY <1>1
  <2>6. p[1] \in Nat /\ p[2] \in Nat
    BY <1>1
  <2>7. ASSUME NEW c \in Nat, NEW f \in Nat, NEW d \in Nat, Named(s, <<x>>, c, f, d)
        PROVE  p[1] <= c
    <3>1. <<c, d>> \in mine
      BY <1>2, <2>7
    <3> QED
      BY <2>4, <3>1
  <2>8. \A c, f, d \in Nat : Named(s, <<x>>, c, f, d) => p[1] <= c
    BY <2>7
  <2>9. http_get_cookie(s, <<x>>) = SubSeq(s, e + 1, p[2])
    BY <2>5, <2>6, <2>8, FirstCookie, Zenon
  <2>10. SubSeq(s, e + 1, p[2]) = ValueIn(SubSeq(s, p[1], p[2]))
    BY <1>2, <2>5, <2>6
  <2> QED
    BY <1>4, <2>4, <2>9, <2>10
<1> QED
  BY <1>3, <1>4

\* In a header as browsers send it, of any length, http_get_cookie finds the value
\* of the first cookie of a name, and nothing if there is none.
THEOREM CookieIsAsSent == Spec => []CookieAsSent
<1>1. InputInv => CookieAsSent
  <2> SUFFICES ASSUME InputInv, subject = "header", WellFormed(input),
                      NEW name \in {<<"k">>, <<"v">>}
               PROVE  LET of(p) == SubSeq(input, p[1], p[2])
                          mine == {p \in Pairs(input) :
                                      Head(of(p)) = Head(name) /\ of(p)[2] = Equals}
                          value == http_get_cookie(input, name)
                      IN  IF mine = {} THEN value = NULL
                          ELSE \E p \in mine : /\ \A q \in mine : p[1] <= q[1]
                                               /\ value = SubSeq(of(p), 3, Len(of(p)))
    BY DEF CookieAsSent
  <2> DEFINE x == Head(name)
             mine == {p \in Pairs(input) : ShowsName(SubSeq(input, p[1], p[2]), x)}
  <2>1. input \in Seq(Subjects[subject])
    BY DEF InputInv
  <2>2. name = <<x>>
    OBVIOUS
  <2> HIDE DEF x
  <2>3. IF mine = {} THEN http_get_cookie(input, <<x>>) = NULL
        ELSE \E p \in mine : /\ \A q \in mine : p[1] <= q[1]
                             /\ http_get_cookie(input, <<x>>) = ValueIn(SubSeq(input, p[1], p[2]))
    BY <2>1, CookieFound, Zenon
  <2> QED
    BY <2>2, <2>3 DEF x, ShowsName, ValueIn
<1> QED
  BY <1>1, SpecInv, PTL
=============================================================================
