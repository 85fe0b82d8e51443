-------------------------------- MODULE Text --------------------------------
(***************************************************************************)
(* The pure functions on bytes, strings and numbers that the rest builds   *)
(* on: core/base64url.c for tokens, core/compat.c for keys and numbers,    *)
(* core/util.c and core/validator.c for file names and cookies, app_uptime *)
(* of core/application.c.                                                  *)
(*                                                                         *)
(* A byte is a number below 256, a character one of a small set, a string  *)
(* a sequence; the NUL at its end is not written.  The state is one input, *)
(* which grows, and what it is an input for; the properties say what the   *)
(* functions make of every input.                                          *)
(***************************************************************************)
EXTENDS Integers, Sequences, FiniteSets, SequencesExt

CONSTANTS Subjects,  \* what an input is for, with what it is made of
          MaxLen,    \* bound of the model on the length of each input
          Letters,   \* the characters that isalpha accepts
          EXT_MAX,   \* characters of an extension that v_extension lets through, 8
          NULL

ASSUME BytesAssumption == "bytes" \in DOMAIN Subjects => Subjects["bytes"] \subseteq 0..255
ASSUME NumbersAssumption == "number" \in DOMAIN Subjects => Subjects["number"] \subseteq Nat
ASSUME LettersAssumption == "(" \notin Letters
ASSUME LimitAssumption == EXT_MAX \in Nat
ASSUME NullAssumption == \A s \in DOMAIN Subjects : NULL \notin Seq(Subjects[s])

VARIABLES subject, input

vars == <<subject, input>>

Init == subject \in DOMAIN Subjects /\ input = <<>>

Next ==
    /\ Len(input) < MaxLen[subject]
    /\ \E c \in Subjects[subject] : input' = Append(input, c)
    /\ UNCHANGED subject

Spec == Init /\ [][Next]_vars

-----------------------------------------------------------------------------
(* core/base64url.c.  Shifts and masks are divisions and remainders.       *)

\* The character of a group of six bits, and back; what is no such character
\* counts as 0.
b64(six) ==
    CASE six < 26 -> 65 + six
      [] six \in 26..51 -> 97 + (six - 26)
      [] six \in 52..61 -> 48 + (six - 52)
      [] six = 62 -> 45
      [] six = 63 -> 95

unb64(byte) ==
    CASE byte \in 65..90 -> byte - 65
      [] byte \in 97..122 -> byte - 97 + 26
      [] byte \in 48..57 -> byte - 48 + 52
      [] byte = 45 -> 62
      [] byte = 95 -> 63
      [] OTHER -> 0

\* Seeded fault: the upper bits of the second byte are lost.
MaskedSixes(a, b, c) ==
    <<a \div 4, (a % 4) * 16, ((b % 16) * 4) + (c \div 64), c % 64>>

\* The four groups of three bytes.
Sixes(a, b, c) ==
    <<a \div 4, ((a % 4) * 16) + (b \div 16), ((b % 16) * 4) + (c \div 64), c % 64>>

Pad(modulus) == ((modulus % 2) * 2) + (modulus \div 2)

\* What n bytes beyond the last whole group are written in.
RestLength(n) == IF n = 0 THEN 0 ELSE n + 1

base64url_encode(data) ==
    LET n == Len(data)
        byte(i) == IF i <= n THEN data[i] ELSE 0
        group(g) == Sixes(byte(3*g + 1), byte(3*g + 2), byte(3*g + 3))
    IN  [i \in 1..4 * (n \div 3) + RestLength(n % 3) |->
            b64(group((i - 1) \div 4)[((i - 1) % 4) + 1])]

\* The length that the caller is told, without the padding left out.
EncodedLength(n) == (4 * (n + Pad(n % 3))) \div 3 - Pad(n % 3)

\* What the callers in core/jwt.c allocate.
EncodedSpace(n) == (4 * n) \div 3 + 2
DecodedSpace(n) == (3 * n) \div 4 + 1

\* Seeded fault: text that is one character short of a group counts as whole.
ShortOfGroupIgnored(n) == IF n % 4 = 2 THEN 2 ELSE 0

ShortOfGroup(n) == IF n % 4 = 2 THEN 2 ELSE IF n % 4 = 3 THEN 1 ELSE 0

\* For one character nothing is decoded, and no length is told.
DecodedLength(n) == (3 * (n + ShortOfGroup(n))) \div 4 - ShortOfGroup(n)

\* The three bytes of four groups, each cut to its eight bits.
Bytes(a, b, c, d) == <<a * 4 + (b \div 16), (b * 16 + (c \div 4)) % 256, (c * 64 + d) % 256>>

base64url_decode(data) ==
    LET n == Len(data)
        pad == ShortOfGroup(n)
        six(i) == IF i <= n THEN unb64(data[i]) ELSE 0
        group(g) == Bytes(six(4*g + 1), six(4*g + 2), six(4*g + 3), six(4*g + 4))
    IN  [i \in 1..3 * ((n + pad) \div 4) - pad |-> group((i - 1) \div 3)[((i - 1) % 3) + 1]]

-----------------------------------------------------------------------------
(* core/compat.c.                                                          *)

\* What is left of a string in len bytes, one of them its end.
Cut(s, n) == SubSeq(s, 1, IF n < Len(s) THEN n ELSE Len(s))
strlcpy(src, len) == Cut(src, len - 1)
strlcat(dst, src, len) == dst \o Cut(src, len - 1 - Len(dst))

\* Seeded fault: no room for the dot.
ShortKeyLength(section, name) == Len(section) + Len(name) + 1

\* load_config_tree: the key of an item in a section.
KeyLength(section, name) == Len(section) + 1 + Len(name) + 1
KeyOf(section, name) ==
    LET keylen == KeyLength(section, name)
    IN  strlcat(strlcat(strlcpy(section, keylen), <<".">>, keylen), name, keylen)

isalpha(c) == c \in Letters
strisalpha(s) == \A i \in DOMAIN s : isalpha(s[i])

\* The digits that aya_itoa writes, from the last to the first.
DigitsOf[i \in Nat] == IF i < 10 THEN <<i>> ELSE Append(DigitsOf[i \div 10], i % 10)

aya_itoa(i) == IF i >= 0 THEN DigitsOf[i] ELSE <<"-">> \o DigitsOf[-i]

-----------------------------------------------------------------------------
(* core/util.c, core/validator.c and core/application.c.                   *)

\* strrchr; 0 if there is no dot.
LastDot(s) == SelectLastInSeq(s, LAMBDA c : c = ".")

\* What follows the last dot, unless this is the first character or missing.
file_extension(filename) ==
    LET dot == LastDot(filename)
    IN  IF dot <= 1 THEN NULL ELSE SubSeq(filename, dot + 1, Len(filename))

\* Seeded fault: an extension of full length is refused.
validator_file_extension_short(data) ==
    data # <<>> /\ Len(data) < EXT_MAX /\ strisalpha(data)

validator_file_extension(data) ==
    data # <<>> /\ Len(data) <= EXT_MAX /\ strisalpha(data)

\* put_resource prints a NULL as "(null)".
Stored(filename) ==
    LET ext == file_extension(filename) IN IF ext = NULL THEN <<"(", "null", ")">> ELSE ext

\* strtok with " ;=" goes from one of the longest pieces without any of these to
\* the next; a piece is known by the place where it starts.
Blank == " "
Semicolon == ";"
Equals == "="
Separators == {Blank, Semicolon, Equals}
Inside(s, i) == i \in DOMAIN s /\ s[i] \notin Separators
Starts(s) == {i \in DOMAIN s : Inside(s, i) /\ ~Inside(s, i - 1)}
Token(s, i) == SubSeq(s, i, Min({e \in DOMAIN s : e >= i /\ ~Inside(s, e + 1)}))

\* Seeded fault: a value may be taken for a key.
AnyIsKey(k) == TRUE

\* Every other token is a key.
IsKey(k) == k % 2 = 1

\* The tokens up to and with the one at i.
Count(s, i) == Cardinality({j \in Starts(s) : j <= i})

http_get_cookie(header, name) ==
    LET found == {i \in Starts(header) : IsKey(Count(header, i)) /\ Token(header, i) = name}
        rest == {i \in Starts(header) : i > Min(found)}
    IN  IF found = {} THEN NULL
        ELSE IF rest = {} THEN NULL ELSE Token(header, Min(rest))

\* Seeded fault: minutes are taken from what is left of the day.
MinutesOfDay(diff) == (diff % 86400) \div 60

Minutes(diff) == (diff % 3600) \div 60

app_uptime(diff) ==
    [days |-> diff \div 86400, hours |-> (diff % 86400) \div 3600,
     minutes |-> Minutes(diff), seconds |-> (diff % 3600) % 60]

-----------------------------------------------------------------------------
(* Properties.                                                             *)

IsText == subject = "text"
IsBytes == subject = "bytes"

Bit(data, k) == (data[(k \div 8) + 1] \div <<128, 64, 32, 16, 8, 4, 2, 1>>[(k % 8) + 1]) % 2

\* The reference: the bits of the data in groups of six, the last one filled
\* up with zeros.
InSixes(data) ==
    LET bits == 8 * Len(data)
        bit(k) == IF k < bits THEN Bit(data, k) ELSE 0
        six(j) == 32 * bit(6*j) + 16 * bit(6*j + 1) + 8 * bit(6*j + 2)
                  + 4 * bit(6*j + 3) + 2 * bit(6*j + 4) + bit(6*j + 5)
    IN  [j \in 1..(bits + 5) \div 6 |-> six(j - 1)]

\* base64url_encode writes the bits of the data six by six, what it wrote is
\* decoded to the same data, and a text that was never encoded to bytes; the
\* lengths told to the callers are those that were written, and what is written,
\* with a NUL, fits into what core/jwt.c allocates, for any length.
CodedWhole ==
    /\ IsBytes =>
        LET code == base64url_encode(input)
        IN  /\ [i \in DOMAIN code |-> unb64(code[i])] = InSixes(input)
            /\ base64url_decode(code) = input
            /\ Len(code) = EncodedLength(Len(input))
            /\ Len(code) + 1 <= EncodedSpace(Len(input))
    /\ IsText /\ Len(input) # 1 =>
        LET data == base64url_decode(input)
        IN  /\ \A i \in DOMAIN data : data[i] \in 0..255
            /\ Len(data) = DecodedLength(Len(input))
            /\ Len(data) + 1 <= DecodedSpace(Len(input))

\* The key of an item in a section is the joined text, section, dot and name,
\* stored whole in the buffer made for it (application.c:145).  Different
\* sections and names may still join to one text, as those of a.b and c do with
\* those of a and b.c.
KeysWhole ==
    subject = "name" =>
        \A i \in 1..Len(input) :
            LET section == SubSeq(input, 1, i)
                name == SubSeq(input, i + 1, Len(input))
            IN  KeyOf(section, name) = section \o <<".">> \o name

\* Every file whose extension is in letters, and short enough, is stored where
\* a request that the validators let through finds it; and none that has no
\* extension.
Fetchable ==
    subject = "name" =>
        (validator_file_extension(Stored(input)) <=>
            \E dot \in 2..Len(input) :
                /\ input[dot] = "." /\ Len(input) - dot \in 1..EXT_MAX
                /\ \A i \in (dot + 1)..Len(input) : input[i] # "." /\ input[i] \in Letters)

\* The header is a list of names and values, none of them empty.
Pairs(s) ==
    {p \in (1..Len(s)) \X (1..Len(s)) :
        /\ p[1] <= p[2]
        /\ p[1] = 1 \/ s[p[1] - 1] \in {Semicolon, Blank}
        /\ p[2] = Len(s) \/ s[p[2] + 1] = Semicolon
        /\ \A i \in p[1]..p[2] : s[i] \notin {Semicolon, Blank}}
IsPair(s) == \E i \in 2..Len(s) - 1 : s[i] = Equals /\ \A j \in (DOMAIN s) \ {i} : s[j] # Equals
WellFormed(s) ==
    /\ \A p \in Pairs(s) : IsPair(SubSeq(s, p[1], p[2]))
    /\ \A i \in DOMAIN s :
        s[i] = Semicolon =>
            i > 1 /\ i < Len(s) /\ s[i - 1] \notin {Semicolon, Blank} /\ s[i + 1] # Semicolon
    /\ \A i \in DOMAIN s : s[i] = Blank => i > 1 /\ i < Len(s) /\ s[i - 1] = Semicolon

\* In a header as browsers send it, http_get_cookie finds the value of the
\* first cookie of a name, also where a value looks like the name, and
\* nothing if there is none.  This is of one call: strtok writes string ends
\* into the header of the request, which a second call would find cut.
CookieAsSent ==
    subject = "header" /\ WellFormed(input) =>
        \A name \in {<<"k">>, <<"v">>} :
            LET of(p) == SubSeq(input, p[1], p[2])
                mine == {p \in Pairs(input) : Head(of(p)) = Head(name) /\ of(p)[2] = Equals}
                value == http_get_cookie(input, name)
            IN  IF mine = {} THEN value = NULL
                ELSE \E p \in mine : /\ \A q \in mine : p[1] <= q[1]
                                     /\ value = SubSeq(of(p), 3, Len(of(p)))

ValueOf[digits \in Seq(0..9)] ==
    IF digits = <<>> THEN 0 ELSE 10 * ValueOf[Front(digits)] + Last(digits)

\* The times and numbers that pages show add up to what they stand for.
NumbersShown ==
    subject = "number" =>
        \A i, j \in DOMAIN input :
            LET n == input[i] + input[j]
                up == app_uptime(n)
                shown == aya_itoa(n)
            IN  /\ up.days * 86400 + up.hours * 3600 + up.minutes * 60 + up.seconds = n
                /\ up.hours < 24 /\ up.minutes < 60 /\ up.seconds < 60
                /\ ValueOf[shown] = n /\ (Len(shown) > 1 => shown[1] # 0)
                /\ n > 0 => aya_itoa(-n) = <<"-">> \o shown
=============================================================================
