------------------------ MODULE ResourceStoreProofs ------------------------
(***************************************************************************)
(* Theorems about ResourceStore, for any number of workers, principals and *)
(* identifiers and uploads of any length.                                  *)
(***************************************************************************)
EXTENDS ResourceStore, SequenceTheorems, TLAPS

-----------------------------------------------------------------------------
(* The inductive invariant.                                                *)

\* A header is at the beginning of a file or nowhere.
HeaderFirst(f) == f # NULL => \A i \in 2..Len(f) : f[i] # HEADER

\* How far a worker has come with s, and what file that has left.  As long as
\* no call has failed the file is what was written.
InProgress(s, f) ==
    /\ f # NULL
    /\ s.pos <= Len(s.upload)
    /\ ~s.has_header => s.pos = 0 /\ f = <<>>
    /\ s.error => s.failed = "read" /\ s.stage # "writing"
    /\ s.stage = "unlinking" => s.error
    /\ s.failed = "none" =>
         /\ ~s.error
         /\ s.stage = "writing" \/ (s.stage = "closing" /\ s.pos = Len(s.upload))
         /\ s.has_header => f = <<HEADER>> \o SubSeq(s.upload, 1, s.pos)

\* A path has one writer at most, and none once it has been answered for.
OneWriter ==
    /\ \A v, w \in Workers : op[v] # NULL /\ op[w] # NULL /\ op[v].path = op[w].path => v = w
    /\ \A s \in stored, w \in Workers : op[w] # NULL => op[w].path # s.path

\* What was ever written to has a name that was given out.
NamesUsed ==
    /\ \A w \in Workers : op[w] # NULL => op[w].path[2] \in used
    /\ \A s \in stored : s.path[2] \in used

Headed == \A p \in Path : HeaderFirst(files[p])
Underway == \A w \in Workers : op[w] # NULL => InProgress(op[w], files[op[w].path])


\* The file of an upload whose calls went well is whole, whether it still has
\* its name or not.
KeptWhole ==
    \A s \in stored :
      s.failed = "none" =>
        s.code = 200 /\ files[s.path] # NULL /\ BodyOf(files[s.path]) = s.upload

\* What takes names away are uploads that could not be read.
UnlinkedByFailure == unlinked # {} => \E s \in stored : s.failed = "read"

StoreInv == /\ TypeOK /\ Headed /\ Underway /\ OneWriter /\ NamesUsed
            /\ KeptWhole /\ UnlinkedByFailure

-----------------------------------------------------------------------------
(* Files.                                                                  *)

LEMMA UploadIsSeq ==
    ASSUME NEW u \in Upload
    PROVE  u \in Seq(Blocks) /\ Len(u) \in 0..MaxBlocks
<1>1. PICK n \in 0..MaxBlocks : u \in [1..n -> Blocks]
  BY DEF Upload
<1>2. n \in Nat
  BY <1>1, MaxBlocksAssumption
<1> QED
  BY <1>1, <1>2, SeqDef, LenProperties

LEMMA SeqOfOthers ==
    ASSUME NEW S, NEW T, NEW s \in Seq(S), \A i \in 1..Len(s) : s[i] \in T
    PROVE  s \in Seq(T)
<1>1. Len(s) \in Nat /\ s \in [1..Len(s) -> S]
  BY LenProperties
<1>2. s \in [1..Len(s) -> T]
  BY <1>1
<1> QED
  BY <1>1, <1>2, SeqDef

LEMMA PieceKinds ==
    /\ HEADER \in Pieces /\ TORN \in Pieces /\ Blocks \subseteq Pieces /\ HEADER # TORN
    /\ \A b \in Blocks : b # HEADER /\ b # TORN
BY PiecesAssumption DEF Pieces

LEMMA FileIsNotNull == \A f \in Seq(Pieces) : f # NULL
BY NullAssumption

\* What comes after something in a file must not be a header, nor have one.
LEMMA HeaderStaysFirst ==
    ASSUME NEW f \in Seq(Pieces), NEW g \in Seq(Pieces), HeaderFirst(f),
           \A i \in 1..Len(g) : g[i] = HEADER => i = 1 /\ f = <<>>
    PROVE  f \o g \in Seq(Pieces) /\ HeaderFirst(f \o g)
<1> DEFINE h == f \o g
<1>1. /\ h \in Seq(Pieces) /\ Len(h) = Len(f) + Len(g) /\ Len(f) \in Nat /\ Len(g) \in Nat
      /\ \A i \in 1..(Len(f) + Len(g)) : h[i] = IF i <= Len(f) THEN f[i] ELSE g[i - Len(f)]
  OBVIOUS
<1> HIDE DEF h
<1>2. ASSUME NEW i \in 2..Len(h)
      PROVE  h[i] # HEADER
  <2>1. CASE i <= Len(f)
    <3>1. i \in 2..Len(f) /\ h[i] = f[i]
      BY <1>1, <2>1
    <3> QED
      BY <3>1, FileIsNotNull DEF HeaderFirst
  <2>2. CASE i > Len(f)
    <3>1. h[i] = g[i - Len(f)] /\ i - Len(f) \in 1..Len(g)
      BY <1>1, <2>2
    <3>2. i - Len(f) = 1 => f # <<>>
      BY <1>1
    <3> QED
      BY <3>1, <3>2
  <2> QED
    BY <1>1, <2>1, <2>2
<1> QED
  BY <1>1, <1>2 DEF h, HeaderFirst

LEMMA TruncatedIsHeaded ==
    ASSUME NEW f \in Seq(Pieces), HeaderFirst(f), NEW g \in Truncated(f)
    PROVE  g \in Seq(Pieces) /\ HeaderFirst(g)
<1>1. PICK n \in 0..(Len(f) - 1) : g = SubSeq(f, 1, n) \/ g = Append(SubSeq(f, 1, n), TORN)
  BY DEF Truncated
<1> DEFINE s == SubSeq(f, 1, n)
<1>2. n \in Nat /\ n <= Len(f) /\ Len(f) \in Nat
  BY <1>1
<1>3. s \in Seq(Pieces) /\ Len(s) = n /\ \A i \in 1..n : s[i] = f[i]
  BY <1>2
<1> HIDE DEF s
<1>4. HeaderFirst(s)
  <2>1. \A i \in 2..Len(s) : i \in 2..Len(f) /\ i \in 1..n
    BY <1>2, <1>3
  <2> QED
    BY <1>3, <2>1, FileIsNotNull DEF HeaderFirst
<1>5. Append(s, TORN) \in Seq(Pieces) /\ HeaderFirst(Append(s, TORN))
  <2>1. /\ Append(s, TORN) \in Seq(Pieces) /\ Len(Append(s, TORN)) = n + 1
        /\ Append(s, TORN)[n + 1] = TORN /\ \A i \in 1..n : Append(s, TORN)[i] = s[i]
    BY <1>2, <1>3, PieceKinds
  <2>2. \A i \in 2..(n + 1) : i \in 2..Len(s) \/ i = n + 1
    BY <1>2, <1>3
  <2>3. \A i \in 2..Len(s) : s[i] # HEADER /\ i \in 1..n
    BY <1>2, <1>3, <1>4, FileIsNotNull DEF HeaderFirst
  <2> QED
    BY <2>1, <2>2, <2>3, PieceKinds DEF HeaderFirst
<1> QED
  BY <1>1, <1>3, <1>4, <1>5 DEF s

\* A file that is its header and an upload, or nothing for an empty upload,
\* is read back as that upload.
LEMMA BodyOfUpload ==
    ASSUME NEW u \in Upload, NEW f, f = <<HEADER>> \o u \/ (f = <<>> /\ u = <<>>)
    PROVE  BodyOf(f) = u
<1>1. u \in Seq(Blocks)
  BY UploadIsSeq
<1>2. CASE f = <<HEADER>> \o u
  <2>0. u \in Seq(Pieces) /\ <<HEADER>> \in Seq(Pieces) /\ Len(u) \in Nat
    BY <1>1, PieceKinds
  <2>1. /\ f \in Seq(Pieces) /\ Len(f) = 1 + Len(u) /\ f[1] = HEADER
        /\ \A i \in 1..Len(u) : f[i + 1] = u[i]
    BY <1>2, <2>0
  <2>2. f # <<>> /\ Head(f) = HEADER
    BY <2>0, <2>1
  <2>3. /\ Tail(f) \in Seq(Pieces) /\ Len(Tail(f)) = Len(u)
        /\ \A i \in 1..Len(u) : Tail(f)[i] = f[i + 1]
    BY <2>0, <2>1, <2>2
  <2>4. Tail(f) = u
    BY <2>0, <2>1, <2>3, SeqEqual
  <2> QED
    BY <2>2, <2>4 DEF BodyOf, HasHeader
<1>3. CASE f = <<>> /\ u = <<>>
  BY <1>3 DEF BodyOf
<1> QED
  BY <1>2, <1>3

\* A header is never handed out.
LEMMA BodyHasNoHeader ==
    ASSUME NEW f \in Seq(Pieces), HeaderFirst(f)
    PROVE  BodyOf(f) \in Seq(Blocks \cup {TORN})
<1>1. CASE f = <<>> \/ ~HasHeader(f)
  <2>1. BodyOf(f) = <<>> \/ BodyOf(f) = <<TORN>>
    BY <1>1 DEF BodyOf
  <2> DEFINE Given == Blocks \cup {TORN}
  <2>2. TORN \in Given
    OBVIOUS
  <2> HIDE DEF Given
  <2>3. <<>> \in Seq(Given) /\ <<TORN>> \in Seq(Given)
    BY <2>2
  <2> QED
    BY <2>1, <2>3 DEF Given
<1>2. CASE f # <<>> /\ HasHeader(f)
  <2>1. /\ Tail(f) \in Seq(Pieces) /\ Len(Tail(f)) = Len(f) - 1 /\ Len(f) \in Nat
        /\ \A i \in 1..(Len(f) - 1) : Tail(f)[i] = f[i + 1]
    BY <1>2
  <2>2. \A i \in 1..Len(Tail(f)) : Tail(f)[i] \in Blocks \cup {TORN}
    <3> SUFFICES ASSUME NEW i \in 1..Len(Tail(f)) PROVE Tail(f)[i] \in Blocks \cup {TORN}
      OBVIOUS
    <3>1. i + 1 \in 2..Len(f) /\ Tail(f)[i] = f[i + 1]
      BY <2>1
    <3>2. f[i + 1] # HEADER /\ f[i + 1] \in Pieces
      BY <3>1, FileIsNotNull DEF HeaderFirst
    <3> QED
      BY <3>1, <3>2 DEF Pieces
  <2>3. Tail(f) \in Seq(Blocks \cup {TORN})
    BY <2>1, <2>2, SeqOfOthers
  <2> QED
    BY <1>2, <2>3 DEF BodyOf
<1> QED
  BY <1>1, <1>2

-----------------------------------------------------------------------------
(* What the steps of a worker have in common.                              *)

\* What the invariant says of a worker that is storing.
LEMMA StoreFields ==
    ASSUME StoreInv, NEW w \in Workers, op[w] # NULL
    PROVE  /\ op[w] \in Store /\ op[w].path \in Path /\ op[w].path[2] \in used
           /\ op[w].upload \in Upload /\ op[w].upload \in Seq(Blocks)
           /\ op[w].pos \in 0..MaxBlocks /\ op[w].pos \in Nat /\ Len(op[w].upload) \in 0..MaxBlocks
           /\ files[op[w].path] \in Seq(Pieces) /\ HeaderFirst(files[op[w].path])
           /\ InProgress(op[w], files[op[w].path])
<1>1. op[w] \in Store
  BY DEF StoreInv, TypeOK
<1>2. /\ op[w].path \in Path /\ op[w].upload \in Upload /\ op[w].pos \in 0..MaxBlocks
      /\ op[w].pos \in Nat
  BY <1>1, MaxBlocksAssumption DEF Store
<1>3. InProgress(op[w], files[op[w].path]) /\ op[w].path[2] \in used
  BY DEF StoreInv, Underway, NamesUsed
<1>4. files[op[w].path] \in Seq(Pieces) /\ HeaderFirst(files[op[w].path])
  BY <1>2, <1>3 DEF StoreInv, TypeOK, Headed, InProgress
<1> QED
  BY <1>1, <1>2, <1>3, <1>4, UploadIsSeq

\* A worker that goes on with its upload disturbs no other and nothing that
\* has been answered for: the path is its own.
LEMMA GoesOn ==
    ASSUME StoreInv, NEW w \in Workers, op[w] # NULL,
           NEW s \in Store, s.path = op[w].path,
           NEW g \in Seq(Pieces), HeaderFirst(g), InProgress(s, g),
           op' = [op EXCEPT ![w] = s], files' = [files EXCEPT ![s.path] = g],
           unlinked' = unlinked, used' = used, stored' = stored, answer' = answer
    PROVE  StoreInv'
<1>1. s.path \in Path /\ s # NULL /\ g # NULL
  BY StoreFields, FileIsNotNull, NullAssumption
<1>2. op'[w] = s /\ \A v \in Workers : v # w => op'[v] = op[v]
  BY DEF StoreInv, TypeOK
<1>3. files'[s.path] = g /\ \A p \in Path : p # s.path => files'[p] = files[p]
  BY <1>1 DEF StoreInv, TypeOK
<1>4. TypeOK'
  BY <1>1 DEF StoreInv, TypeOK
<1>5. Headed'
  BY <1>3 DEF StoreInv, Headed
<1>6. ASSUME NEW v \in Workers, v # w, op[v] # NULL
      PROVE  op[v].path # s.path /\ op[v].path \in Path
  BY <1>6, StoreFields DEF StoreInv, OneWriter
<1>7. Underway'
  BY <1>2, <1>3, <1>6 DEF StoreInv, Underway
<1>8. OneWriter'
  BY <1>1, <1>2 DEF StoreInv, OneWriter
<1>9. NamesUsed'
  BY <1>1, <1>2 DEF StoreInv, NamesUsed
<1>10. KeptWhole'
  <2>1. \A r \in stored : r.path # s.path /\ r.path \in Path
    BY DEF StoreInv, OneWriter, TypeOK, Stored
  <2> QED
    BY <1>3, <2>1 DEF StoreInv, KeptWhole
<1>11. UnlinkedByFailure'
  BY DEF StoreInv, UnlinkedByFailure
<1> QED
  BY <1>4, <1>5, <1>7, <1>8, <1>9, <1>10, <1>11 DEF StoreInv

\* What is said of the upload s, whose file is g.
AnsweredWith(answers, s, g) ==
    \A r \in answers : /\ r \in Stored /\ r.path = s.path
                       /\ r.failed = "none" => r.code = 200 /\ BodyOf(g) = r.upload

\* A worker comes to the end of its upload, or dies, and may have answered.
LEMMA ComesToAnEnd ==
    ASSUME StoreInv, NEW w \in Workers, op[w] # NULL,
           NEW g \in Seq(Pieces), HeaderFirst(g), NEW answers, AnsweredWith(answers, op[w], g),
           op' = [op EXCEPT ![w] = NULL], files' = [files EXCEPT ![op[w].path] = g],
           used' = used, answer' = answer, stored' = stored \cup answers,
           unlinked' \subseteq Path,
           unlinked' = unlinked \/ \E r \in answers : r.failed = "read"
    PROVE  StoreInv'
<1> DEFINE s == op[w]
<1>0. \A r \in answers : /\ r \in Stored /\ r.path = s.path
                         /\ r.failed = "none" => r.code = 200 /\ BodyOf(g) = r.upload
  BY DEF AnsweredWith
<1>1. s.path \in Path /\ s.path[2] \in used /\ g # NULL
  BY StoreFields, FileIsNotNull
<1>2. op'[w] = NULL /\ \A v \in Workers : v # w => op'[v] = op[v]
  BY DEF StoreInv, TypeOK
<1>3. files'[s.path] = g /\ \A p \in Path : p # s.path => files'[p] = files[p]
  BY <1>1 DEF StoreInv, TypeOK
<1>4. TypeOK'
  BY <1>0, <1>1 DEF StoreInv, TypeOK
<1>5. Headed'
  BY <1>3 DEF StoreInv, Headed
<1>6. ASSUME NEW v \in Workers, v # w, op[v] # NULL
      PROVE  op[v].path # s.path /\ op[v].path \in Path
  BY <1>6, StoreFields DEF StoreInv, OneWriter
<1>7. Underway'
  BY <1>2, <1>3, <1>6 DEF StoreInv, Underway
<1>8. OneWriter'
  BY <1>0, <1>2, <1>6 DEF StoreInv, OneWriter
<1>9. NamesUsed'
  BY <1>0, <1>1, <1>2 DEF StoreInv, NamesUsed
<1>10. KeptWhole'
  <2>1. \A r \in stored : r.path # s.path /\ r.path \in Path
    BY DEF StoreInv, OneWriter, TypeOK, Stored
  <2>2. \A r \in stored : r.failed = "none" =>
          /\ r.code = 200 /\ files'[r.path] # NULL /\ BodyOf(files'[r.path]) = r.upload
    BY <1>3, <2>1 DEF StoreInv, KeptWhole
  <2>3. \A r \in answers : r.failed = "none" =>
          /\ r.code = 200 /\ files'[r.path] # NULL /\ BodyOf(files'[r.path]) = r.upload
    BY <1>0, <1>1, <1>3
  <2> QED
    BY <2>2, <2>3 DEF KeptWhole
<1>11. UnlinkedByFailure'
  BY DEF StoreInv, UnlinkedByFailure
<1> QED
  BY <1>4, <1>5, <1>7, <1>8, <1>9, <1>10, <1>11 DEF StoreInv

\* The answer to an upload.
LEMMA ReplyAdds ==
    ASSUME StoreInv, NEW w \in Workers, op[w] # NULL, NEW code \in {200, 500},
           NEW failed \in {"none", "read", "write"}, Reply(op[w], code, failed)
    PROVE  \E r \in Stored : /\ stored' = stored \cup {r} /\ r.path = op[w].path
                             /\ r.upload = op[w].upload /\ r.code = code /\ r.failed = failed
<1> DEFINE r == [path |-> op[w].path, upload |-> op[w].upload, code |-> code, failed |-> failed]
<1>1. r \in Stored /\ stored' = stored \cup {r}
  BY StoreFields DEF Reply, Stored
<1>2. r.path = op[w].path /\ r.upload = op[w].upload /\ r.code = code /\ r.failed = failed
  OBVIOUS
<1> HIDE DEF r
<1> QED
  BY <1>1, <1>2

-----------------------------------------------------------------------------
(* Each step keeps the invariant.                                          *)

LEMMA OpenKeepsInv ==
    ASSUME StoreInv, NEW w \in Workers, NEW o \in ObjectIds, NEW u \in Upload, Open(w, o, u)
    PROVE  StoreInv'
<1> PICK id \in Uuids \ used :
        /\ used' = used \cup {id}
        /\ \/ /\ files' = [files EXCEPT ![<<o, id>>] = <<>>]
              /\ op' = [op EXCEPT ![w] = [path |-> <<o, id>>, upload |-> u, pos |-> 0,
                          has_header |-> FALSE, stage |-> "writing",
                           error |-> FALSE, failed |-> "none"]]
              /\ stored' = stored
           \/ /\ stored' = stored \cup {[path |-> <<o, id>>, upload |-> u, code |-> 500,
                                          failed |-> "open"]}
              /\ files' = files /\ op' = op
  BY DEF Open, Reply, Fresh
<1>0. op[w] = NULL /\ answer' = answer /\ unlinked' = unlinked
  BY DEF Open
<1> DEFINE p == <<o, id>>
           s == [path |-> p, upload |-> u, pos |-> 0, has_header |-> FALSE,
                 stage |-> "writing", error |-> FALSE, failed |-> "none"]
           r == [path |-> p, upload |-> u, code |-> 500, failed |-> "open"]
<1>1. p \in Path /\ p[2] = id /\ u \in Seq(Blocks) /\ 0 <= Len(u)
  BY UploadIsSeq DEF Path
<1>2. /\ \A v \in Workers : op[v] # NULL => op[v].path # p
      /\ \A q \in stored : q.path # p
  BY <1>1 DEF StoreInv, NamesUsed
<1>3. used' \subseteq Uuids /\ used \subseteq used' /\ id \in used'
  BY DEF StoreInv, TypeOK
<1>4. ASSUME files' = [files EXCEPT ![p] = <<>>], op' = [op EXCEPT ![w] = s], stored' = stored
      PROVE  StoreInv'
  <2>1. s \in Store /\ s # NULL
    <3>1. s \in Store
      BY <1>1, MaxBlocksAssumption DEF Store
    <3> QED
      BY <3>1, NullAssumption
  <2>2. s.path = p /\ s.upload = u /\ s.pos = 0 /\ ~s.has_header /\ ~s.error
        /\ s.stage = "writing" /\ s.failed = "none"
    OBVIOUS
  <2> HIDE DEF s
  <2>3. <<>> \in Seq(Pieces) /\ HeaderFirst(<<>>) /\ InProgress(s, <<>>)
    <3>1. <<>> \in Seq(Pieces) /\ <<>> # NULL /\ Len(<<>>) = 0
      BY EmptySeq, FileIsNotNull
    <3>2. HeaderFirst(<<>>)
      BY <3>1 DEF HeaderFirst
    <3>3. InProgress(s, <<>>)
      BY <1>1, <2>2, <3>1 DEF InProgress
    <3> QED
      BY <3>1, <3>2, <3>3
  <2>4. op'[w] = s /\ \A v \in Workers : v # w => op'[v] = op[v]
    BY <1>4 DEF StoreInv, TypeOK
  <2>5. files'[p] = <<>> /\ \A q \in Path : q # p => files'[q] = files[q]
    BY <1>1, <1>4 DEF StoreInv, TypeOK
  <2> HIDE DEF p
  <2>6. TypeOK'
    BY <1>0, <1>1, <1>3, <1>4, <2>1, <2>3 DEF StoreInv, TypeOK
  <2>7. Headed'
    BY <2>3, <2>5 DEF StoreInv, Headed
  <2>8. \A v \in Workers : op[v] # NULL => op[v].path \in Path
    BY StoreFields
  <2>9. Underway'
    BY <1>2, <2>2, <2>3, <2>4, <2>5, <2>8 DEF StoreInv, Underway
  <2>10. OneWriter'
    BY <1>2, <1>4, <2>2, <2>4 DEF StoreInv, OneWriter
  <2>11. NamesUsed'
    BY <1>1, <1>3, <1>4, <2>2, <2>4 DEF StoreInv, NamesUsed
  <2>12. KeptWhole'
    <3>1. \A q \in stored : q.path \in Path
      BY DEF StoreInv, TypeOK, Stored
    <3> QED
      BY <1>2, <1>4, <2>5, <3>1 DEF StoreInv, KeptWhole
  <2>13. UnlinkedByFailure'
    BY <1>0, <1>4 DEF StoreInv, UnlinkedByFailure
  <2> QED
    BY <2>6, <2>7, <2>9, <2>10, <2>11, <2>12, <2>13 DEF StoreInv
<1>5. ASSUME files' = files, op' = op, stored' = stored \cup {r}
      PROVE  StoreInv'
  <2>1. r \in Stored /\ r.path = p /\ r.failed # "none"
    BY <1>1 DEF Stored
  <2> HIDE DEF r, p
  <2>2. TypeOK' /\ Headed' /\ Underway'
    BY <1>0, <1>3, <1>5, <2>1 DEF StoreInv, TypeOK, Headed, Underway
  <2>3. OneWriter' /\ NamesUsed'
    BY <1>1, <1>2, <1>3, <1>5, <2>1 DEF StoreInv, OneWriter, NamesUsed
  <2>4. KeptWhole' /\ UnlinkedByFailure'
    BY <1>0, <1>5, <2>1 DEF StoreInv, KeptWhole, UnlinkedByFailure
  <2> QED
    BY <2>2, <2>3, <2>4 DEF StoreInv
<1> QED
  BY <1>4, <1>5

\* One more block after those that are written.
LEMMA OneMoreBlock ==
    ASSUME NEW u \in Seq(Blocks), NEW n \in Nat, n < Len(u)
    PROVE  (<<HEADER>> \o SubSeq(u, 1, n)) \o <<u[n + 1]>> = <<HEADER>> \o SubSeq(u, 1, n + 1)
<1> DEFINE a == SubSeq(u, 1, n)
           b == SubSeq(u, 1, n + 1)
<1>1. Len(u) \in Nat /\ n + 1 \in Nat /\ n + 1 <= Len(u) /\ u[n + 1] \in Pieces /\ u \in Seq(Pieces)
  BY PieceKinds
<1>2. a \in Seq(Pieces) /\ Len(a) = n /\ \A i \in 1..n : a[i] = u[i]
  BY <1>1
<1>3. b \in Seq(Pieces) /\ Len(b) = n + 1 /\ \A i \in 1..(n + 1) : b[i] = u[i]
  BY <1>1
<1> HIDE DEF a, b
<1> DEFINE l == (<<HEADER>> \o a) \o <<u[n + 1]>>
           r == <<HEADER>> \o b
<1>4. /\ l \in Seq(Pieces) /\ Len(l) = n + 2 /\ l[1] = HEADER
      /\ l[n + 2] = u[n + 1] /\ \A i \in 2..(n + 1) : l[i] = a[i - 1]
  <2> DEFINE h == <<HEADER>> \o a
  <2>1. /\ h \in Seq(Pieces) /\ Len(h) = n + 1 /\ h[1] = HEADER
        /\ \A i \in 2..(n + 1) : h[i] = a[i - 1]
    BY <1>2, PieceKinds
  <2> HIDE DEF h
  <2>2. /\ h \o <<u[n + 1]>> \in Seq(Pieces) /\ Len(h \o <<u[n + 1]>>) = n + 2
        /\ (h \o <<u[n + 1]>>)[n + 2] = u[n + 1]
        /\ \A i \in 1..(n + 1) : (h \o <<u[n + 1]>>)[i] = h[i]
    BY <1>1, <2>1
  <2> QED
    BY <2>1, <2>2 DEF h
<1>5. /\ r \in Seq(Pieces) /\ Len(r) = n + 2 /\ r[1] = HEADER
      /\ \A i \in 2..(n + 2) : r[i] = b[i - 1]
  BY <1>3, PieceKinds
<1> HIDE DEF l, r
<1>6. ASSUME NEW i \in 1..Len(l)
      PROVE  l[i] = r[i]
  <2>1. i = 1 \/ i \in 2..(n + 1) \/ i = n + 2
    BY <1>4
  <2>2. CASE i \in 2..(n + 1)
    <3>1. i - 1 \in 1..n /\ i - 1 \in 1..(n + 1) /\ i \in 2..(n + 2)
      BY <2>2
    <3>2. l[i] = u[i - 1] /\ r[i] = u[i - 1]
      BY <1>2, <1>3, <1>4, <1>5, <2>2, <3>1
    <3> QED
      BY <3>2
  <2>3. CASE i = n + 2
    <3>1. n + 2 \in 2..(n + 2) /\ (n + 2) - 1 = n + 1 /\ n + 1 \in 1..(n + 1)
      OBVIOUS
    <3> QED
      BY <1>3, <1>4, <1>5, <2>3, <3>1
  <2> QED
    BY <1>4, <1>5, <2>1, <2>2, <2>3
<1>7. l = r
  BY <1>4, <1>5, <1>6, SeqEqual
<1> QED
  BY <1>7 DEF a, b, l, r

LEMMA Joined ==
    ASSUME NEW f \in Seq(Pieces), NEW g \in Seq(Pieces)
    PROVE  f \o g \in Seq(Pieces) /\ f \o g # NULL
BY FileIsNotNull, ConcatProperties

LEMMA HeaderAndOne ==
    ASSUME NEW b \in Pieces
    PROVE  /\ <<HEADER>> \o <<b>> \in Seq(Pieces) /\ Len(<<HEADER>> \o <<b>>) = 2
           /\ (<<HEADER>> \o <<b>>)[1] = HEADER /\ (<<HEADER>> \o <<b>>)[2] = b
BY PieceKinds

LEMMA FirstOfUpload ==
    ASSUME NEW u \in Seq(Blocks), Len(u) > 0
    PROVE  SubSeq(u, 1, 1) = <<u[1]>>
<1> DEFINE a == SubSeq(u, 1, 1)
           b == <<u[1]>>
<1>1. u[1] \in Blocks /\ Len(u) \in Nat
  OBVIOUS
<1>2. a \in Seq(Blocks) /\ Len(a) = 1 /\ a[1] = u[1]
  BY <1>1
<1>3. b \in Seq(Blocks) /\ Len(b) = 1 /\ b[1] = u[1]
  BY <1>1
<1> HIDE DEF a, b
<1>4. a = b
  BY <1>2, <1>3, SeqEqual
<1> QED
  BY <1>4 DEF a, b

LEMMA WriteKeepsInv ==
    ASSUME StoreInv, NEW w \in Workers, ReadAndWrite(w)
    PROVE  StoreInv'
<1> DEFINE s == op[w]
           f == files[s.path]
           block == <<s.upload[s.pos + 1]>>
           next == [s EXCEPT !.pos = @ + 1, !.has_header = TRUE]
           bad == [next EXCEPT !.failed = "write"]
           header == HeaderFor(s)
<1>1. op[w] # NULL /\ s.stage = "writing" /\ s.pos < Len(s.upload)
      /\ UNCHANGED <<unlinked, used, stored, answer>>
  BY Zenon DEF ReadAndWrite, In
<1>2. \/ files' = [files EXCEPT ![s.path] = @ \o (HeaderFor(s) \o block)]
         /\ op' = [op EXCEPT ![w] = next]
      \/ /\ \E pieces \in {<<>>, <<TORN>>, HeaderFor(s), HeaderFor(s) \o <<TORN>>} :
               files' = [files EXCEPT ![s.path] = @ \o pieces]
         /\ op' = [op EXCEPT ![w] = bad]
  BY Zenon DEF ReadAndWrite
<1>3. /\ s \in Store /\ s.path \in Path /\ s.upload \in Seq(Blocks) /\ s.pos \in Nat
      /\ Len(s.upload) \in 0..MaxBlocks /\ f \in Seq(Pieces) /\ HeaderFirst(f) /\ InProgress(s, f)
  BY <1>1, StoreFields
<1>4. /\ s.upload[s.pos + 1] \in Blocks /\ s.upload[s.pos + 1] \in Pieces
      /\ block \in Seq(Pieces) /\ Len(block) = 1 /\ block[1] = s.upload[s.pos + 1]
         /\ block[1] # HEADER
  BY <1>1, <1>3, PieceKinds
<1>5. /\ next \in Store /\ next.path = s.path /\ next.upload = s.upload /\ next.pos = s.pos + 1
      /\ next.has_header /\ next.stage = s.stage /\ next.error = s.error /\ next.failed = s.failed
  <2>1. s.pos + 1 \in 0..MaxBlocks
    <3> DEFINE l == Len(s.upload)
    <3>1. s.pos \in Nat /\ s.pos < l /\ l \in 0..MaxBlocks
      BY <1>1, <1>3
    <3> HIDE DEF s, l
    <3> QED
      BY <3>1, MaxBlocksAssumption
  <2> QED
    BY <1>3, <2>1 DEF Store
<1>6. /\ bad \in Store /\ bad.path = s.path /\ bad.upload = s.upload /\ bad.pos = s.pos + 1
      /\ bad.has_header /\ bad.failed = "write" /\ bad.stage = "writing" /\ ~bad.error
  <2>1. ~s.error
    BY <1>1, <1>3 DEF InProgress
  <2> QED
    BY <1>1, <1>5, <2>1 DEF Store
<1>7. \/ header = <<>> /\ s.has_header
      \/ header = <<HEADER>> /\ ~s.has_header /\ f = <<>> /\ s.pos = 0
  BY <1>3 DEF HeaderFor, InProgress
<1> HIDE DEF f, block, next, bad, header
<1>8. ASSUME NEW pieces \in Seq(Pieces),
             \A i \in 1..Len(pieces) : pieces[i] = HEADER => i = 1 /\ f = <<>>,
             files' = [files EXCEPT ![s.path] = @ \o pieces],
             NEW t \in Store, t.path = s.path, op' = [op EXCEPT ![w] = t],
             InProgress(t, f \o pieces)
      PROVE  StoreInv'
  <2>1. f \o pieces \in Seq(Pieces) /\ HeaderFirst(f \o pieces)
    BY <1>3, <1>8, HeaderStaysFirst
  <2>2. files' = [files EXCEPT ![t.path] = f \o pieces]
    BY <1>8, Zenon DEF f
  <2>3. t.path = op[w].path /\ op' = [op EXCEPT ![w] = t]
    BY <1>8
  <2> HIDE DEF s
  <2> DEFINE g == f \o pieces
  <2>4. g \in Seq(Pieces) /\ HeaderFirst(g) /\ InProgress(t, g)
        /\ files' = [files EXCEPT ![t.path] = g]
    BY <1>8, <2>1, <2>2
  <2> HIDE DEF g
  <2> QED
    BY <1>1, <2>3, <2>4, GoesOn
<1>9. CASE files' = [files EXCEPT ![s.path] = @ \o (header \o block)]
           /\ op' = [op EXCEPT ![w] = next]
  <2> DEFINE pieces == header \o block
  <2>1. /\ pieces \in Seq(Pieces)
        /\ \A i \in 1..Len(pieces) : pieces[i] = HEADER => i = 1 /\ f = <<>>
    <3>1. CASE header = <<>>
      <4>1. pieces = block
        BY <1>4, <3>1, ConcatEmptySeq
      <4> QED
        BY <1>4, <4>1
    <3>2. CASE header = <<HEADER>> /\ f = <<>>
      <4>1. pieces \in Seq(Pieces) /\ Len(pieces) = 2 /\ pieces[2] = block[1]
        BY <1>4, <3>2, HeaderAndOne DEF block
      <4> QED
        BY <1>4, <3>2, <4>1
    <3> QED
      BY <1>7, <3>1, <3>2
  <2>2. f \o pieces \in Seq(Pieces) /\ f \o pieces # NULL
    <3> HIDE DEF pieces
    <3> QED
      BY <1>3, <2>1, Joined
  <2>3. ASSUME s.failed = "none"
        PROVE  f \o pieces = <<HEADER>> \o SubSeq(s.upload, 1, s.pos + 1)
    <3>1. CASE header = <<>> /\ s.has_header
      <4>1. f = <<HEADER>> \o SubSeq(s.upload, 1, s.pos)
        BY <1>3, <2>3, <3>1 DEF InProgress
      <4>2. pieces = block
        BY <1>4, <3>1, ConcatEmptySeq
      <4> QED
        BY <1>1, <1>3, <4>1, <4>2, OneMoreBlock DEF block
    <3>2. CASE header = <<HEADER>> /\ f = <<>> /\ s.pos = 0
      <4>1. SubSeq(s.upload, 1, 1) = <<s.upload[1]>>
        BY <1>1, <1>3, <3>2, FirstOfUpload
      <4>2. f \o pieces = pieces
        <5> HIDE DEF pieces
        <5> QED
          BY <2>1, <3>2, ConcatEmptySeq
      <4>3. s.pos + 1 = 1
        BY <3>2
      <4> QED
        BY <3>2, <4>1, <4>2, <4>3 DEF block
    <3> QED
      BY <1>7, <3>1, <3>2
  <2> DEFINE g == f \o pieces
  <2>4. InProgress(next, g)
    <3>1. next.pos <= Len(next.upload) /\ next.has_header /\ next.stage = "writing"
      BY <1>1, <1>3, <1>5
    <3>2. ~s.error
      BY <1>1, <1>3 DEF InProgress
    <3>3. g # NULL /\ (s.failed = "none" => g = <<HEADER>> \o SubSeq(s.upload, 1, s.pos + 1))
      BY <2>2, <2>3
    <3> HIDE DEF g
    <3> QED
      BY <1>5, <3>1, <3>2, <3>3 DEF InProgress
  <2>5. files' = [files EXCEPT ![s.path] = @ \o pieces]
    BY <1>9
  <2> HIDE DEF pieces
  <2> QED
    BY <1>5, <1>8, <1>9, <2>1, <2>4, <2>5
<1>10. ASSUME NEW pieces \in {<<>>, <<TORN>>, header, header \o <<TORN>>},
              files' = [files EXCEPT ![s.path] = @ \o pieces], op' = [op EXCEPT ![w] = bad]
       PROVE  StoreInv'
  <2>1. \/ pieces = <<>> \/ pieces = <<TORN>>
        \/ (pieces = <<HEADER>> \/ pieces = <<HEADER>> \o <<TORN>>) /\ f = <<>>
    <3>1. <<>> \o <<TORN>> = <<TORN>>
      BY PieceKinds, ConcatEmptySeq
    <3> QED
      BY <1>7, <1>10, <3>1
  <2>2. /\ pieces \in Seq(Pieces)
        /\ \A i \in 1..Len(pieces) : pieces[i] = HEADER => i = 1 /\ f = <<>>
    <3>1. CASE pieces = <<>>
      BY <3>1
    <3>2. CASE pieces = <<TORN>>
      BY <3>2, PieceKinds
    <3>3. CASE pieces = <<HEADER>> /\ f = <<>>
      BY <3>3, PieceKinds
    <3>4. CASE pieces = <<HEADER>> \o <<TORN>> /\ f = <<>>
      <4>1. pieces \in Seq(Pieces) /\ Len(pieces) = 2 /\ pieces[2] = TORN
        BY <3>4, PieceKinds, HeaderAndOne
      <4> QED
        BY <3>4, <4>1, PieceKinds
    <3> QED
      BY <2>1, <3>1, <3>2, <3>3, <3>4
  <2> DEFINE g == f \o pieces
  <2>3. g # NULL
    BY <1>3, <2>2, Joined
  <2>4. bad.pos <= Len(bad.upload)
    BY <1>1, <1>3, <1>6
  <2> HIDE DEF g
  <2>5. InProgress(bad, g)
    BY <1>6, <2>3, <2>4 DEF InProgress
  <2> QED
    BY <1>6, <1>8, <1>10, <2>2, <2>5 DEF g
<1>11. CASE /\ \E pieces \in {<<>>, <<TORN>>, header, header \o <<TORN>>} :
                  files' = [files EXCEPT ![s.path] = @ \o pieces]
            /\ op' = [op EXCEPT ![w] = bad]
  BY <1>10, <1>11
<1> QED
  BY <1>2, <1>9, <1>11, Zenon DEF header

LEMMA SameFile ==
    ASSUME StoreInv, NEW w \in Workers, op[w] # NULL, files' = files
    PROVE  files' = [files EXCEPT ![op[w].path] = files[op[w].path]]
BY DEF StoreInv, TypeOK

LEMMA ReadErrorKeepsInv ==
    ASSUME StoreInv, NEW w \in Workers, ReadError(w)
    PROVE  StoreInv'
<1> DEFINE s == op[w]
           f == files[s.path]
           t == [s EXCEPT !.stage = "closing", !.error = TRUE, !.failed = "read"]
<1>1. /\ s # NULL /\ op' = [op EXCEPT ![w] = t] /\ files' = files
      /\ unlinked' = unlinked /\ used' = used /\ stored' = stored /\ answer' = answer
  BY DEF ReadError, In
<1>2. s \in Store /\ f \in Seq(Pieces) /\ HeaderFirst(f) /\ InProgress(s, f)
  BY <1>1, StoreFields
<1>3. t \in Store /\ t.path = s.path
  BY <1>2 DEF Store
<1>4. InProgress(t, f)
  BY <1>2 DEF InProgress, Store
<1>5. files' = [files EXCEPT ![t.path] = f]
  BY <1>1, <1>3, SameFile
<1> HIDE DEF t, f
<1> QED
  BY <1>1, <1>2, <1>3, <1>4, <1>5, GoesOn

LEMMA ReadEndKeepsInv ==
    ASSUME StoreInv, NEW w \in Workers, ReadEnd(w)
    PROVE  StoreInv'
<1> DEFINE s == op[w]
           f == files[s.path]
           t == [s EXCEPT !.stage = "closing"]
<1>1. /\ s # NULL /\ AtEnd(s) /\ op' = [op EXCEPT ![w] = t] /\ files' = files
      /\ unlinked' = unlinked /\ used' = used /\ stored' = stored /\ answer' = answer
  BY DEF ReadEnd, In
<1>2. s \in Store /\ f \in Seq(Pieces) /\ HeaderFirst(f) /\ InProgress(s, f)
  BY <1>1, StoreFields
<1>3. t \in Store /\ t.path = s.path
  BY <1>2 DEF Store
<1>4. InProgress(t, f)
  BY <1>1, <1>2 DEF InProgress, Store, AtEnd
<1>5. files' = [files EXCEPT ![t.path] = f]
  BY <1>1, <1>3, SameFile
<1> HIDE DEF t, f
<1> QED
  BY <1>1, <1>2, <1>3, <1>4, <1>5, GoesOn

\* An upload that has come to its closing without a failure is in its file.
LEMMA ClosedWhole ==
    ASSUME NEW s, NEW f, s.upload \in Upload, s.pos \in Nat, InProgress(s, f),
           s.stage = "closing", s.failed = "none"
    PROVE  BodyOf(f) = s.upload
<1>1. s.upload \in Seq(Blocks)
  BY UploadIsSeq
<1>2. s.pos = Len(s.upload)
  BY DEF InProgress
<1>3. CASE s.has_header
  <2>1. SubSeq(s.upload, 1, Len(s.upload)) = s.upload
    BY <1>1
  <2>2. f = <<HEADER>> \o s.upload
    BY <1>2, <1>3, <2>1 DEF InProgress
  <2> QED
    BY <2>2, BodyOfUpload
<1>4. CASE ~s.has_header
  <2>1. s.upload = <<>> /\ f = <<>>
    BY <1>1, <1>2, <1>4 DEF InProgress
  <2> QED
    BY <2>1, BodyOfUpload
<1> QED
  BY <1>3, <1>4

LEMMA CloseKeepsInv ==
    ASSUME StoreInv, NEW w \in Workers, Close(w)
    PROVE  StoreInv'
<1> DEFINE s == op[w]
           f == files[s.path]
           done(failed) ==
             IF s.error
             THEN op' = [op EXCEPT ![w] = [@ EXCEPT !.stage = "unlinking", !.failed = failed]]
                             /\ UNCHANGED stored
             ELSE op' = [op EXCEPT ![w] = NULL] /\ Reply(s, 200, failed)
<1>1. s # NULL /\ s.stage = "closing" /\ used' = used /\ answer' = answer
      /\ unlinked' = unlinked
  BY Zenon DEF Close, In
<1>2. \/ done(s.failed) /\ files' = files
      \/ /\ \E g \in Truncated(f) : files' = [files EXCEPT ![s.path] = g]
         /\ done(IF s.failed = "none" THEN "write" ELSE s.failed)
  BY Zenon DEF Close
<1>3. /\ s \in Store /\ s.upload \in Upload /\ s.pos \in Nat /\ f \in Seq(Pieces)
      /\ HeaderFirst(f) /\ InProgress(s, f) /\ s.failed \in {"none", "read", "write"}
  BY <1>1, StoreFields DEF Store
<1>4. ASSUME NEW g \in Seq(Pieces), HeaderFirst(g),
             NEW failed \in {"none", "read", "write"}, done(failed),
             files' = [files EXCEPT ![s.path] = g],
             failed = "none" => s.failed = "none" /\ g = f,
             s.failed = "read" => failed = "read",
             ~s.has_header => g = f
      PROVE  StoreInv'
  <2>1. CASE s.error
    <3> DEFINE t == [s EXCEPT !.stage = "unlinking", !.failed = failed]
    <3>1. op' = [op EXCEPT ![w] = t] /\ stored' = stored
      BY <1>4, <2>1
    <3>2. t \in Store /\ t.path = s.path
      BY <1>3 DEF Store
    <3>3. failed = "read"
      BY <1>3, <1>4, <2>1 DEF InProgress
    <3>4. /\ t.failed = failed /\ t.error /\ t.stage = "unlinking"
          /\ t.has_header = s.has_header /\ t.pos = s.pos
          /\ t.upload = s.upload
      BY <1>3, <2>1 DEF Store
    <3> HIDE DEF t
    <3>5. InProgress(t, g)
      BY <1>3, <1>4, <2>1, <3>3, <3>4, FileIsNotNull DEF InProgress
    <3>6. files' = [files EXCEPT ![t.path] = g]
      BY <1>4, <3>2
    <3> QED
      BY <1>1, <1>4, <3>1, <3>2, <3>5, <3>6, GoesOn
  <2>2. CASE ~s.error
    <3>1. op' = [op EXCEPT ![w] = NULL] /\ Reply(s, 200, failed)
      BY <1>4, <2>2
    <3>2. failed = "none" => BodyOf(g) = s.upload
      BY <1>1, <1>3, <1>4, ClosedWhole
    <3>3. files' = [files EXCEPT ![s.path] = g] /\ HeaderFirst(g)
      BY <1>4
    <3>4. PICK r \in Stored : /\ stored' = stored \cup {r} /\ r.path = s.path
                             /\ r.upload = s.upload /\ r.code = 200 /\ r.failed = failed
      BY <1>1, <3>1, ReplyAdds
    <3> DEFINE answers == {r}
    <3>5. AnsweredWith(answers, s, g) /\ stored' = stored \cup answers
      BY <3>2, <3>4 DEF AnsweredWith
    <3>6. op' = [op EXCEPT ![w] = NULL] /\ unlinked' \subseteq Path
      BY <1>1, <3>1 DEF StoreInv, TypeOK
    <3> HIDE DEF answers
    <3> QED
      BY <1>1, <1>4, <3>3, <3>5, <3>6, ComesToAnEnd
  <2> QED
    BY <2>1, <2>2
<1>5. CASE done(s.failed) /\ files' = files
  <2>1. files' = [files EXCEPT ![s.path] = f]
    BY <1>1, <1>5, SameFile
  <2> HIDE DEF done, f
  <2> QED
    BY <1>3, <1>4, <1>5, <2>1
<1>6. ASSUME NEW g \in Truncated(f), files' = [files EXCEPT ![s.path] = g],
             done(IF s.failed = "none" THEN "write" ELSE s.failed)
      PROVE  StoreInv'
  <2>1. g \in Seq(Pieces) /\ HeaderFirst(g)
    BY <1>3, TruncatedIsHeaded
  <2>2. f # <<>>
    BY DEF Truncated
  <2>3. s.has_header
    BY <1>3, <2>2 DEF InProgress
  <2>4. PICK failed \in {"read", "write"} : failed = IF s.failed = "none" THEN "write" ELSE s.failed
    BY <1>3
  <2>6. s.failed = "read" => failed = "read"
    BY <2>4
  <2>5. done(failed)
    BY <1>6, <2>4
  <2> HIDE DEF done
  <2> QED
    BY <1>4, <1>6, <2>1, <2>3, <2>4, <2>5, <2>6
<1> QED
  BY <1>2, <1>5, <1>6

LEMMA UnlinkKeepsInv ==
    ASSUME StoreInv, NEW w \in Workers, Unlink(w)
    PROVE  StoreInv'
<1> DEFINE s == op[w]
           f == files[s.path]
<1>1. /\ s # NULL /\ s.stage = "unlinking" /\ op' = [op EXCEPT ![w] = NULL]
      /\ files' = files /\ used' = used /\ answer' = answer
  BY DEF Unlink, In
<1>2. PICK code \in {200, 500} : Reply(s, code, s.failed)
  BY DEF Unlink
<1>3. /\ s \in Store /\ f \in Seq(Pieces) /\ HeaderFirst(f) /\ InProgress(s, f)
      /\ s.failed \in {"none", "read", "write"}
  BY <1>1, StoreFields DEF Store
<1>4. s.failed = "read"
  BY <1>1, <1>3 DEF InProgress
<1>5. files' = [files EXCEPT ![s.path] = f]
  BY <1>1, SameFile
<1>6. PICK r \in Stored : /\ stored' = stored \cup {r} /\ r.path = s.path /\ r.failed = s.failed
  BY <1>1, <1>2, <1>3, ReplyAdds
<1> DEFINE answers == {r}
<1>7. /\ AnsweredWith(answers, s, f) /\ stored' = stored \cup answers
      /\ \E x \in answers : x.failed = "read"
  BY <1>4, <1>6 DEF AnsweredWith
<1>8. unlinked' \subseteq Path
  BY DEF Unlink, Reached, StoreInv, TypeOK
<1> HIDE DEF f, answers
<1> QED
  BY <1>1, <1>3, <1>5, <1>7, <1>8, ComesToAnEnd, ZenonT(30)

\* A worker that dies leaves its file, or a part of it, to nobody.
LEMMA CrashKeepsInv ==
    ASSUME StoreInv, NEW w \in Workers, Crash(w)
    PROVE  StoreInv'
<1> DEFINE s == op[w]
           f == files[s.path]
<1>1. s # NULL /\ op' = [op EXCEPT ![w] = NULL] /\ used' = used /\ stored' = stored
      /\ answer' = answer /\ unlinked' = unlinked
  BY DEF Crash
<1>2. PICK g \in {f} \cup Truncated(f) : files' = [files EXCEPT ![s.path] = g]
  BY DEF Crash
<1>3. f \in Seq(Pieces) /\ HeaderFirst(f)
  BY <1>1, StoreFields
<1>4. g \in Seq(Pieces) /\ HeaderFirst(g)
  BY <1>2, <1>3, TruncatedIsHeaded
<1> DEFINE none == {}
<1>5. /\ stored' = stored \cup none /\ AnsweredWith(none, s, g)
      /\ unlinked' \subseteq Path
  BY <1>1 DEF AnsweredWith, StoreInv, TypeOK
<1> HIDE DEF none
<1> QED
  BY <1>1, <1>2, <1>4, <1>5, ComesToAnEnd

LEMMA FetchKeepsInv ==
    ASSUME StoreInv, NEW w \in Workers, NEW o \in ObjectIds, NEW id \in Uuids,
           Fetch(w, o, id) \/ FetchFatal(w, o, id)
    PROVE  StoreInv'
<1> DEFINE p == <<o, id>>
           f == At(p)
<1>1. UNCHANGED <<files, unlinked, op, used, stored>>
  BY DEF Fetch, FetchFatal
<1>2. answer' = NULL \/ answer' \in Answer
  <2>1. CASE Fetch(w, o, id)
    <3>1. answer' = [path |-> p, code |-> IF f # NULL THEN 200 ELSE 404,
                     body |-> IF f # NULL THEN BodyOf(f) ELSE <<>>]
      BY <2>1 DEF Fetch, Exists
    <3>2. p \in Path
      BY DEF Path
    <3>3. f # NULL => f \in Seq(Pieces) /\ HeaderFirst(f)
      BY <3>2 DEF StoreInv, TypeOK, Headed, At
    <3>4. f # NULL => BodyOf(f) \in Seq(Blocks \cup {TORN})
      BY <3>3, BodyHasNoHeader
    <3>5. <<>> \in Seq(Blocks \cup {TORN})
      BY EmptySeq
    <3> HIDE DEF p, f
    <3> QED
      BY <3>1, <3>2, <3>4, <3>5 DEF Answer
  <2>2. CASE FetchFatal(w, o, id)
    BY <2>2 DEF FetchFatal
  <2> QED
    BY <2>1, <2>2
<1> QED
  BY <1>1, <1>2 DEF StoreInv, TypeOK, Headed, Underway, OneWriter, NamesUsed, KeptWhole,
                   UnlinkedByFailure

-----------------------------------------------------------------------------
(* The theorems.                                                           *)

LEMMA InitInv == Init => StoreInv
<1> SUFFICES ASSUME Init PROVE StoreInv
  OBVIOUS
<1>1. TypeOK
  BY DEF Init, TypeOK
<1>2. Headed /\ Underway
  BY DEF Init, Headed, HeaderFirst, Underway
<1>3. OneWriter /\ NamesUsed /\ KeptWhole /\ UnlinkedByFailure
  BY DEF Init, OneWriter, NamesUsed, KeptWhole, UnlinkedByFailure
<1> QED
  BY <1>1, <1>2, <1>3 DEF StoreInv

LEMMA NextInv == StoreInv /\ [Next]_vars => StoreInv'
<1> SUFFICES ASSUME StoreInv, [Next]_vars PROVE StoreInv'
  OBVIOUS
<1>1. ASSUME NEW w \in Workers, NEW o \in ObjectIds, NEW u \in Upload, Open(w, o, u) PROVE StoreInv'
  BY <1>1, OpenKeepsInv
<1>2. ASSUME NEW w \in Workers,
             ReadAndWrite(w) \/ ReadError(w) \/ ReadEnd(w) \/ Close(w) \/ Unlink(w) \/ Crash(w)
      PROVE  StoreInv'
  BY <1>2, WriteKeepsInv, ReadErrorKeepsInv, ReadEndKeepsInv, CloseKeepsInv, UnlinkKeepsInv,
     CrashKeepsInv
<1>3. ASSUME NEW w \in Workers, NEW o \in ObjectIds, NEW id \in Uuids,
             Fetch(w, o, id) \/ FetchFatal(w, o, id)
      PROVE  StoreInv'
  BY <1>3, FetchKeepsInv
<1>4. CASE UNCHANGED vars
  BY <1>4 DEF vars, StoreInv, TypeOK, Headed, Underway, OneWriter, NamesUsed, KeptWhole,
                   UnlinkedByFailure
<1> QED
  BY <1>1, <1>2, <1>3, <1>4 DEF Next

LEMMA SpecInv == Spec => []StoreInv
BY InitInv, NextInv, PTL DEF Spec

\* Whatever calls fail, positions stay within the upload and no client is
\* ever handed the header of a file.
THEOREM StoreTypeCorrect == Spec => []TypeOK
<1>1. StoreInv => TypeOK
  BY DEF StoreInv
<1> QED
  BY <1>1, SpecInv, PTL

\* An upload of which no call failed is in its file, whole, from its answer on:
\* no other store, failed or not, and no death of a worker reaches the file, and
\* only an upload that could not be read may have taken its name away.
THEOREM UploadsStoredWhole == Spec => []StoredWhole
<1>1. StoreInv => StoredWhole
  BY DEF StoreInv, StoredWhole, KeptWhole, UnlinkedByFailure, Whole, At
<1> QED
  BY <1>1, SpecInv, PTL

\* Whoever fetches such an upload gets what was sent, whenever that is, or is
\* told that it is gone once its name has been unlinked.
THEOREM UploadsFetchedWhole == Spec => FetchedWhole
<1>1. ASSUME StoreInv, Next, NEW s \in stored, s.failed = "none", answer' # answer,
             answer' # NULL, answer'.path = s.path
      PROVE  \/ answer'.code = 200 /\ answer'.body = s.upload
             \/ answer'.code = 404 /\ s.path \in unlinked
  <2>1. PICK w \in Workers, o \in ObjectIds, id \in Uuids : Fetch(w, o, id)
    <3>1. ASSUME NEW w \in Workers
          PROVE  ~(ReadAndWrite(w) \/ ReadError(w) \/ ReadEnd(w) \/ Close(w))
      BY <1>1, Zenon DEF ReadAndWrite, ReadError, ReadEnd, Close
    <3>2. ASSUME NEW w \in Workers PROVE ~(Unlink(w) \/ Crash(w))
      BY <1>1, Zenon DEF Unlink, Crash
    <3>3. ASSUME NEW w \in Workers, NEW o \in ObjectIds, NEW u \in Upload PROVE ~Open(w, o, u)
      BY <1>1, Zenon DEF Open
    <3>4. ASSUME NEW w \in Workers, NEW o \in ObjectIds, NEW id \in Uuids
          PROVE  ~FetchFatal(w, o, id)
      BY <1>1, Zenon DEF FetchFatal
    <3> QED
      BY <1>1, <3>1, <3>2, <3>3, <3>4 DEF Next
  <2> DEFINE f == At(<<o, id>>)
  <2>2. answer' = [path |-> <<o, id>>, code |-> IF Exists(f) THEN 200 ELSE 404,
                   body |-> IF Exists(f) THEN BodyOf(f) ELSE <<>>]
    BY <2>1 DEF Fetch
  <2>3. IF s.path \in unlinked THEN f = NULL ELSE f # NULL /\ BodyOf(f) = s.upload
    BY <1>1, <2>2 DEF StoreInv, KeptWhole, At
  <2> HIDE DEF f
  <2> QED
    BY <2>2, <2>3 DEF Exists
<1>2. StoreInv /\ [Next]_vars =>
        [\A s \in stored :
            s.failed = "none" /\ answer' # answer /\ answer' # NULL /\ answer'.path = s.path =>
              \/ answer'.code = 200 /\ answer'.body = s.upload
              \/ answer'.code = 404 /\ s.path \in unlinked]_vars
  BY <1>1, Zenon
<1> QED
  BY <1>2, SpecInv, PTL DEF Spec, FetchedWhole

-----------------------------------------------------------------------------
(* The store implements BlobStore.                                         *)

Clean(p) == \E s \in stored : s.path = p /\ s.failed = "none"

LEMMA BlobOf ==
    ASSUME StoreInv, NEW p \in Path
    PROVE  /\ Clean(p) /\ p \notin unlinked =>
                /\ Blob(p) = BodyOf(files[p]) /\ Blob(p) # NULL /\ At(p) = files[p] /\ At(p) # NULL
           /\ Clean(p) => \A w \in Workers : op[w] # NULL => op[w].path # p
           /\ ~Clean(p) \/ p \in unlinked => Blob(p) = NULL
<1>1. ~Clean(p) \/ p \in unlinked => Blob(p) = NULL
  BY DEF Clean, Blob
<1>2. ASSUME Clean(p), p \notin unlinked
      PROVE  Blob(p) = BodyOf(files[p]) /\ Blob(p) # NULL /\ At(p) = files[p] /\ At(p) # NULL
  <2>1. PICK s \in stored : s.path = p /\ s.failed = "none"
    BY <1>2 DEF Clean
  <2>2. Blob(p) = BodyOf(files[p]) /\ At(p) = files[p]
    BY <1>2 DEF Clean, Blob, At
  <2>3. files[p] # NULL /\ BodyOf(files[p]) = s.upload
    BY <2>1 DEF StoreInv, KeptWhole
  <2>4. s.upload \in Seq(Pieces)
    <3>1. s.upload \in Seq(Blocks)
      BY <2>1, UploadIsSeq DEF StoreInv, TypeOK, Stored
    <3>2. \A i \in 1..Len(s.upload) : s.upload[i] \in Pieces
      BY <3>1, PieceKinds
    <3> QED
      BY <3>1, <3>2, SeqOfOthers
  <2> QED
    BY <2>2, <2>3, <2>4, FileIsNotNull
<1>3. Clean(p) => \A w \in Workers : op[w] # NULL => op[w].path # p
  BY DEF Clean, StoreInv, OneWriter
<1> QED
  BY <1>1, <1>2, <1>3

\* A worker that only goes on writing shows its readers nothing.
LEMMA WritingIsUnseen ==
    ASSUME StoreInv, NEW w \in Workers, op[w] # NULL, NEW t \in Store,
           t.path = op[w].path, t.upload = op[w].upload, op' = [op EXCEPT ![w] = t],
           NEW g, files' = [files EXCEPT ![op[w].path] = g],
           unlinked' = unlinked, stored' = stored, answer' = answer
    PROVE  UNCHANGED Blobs!vars
<1>1. \A p \in Path : Blob(p)' = Blob(p)
  <2> SUFFICES ASSUME NEW p \in Path PROVE Blob(p)' = Blob(p)
    OBVIOUS
  <2>1. CASE Clean(p)
    <3>1. files'[p] = files[p]
      BY <2>1, BlobOf
    <3> QED
      BY <3>1 DEF Blob
  <2>2. CASE ~Clean(p)
    BY <2>2 DEF Blob, Clean
  <2> QED
    BY <2>1, <2>2
<1>2. \A v \in Workers : Putting(v)' = Putting(v)
  <2>1. t # NULL
    BY NullAssumption
  <2>2. op'[w] = t /\ \A v \in Workers : v # w => op'[v] = op[v]
    BY DEF StoreInv, TypeOK
  <2> QED
    BY <2>1, <2>2 DEF Putting
<1> QED
  BY <1>1, <1>2 DEF Blobs!vars

\* Who answers that its upload failed may have taken a name away.
NamesAfter(answers) ==
    \/ unlinked' = unlinked
    \/ /\ \E n \in Path : unlinked' = unlinked \cup {n}
       /\ \A r \in answers : r.failed # "none"

\* One that comes to its end keeps its content, if it says so and still has its
\* name, or loses it, and then may take another with it.
LEMMA EndIsKeepOrLose ==
    ASSUME StoreInv, StoreInv', NEW w \in Workers, op[w] # NULL, op' = [op EXCEPT ![w] = NULL],
           NEW g, files' = [files EXCEPT ![op[w].path] = g], answer' = answer,
           NEW answers, stored' = stored \cup answers,
           \A r \in answers : r.path = op[w].path /\ r.upload = op[w].upload,
           NamesAfter(answers)
    PROVE  Blobs!Keep(w) \/ Blobs!Lose(w)
<1> PICK q : q = op[w].path
  OBVIOUS
<1>0. \/ unlinked' = unlinked
      \/ /\ \E n \in Path : unlinked' = unlinked \cup {n}
         /\ \A r \in answers : r.failed # "none"
  BY DEF NamesAfter
<1> DEFINE blobs == [p \in Path |-> Blob(p)]
           puts == [v \in Workers |-> Putting(v)]
<1>1. q \in Path /\ op[w].upload \in Upload
  BY StoreFields
<1>2. puts[w] = [name |-> q, content |-> op[w].upload] /\ puts[w] # NULL
  BY <1>1, PutAssumption DEF Putting, Blobs!Put
<1>3. puts' = [puts EXCEPT ![w] = NULL]
  <2>1. op'[w] = NULL /\ \A v \in Workers : v # w => op'[v] = op[v]
    BY DEF StoreInv, TypeOK
  <2>2. Putting(w)' = NULL /\ \A v \in Workers : v # w => Putting(v)' = Putting(v)
    BY <2>1 DEF Putting
  <2> QED
    BY <2>2
<1>4. ASSUME NEW p \in Path, p # q
      PROVE  Blob(p)' = IF p \in unlinked' THEN NULL ELSE Blob(p)
  <2>1. files'[p] = files[p]
    BY <1>4 DEF StoreInv, TypeOK
  <2>2. (\E s \in stored : s.path = p /\ s.failed = "none")'
          <=> \E s \in stored : s.path = p /\ s.failed = "none"
    BY <1>4
  <2>3. p \notin unlinked' => p \notin unlinked
    BY <1>0
  <2> QED
    BY <2>1, <2>2, <2>3 DEF Blob
<1>5. Blobs!Ends(w)
  BY <1>2, <1>3 DEF Blobs!Ends
<1>6. \A p \in Path : p \in unlinked => Blob(p) = NULL
  BY DEF Blob
<1>7. ~Clean(q) /\ Blob(q) = NULL
  <2>1. ~Clean(q)
    BY <1>1, BlobOf
  <2> QED
    BY <2>1 DEF Blob, Clean
<1>8. CASE (\E r \in answers : r.failed = "none") /\ q \notin unlinked
  <2>1. PICK r \in answers : r.failed = "none"
    BY <1>8
  <2>2. r \in stored' /\ r.path = q /\ r.upload = op[w].upload /\ unlinked' = unlinked
    BY <1>0, <2>1
  <2>3. BodyOf(files'[q]) = op[w].upload
    BY <2>1, <2>2 DEF StoreInv, KeptWhole
  <2>4. Blob(q)' = op[w].upload
    BY <1>8, <2>1, <2>2, <2>3 DEF Blob
  <2>5. \A p \in Path : p # q => Blob(p)' = Blob(p)
    BY <1>4, <1>6, <2>2
  <2>6. blobs' = [blobs EXCEPT ![puts[w].name] = puts[w].content]
    <3>1. puts[w].name = q /\ puts[w].content = op[w].upload
      BY <1>2
    <3> HIDE DEF puts
    <3>2. blobs' = [blobs EXCEPT ![q] = op[w].upload]
      BY <1>1, <2>4, <2>5
    <3> QED
      BY <3>1, <3>2
  <2> QED
    BY <1>5, <2>6 DEF Blobs!Keep
<1>9. CASE ~((\E r \in answers : r.failed = "none") /\ q \notin unlinked)
  <2>1. Blob(q)' = NULL
    <3>1. CASE q \in unlinked
      BY <1>0, <3>1 DEF Blob
    <3>2. CASE \A r \in answers : r.failed # "none"
      <4>1. \A r \in stored' : r.path # q \/ r.failed # "none"
        BY <1>7, <3>2 DEF Clean
      <4> QED
        BY <4>1 DEF Blob
    <3> QED
      BY <1>9, <3>1, <3>2
  <2>2. \A p \in Path : Blob(p)' = IF p \in unlinked' THEN NULL ELSE Blob(p)
    BY <1>4, <1>7, <2>1
  <2>3. CASE unlinked' = unlinked
    <3>1. \A p \in Path : Blob(p)' = Blob(p)
      BY <1>6, <2>2, <2>3
    <3>2. blobs' = blobs
      BY <3>1
    <3> QED
      BY <1>5, <3>2 DEF Blobs!Lose
  <2>4. ASSUME NEW n \in Path, unlinked' = unlinked \cup {n}
        PROVE  Blobs!Lose(w)
    <3>1. \A p \in Path : Blob(p)' = IF p = n THEN NULL ELSE Blob(p)
      BY <1>6, <2>2, <2>4
    <3>2. blobs' = [blobs EXCEPT ![n] = NULL]
      BY <3>1
    <3> QED
      BY <1>5, <3>2 DEF Blobs!Lose
  <2> QED
    BY <1>0, <2>3, <2>4
<1> QED
  BY <1>8, <1>9

LEMMA OpenIsBegin ==
    ASSUME StoreInv, NEW w \in Workers, NEW o \in ObjectIds, NEW u \in Upload, Open(w, o, u)
    PROVE  Blobs!Begin(w) \/ UNCHANGED Blobs!vars
<1>1. PICK id \in Uuids \ used :
        \/ /\ files' = [files EXCEPT ![<<o, id>>] = <<>>]
           /\ op' = [op EXCEPT ![w] = [path |-> <<o, id>>, upload |-> u, pos |-> 0,
                       has_header |-> FALSE, stage |-> "writing",
                        error |-> FALSE, failed |-> "none"]]
           /\ stored' = stored
        \/ /\ stored' = stored \cup {[path |-> <<o, id>>, upload |-> u, code |-> 500,
                                       failed |-> "open"]}
           /\ files' = files /\ op' = op
  BY DEF Open, Reply, Fresh
<1> DEFINE n == <<o, id>>
           s == [path |-> n, upload |-> u, pos |-> 0, has_header |-> FALSE,
                 stage |-> "writing", error |-> FALSE, failed |-> "none"]
           r == [path |-> n, upload |-> u, code |-> 500, failed |-> "open"]
           blobs == [p \in Path |-> Blob(p)]
           puts == [v \in Workers |-> Putting(v)]
<1>2. op[w] = NULL /\ answer' = answer /\ unlinked' = unlinked
  BY DEF Open
<1>3. n \in Path /\ n[2] = id
  BY DEF Path
<1> HIDE DEF n
<1>4. ~Clean(n) /\ \A v \in Workers : op[v] # NULL => op[v].path # n
  BY <1>3 DEF StoreInv, NamesUsed, Clean
<1>5. CASE files' = [files EXCEPT ![n] = <<>>] /\ op' = [op EXCEPT ![w] = s] /\ stored' = stored
  <2>1. s.path = n /\ s.upload = u /\ s # NULL
    <3>1. s \in Store
      BY <1>3, MaxBlocksAssumption DEF Store
    <3> QED
      BY <3>1, NullAssumption
  <2> HIDE DEF s
  <2>2. blobs' = blobs
    <3>1. \A p \in Path : p # n => files'[p] = files[p]
      BY <1>5 DEF StoreInv, TypeOK
    <3>2. \A p \in Path : Blob(p)' = Blob(p)
      BY <1>2, <1>4, <1>5, <3>1 DEF Blob, Clean
    <3> QED
      BY <3>2
  <2>3. op'[w] = s /\ \A v \in Workers : v # w => op'[v] = op[v]
    BY <1>5 DEF StoreInv, TypeOK
  <2>4. /\ Putting(w)' = [name |-> n, content |-> u]
        /\ \A v \in Workers : v # w => Putting(v)' = Putting(v)
    BY <2>1, <2>3 DEF Putting
  <2>5. /\ puts'[w] = [name |-> n, content |-> u] /\ puts'[w] \in Blobs!Put
        /\ puts' = [puts EXCEPT ![w] = puts'[w]]
    <3> DEFINE put == [name |-> n, content |-> u]
    <3>1. puts' = [v \in Workers |-> Putting(v)']
      OBVIOUS
    <3>2. put \in Blobs!Put
      BY <1>3 DEF Blobs!Put
    <3> HIDE DEF put
    <3>3. Putting(w)' = put
      BY <2>4 DEF put
    <3>4. puts'[w] = put /\ puts' = [puts EXCEPT ![w] = put]
      BY <2>4, <3>1, <3>3
    <3> QED
      BY <3>2, <3>4 DEF put
  <2>6. puts[w] = NULL /\ blobs[n] = NULL
    BY <1>2, <1>3, <1>4, BlobOf DEF Putting
  <2>7. \A v \in Workers : puts[v] = NULL \/ puts[v].name # n
    BY <1>4 DEF Putting
  <2>8. Blobs!Free(puts'[w].name)
    <3>1. puts'[w].name = n
      BY <2>5
    <3> HIDE DEF puts, blobs
    <3>2. Blobs!Free(n)
      BY <2>6, <2>7 DEF Blobs!Free, puts, blobs
    <3> QED
      BY <3>1, <3>2
  <2> QED
    BY <1>2, <2>2, <2>5, <2>6, <2>8 DEF Blobs!Begin
<1>6. CASE stored' = stored \cup {r} /\ files' = files /\ op' = op
  <2>1. r.failed # "none"
    OBVIOUS
  <2> HIDE DEF r
  <2>2. \A p \in Path : Blob(p)' = Blob(p)
    BY <1>2, <1>6, <2>1 DEF Blob
  <2>3. \A v \in Workers : Putting(v)' = Putting(v)
    BY <1>6 DEF Putting
  <2> QED
    BY <1>2, <2>2, <2>3 DEF Blobs!vars
<1> QED
  BY <1>1, <1>5, <1>6 DEF n

LEMMA FetchIsGetOrMiss ==
    ASSUME StoreInv, NEW w \in Workers, NEW o \in ObjectIds, NEW id \in Uuids,
           Fetch(w, o, id) \/ FetchFatal(w, o, id)
    PROVE  (\E n \in Path : Blobs!Get(n)) \/ Blobs!Miss
<1> DEFINE n == <<o, id>>
<1>1. n \in Path
  BY DEF Path
<1>2. UNCHANGED <<files, unlinked, op, used, stored>>
  BY DEF Fetch, FetchFatal
<1>3. /\ \A p \in Path : Blob(p)' = Blob(p)
      /\ \A v \in Workers : Putting(v)' = Putting(v)
  BY <1>2 DEF Blob, Putting
<1>4. CASE Fetch(w, o, id)
  <2>1. answer' = [path |-> n, code |-> IF Exists(At(n)) THEN 200 ELSE 404,
                   body |-> IF Exists(At(n)) THEN BodyOf(At(n)) ELSE <<>>]
    BY <1>4 DEF Fetch
  <2> HIDE DEF n
  <2>2. CASE Clean(n) /\ n \notin unlinked
    <3>1. Blob(n) = BodyOf(At(n)) /\ Blob(n) # NULL /\ Exists(At(n))
      BY <1>1, <2>2, BlobOf DEF Exists
    <3>2. answer' = [path |-> n, code |-> 200, body |-> Blob(n)]
      BY <2>1, <3>1
    <3>3. Blobs!Get(n)
      BY <1>1, <1>3, <3>1, <3>2 DEF Blobs!Get
    <3> QED
      BY <1>1, <3>3
  <2>3. CASE ~Clean(n) \/ n \in unlinked
    <3>1. Blob(n) = NULL
      BY <1>1, <2>3, BlobOf
    <3>2. answer'.path = n
      BY <2>1
    <3>3. Blobs!Miss
      BY <1>1, <1>3, <3>1, <3>2 DEF Blobs!Miss
    <3> QED
      BY <3>3
  <2> QED
    BY <2>2, <2>3
<1>5. CASE FetchFatal(w, o, id)
  BY <1>3, <1>5 DEF FetchFatal, Blobs!Miss
<1> QED
  BY <1>4, <1>5

\* A step of a worker that is storing is a step of its own put.
LEMMA StoringIsPutting ==
    ASSUME StoreInv, StoreInv', NEW w \in Workers,
           ReadAndWrite(w) \/ ReadError(w) \/ ReadEnd(w) \/ Close(w) \/ Unlink(w) \/ Crash(w)
    PROVE  Blobs!Keep(w) \/ Blobs!Lose(w) \/ UNCHANGED Blobs!vars
<1> DEFINE s == op[w]
           f == files[s.path]
<1>0. op[w] # NULL
  BY Zenon DEF ReadAndWrite, ReadError, ReadEnd, Close, Unlink, Crash, In
<1>1. /\ s \in Store /\ s.path \in Path /\ answer' = answer
      /\ files' = files => files' = [files EXCEPT ![s.path] = f]
  <2>1. s \in Store /\ s.path \in Path
    BY <1>0, StoreFields
  <2>2. answer' = answer
    BY Zenon DEF ReadAndWrite, ReadError, ReadEnd, Close, Unlink, Crash
  <2> QED
    BY <1>0, <2>1, <2>2, SameFile
<1>2. ASSUME NEW t, op' = [op EXCEPT ![w] = t], t # NULL, t.path = s.path, t.upload = s.upload,
             NEW g, files' = [files EXCEPT ![s.path] = g], stored' = stored,
             unlinked' = unlinked
      PROVE  UNCHANGED Blobs!vars
  <2>1. t \in Store
    <3>1. op'[w] = t
      BY <1>2 DEF StoreInv, TypeOK
    <3> QED
      BY <1>2, <3>1 DEF StoreInv, TypeOK
  <2> QED
    BY <1>0, <1>1, <1>2, <2>1, WritingIsUnseen
<1>3. ASSUME op' = [op EXCEPT ![w] = NULL], NEW g, files' = [files EXCEPT ![s.path] = g],
             NEW answers, stored' = stored \cup answers,
             \A r \in answers : r.path = s.path /\ r.upload = s.upload,
             NamesAfter(answers)
      PROVE  Blobs!Keep(w) \/ Blobs!Lose(w)
  BY <1>0, <1>1, <1>3, EndIsKeepOrLose
<1>4. CASE ReadAndWrite(w)
  <2> DEFINE next == [s EXCEPT !.pos = @ + 1, !.has_header = TRUE]
             bad == [next EXCEPT !.failed = "write"]
  <2>1. /\ stored' = stored /\ unlinked' = unlinked
        /\ \E g : files' = [files EXCEPT ![s.path] = g]
    BY <1>4, Zenon DEF ReadAndWrite
  <2>2. op' = [op EXCEPT ![w] = next] \/ op' = [op EXCEPT ![w] = bad]
    BY <1>4, Zenon DEF ReadAndWrite
  <2>3. s.pos + 1 \in 0..MaxBlocks
    <3> DEFINE l == Len(s.upload)
    <3>1. s.pos \in Nat /\ s.pos < l /\ l \in 0..MaxBlocks
      BY <1>0, <1>4, StoreFields, Zenon DEF ReadAndWrite
    <3> HIDE DEF s, l
    <3> QED
      BY <3>1, MaxBlocksAssumption
  <2>4. /\ next \in Store /\ next.path = s.path /\ next.upload = s.upload
    BY <1>1, <2>3 DEF Store
  <2>5. /\ bad \in Store /\ bad.path = s.path /\ bad.upload = s.upload
    BY <2>4 DEF Store
  <2>6. PICK g : files' = [files EXCEPT ![s.path] = g]
    BY <2>1
  <2>7. next # NULL /\ bad # NULL
    BY <2>4, <2>5, NullAssumption
  <2> HIDE DEF next, bad
  <2> QED
    BY <1>2, <2>1, <2>2, <2>4, <2>5, <2>6, <2>7
<1>5. CASE ReadError(w) \/ ReadEnd(w)
  <2> DEFINE t == [s EXCEPT !.stage = "closing", !.error = TRUE, !.failed = "read"]
             u == [s EXCEPT !.stage = "closing"]
  <2>1. /\ stored' = stored /\ unlinked' = unlinked
        /\ files' = [files EXCEPT ![s.path] = f]
    BY <1>1, <1>5 DEF ReadError, ReadEnd
  <2>2. op' = [op EXCEPT ![w] = t] \/ op' = [op EXCEPT ![w] = u]
    BY <1>5, Zenon DEF ReadError, ReadEnd
  <2>3. /\ t \in Store /\ t.path = s.path /\ t.upload = s.upload
        /\ u \in Store /\ u.path = s.path /\ u.upload = s.upload
    BY <1>1 DEF Store
  <2>4. t # NULL /\ u # NULL
    BY <2>3, NullAssumption
  <2> HIDE DEF t, u
  <2> QED
    BY <1>2, <2>1, <2>2, <2>3, <2>4
<1>6. CASE Close(w)
  <2>0. unlinked' = unlinked
    BY <1>6 DEF Close
  <2>1. PICK g : files' = [files EXCEPT ![s.path] = g]
    BY <1>1, <1>6, Zenon DEF Close
  <2>2. PICK failed \in {s.failed, "write"} :
          IF s.error
          THEN op' = [op EXCEPT ![w] = [@ EXCEPT !.stage = "unlinking", !.failed = failed]]
                          /\ UNCHANGED stored
          ELSE op' = [op EXCEPT ![w] = NULL] /\ Reply(s, 200, failed)
    BY <1>6 DEF Close
  <2>3. CASE s.error
    <3> DEFINE t == [s EXCEPT !.stage = "unlinking", !.failed = failed]
    <3>1. op' = [op EXCEPT ![w] = t] /\ stored' = stored
      BY <2>2, <2>3
    <3>2. t.path = s.path /\ t.upload = s.upload
      BY <1>1 DEF Store
    <3>3. t \in Store
      <4>1. s.failed \in {"none", "read", "write"}
        BY <1>1 DEF Store
      <4> QED
        BY <1>1, <2>2, <4>1 DEF Store
    <3>4. t # NULL
      BY <3>3, NullAssumption
    <3> HIDE DEF t
    <3> QED
      BY <1>2, <2>0, <2>1, <3>1, <3>2, <3>3, <3>4
  <2>4. CASE ~s.error
    <3> DEFINE r == [path |-> s.path, upload |-> s.upload, code |-> 200, failed |-> failed]
               answers == {r}
    <3>1. op' = [op EXCEPT ![w] = NULL] /\ stored' = stored \cup answers
      BY <2>2, <2>4 DEF Reply
    <3>2. \A x \in answers : x.path = s.path /\ x.upload = s.upload
      OBVIOUS
    <3>3. NamesAfter(answers)
      BY <2>0 DEF NamesAfter
    <3> HIDE DEF answers
    <3> QED
      BY <1>3, <2>1, <3>1, <3>2, <3>3
  <2> QED
    BY <2>3, <2>4
<1>7. CASE Unlink(w)
  <2>1. PICK code \in {200, 500} :
          /\ Reply(s, code, s.failed)
          /\ unlinked' = unlinked \/ \E n \in Path : unlinked' = unlinked \cup {n}
    BY <1>7 DEF Unlink, Reached
  <2> DEFINE r == [path |-> s.path, upload |-> s.upload, code |-> code, failed |-> s.failed]
             answers == {r}
  <2>2. /\ op' = [op EXCEPT ![w] = NULL] /\ files' = [files EXCEPT ![s.path] = f]
        /\ stored' = stored \cup answers
    BY <1>1, <1>7, <2>1 DEF Unlink, Reply
  <2>3. s.failed # "none"
    BY <1>0, <1>7, StoreFields DEF Unlink, In, InProgress
  <2>4. \A x \in answers : x.path = s.path /\ x.upload = s.upload /\ x.failed # "none"
    BY <2>3
  <2>5. NamesAfter(answers) /\ \A x \in answers : x.path = s.path /\ x.upload = s.upload
    BY <2>1, <2>4 DEF NamesAfter
  <2> HIDE DEF answers, f
  <2> QED
    BY <1>3, <2>2, <2>5, Zenon
<1>8. CASE Crash(w)
  <2> DEFINE answers == {}
  <2>1. op' = [op EXCEPT ![w] = NULL] /\ stored' = stored \cup answers /\ unlinked' = unlinked
    BY <1>8 DEF Crash
  <2>2. PICK g : files' = [files EXCEPT ![s.path] = g]
    BY <1>8 DEF Crash
  <2>3. \A x \in answers : x.path = s.path /\ x.upload = s.upload
    OBVIOUS
  <2>4. NamesAfter(answers)
    BY <2>1 DEF NamesAfter
  <2> HIDE DEF answers
  <2> QED
    BY <1>3, <2>1, <2>2, <2>3, <2>4
<1> QED
  BY <1>4, <1>5, <1>6, <1>7, <1>8

\* Every step of the store is one of BlobStore, or nothing that it can see.
LEMMA NextIsBlobs == StoreInv /\ StoreInv' /\ [Next]_vars => [Blobs!Next]_(Blobs!vars)
<1> SUFFICES ASSUME StoreInv, StoreInv', [Next]_vars PROVE [Blobs!Next]_(Blobs!vars)
  OBVIOUS
<1>1. ASSUME NEW w \in Workers, NEW o \in ObjectIds, NEW u \in Upload, Open(w, o, u)
      PROVE  Blobs!Next \/ UNCHANGED Blobs!vars
  BY <1>1, OpenIsBegin DEF Blobs!Next
<1>2. ASSUME NEW w \in Workers,
             ReadAndWrite(w) \/ ReadError(w) \/ ReadEnd(w) \/ Close(w) \/ Unlink(w) \/ Crash(w)
      PROVE  Blobs!Next \/ UNCHANGED Blobs!vars
  BY <1>2, StoringIsPutting DEF Blobs!Next
<1>3. ASSUME NEW w \in Workers, NEW o \in ObjectIds, NEW id \in Uuids,
             Fetch(w, o, id) \/ FetchFatal(w, o, id)
      PROVE  Blobs!Next
  BY <1>3, FetchIsGetOrMiss DEF Blobs!Next
<1>4. CASE UNCHANGED vars
  <2>1. /\ \A p \in Path : Blob(p)' = Blob(p)
        /\ \A v \in Workers : Putting(v)' = Putting(v)
    BY <1>4 DEF vars, Blob, Putting
  <2> QED
    BY <1>4, <2>1 DEF vars, Blobs!vars
<1> QED
  BY <1>1, <1>2, <1>3, <1>4 DEF Next

\* The store implements BlobStore: with any number of workers that fail and
\* die at any call, an upload whose calls went well appears under its name at
\* once and whole when it is answered, and is all that is ever fetched there,
\* until the name is gone.
THEOREM StoreImplementsBlobs == Spec => ImplementsBlobs
<1>1. Init => Blobs!Init
  <2> SUFFICES ASSUME Init PROVE Blobs!Init
    OBVIOUS
  <2>1. /\ \A p \in Path : Blob(p) = NULL
        /\ \A w \in Workers : Putting(w) = NULL
    BY DEF Init, Blob, Putting
  <2> QED
    BY <2>1 DEF Init, Blobs!Init
<1> QED
  BY <1>1, NextIsBlobs, SpecInv, PTL DEF Spec, ImplementsBlobs, Blobs!Spec
=============================================================================
