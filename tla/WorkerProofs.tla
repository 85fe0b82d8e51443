---------------------------- MODULE WorkerProofs ----------------------------
(***************************************************************************)
(* Theorems about Worker, for every set of connections and of requests,    *)
(* every limit of http_basic_auth, every width of the counters and any     *)
(* number of reloads.                                                      *)
(***************************************************************************)
EXTENDS Worker, SequenceTheorems, FiniteSetTheorems, TLAPS

-----------------------------------------------------------------------------
(* The inductive invariant.                                                *)

\* A connection waits in one place at most: once in the list, or for the end
\* of its turn.  A worker that is stopped has nothing to do.
WaitingOnce ==
    /\ \A c \in Conns : conn[c] = "waiting" => request[c] \in Requests
    /\ \A i \in 1..Len(queue) : conn[queue[i]] = "waiting"
    /\ \A i, j \in 1..Len(queue) : queue[i] = queue[j] => i = j
    /\ cur # NULL => /\ conn[cur.conn] = "waiting"
                     /\ \A i \in 1..Len(queue) : queue[i] # cur.conn
                     /\ parent # "stopped"

\* What the release of the request whose turn it is will lose.
Loss ==
    {k \in {"principal"} : /\ Guard(Req.path) # "none" /\ Validated
                           /\ ~(Req.path = "/status" /\ Req.method = "GET")}
    \cup {k \in {"decoded"} : /\ Guard(Req.path) = "auth_basic" /\ Configured
                              /\ Req.header = "near"}

\* The memory and the answers of a request at each stage of its turn.
Untouched(t) == t.extra = NULL /\ t.codes = <<>> /\ t.lost = {} /\ t.pause = 0
Admitted(t) ==
    /\ t.codes = <<>> /\ t.lost = {}
    /\ IF Guard(Req.path) = "none" THEN t.extra = NULL
       ELSE Validated /\ t.extra = [object_id |-> 1, principal |-> TRUE, session |-> FALSE]
Answered(t) == Len(t.codes) = 1 /\ FreeExtra(t).lost = Loss

TurnAsMeant ==
    /\ At("validate") => Guard(Req.path) # "none" /\ Untouched(cur)
    /\ At("page") => Admitted(cur)
    /\ At("done") => Answered(cur)

\* The failure count of http_basic_auth is that of the refusals in a row, and
\* runs ahead of it from the validator to the end of the turn.
BasicTurn == cur # NULL /\ cur.stage # "validate" /\ Guard(Req.path) = "auth_basic" /\ Configured
CountKept ==
    /\ ~BasicTurn => basic_auth_count = refused
    /\ BasicTurn => basic_auth_count = IF cur.codes = <<401>> THEN refused + 1 ELSE 0

\* ActiveCount, in the middle of a turn, too.
CountsConnected ==
    parent # "stopped" =>
        /\ IsFiniteSet(Connected)
        /\ counters.conn_active = (Cardinality(Connected) + strays) % Width

WorkerInv == /\ TypeOK /\ WaitingOnce /\ TurnAsMeant /\ CountKept /\ Throttled
             /\ CountsConnected /\ SessionsReleased

-----------------------------------------------------------------------------
(* Counters of a fixed width, and Kore's list.                             *)

\* A number has one remainder.
LEMMA RemainderIsUnique ==
    ASSUME NEW W \in Nat \ {0}, NEW x \in Int, NEW k \in Int, NEW r \in 0..(W - 1),
           x = W * k + r
    PROVE  r = x % W
<1>1. x = W * (x \div W) + (x % W) /\ x \div W \in Int /\ x % W \in 0..(W - 1)
  OBVIOUS
<1> QED
  BY <1>1

\* It makes no difference when a counter wraps.
LEMMA WrapsWhenever ==
    ASSUME NEW W \in Nat \ {0}, NEW x \in Int, NEW d \in Int
    PROVE  ((x % W) + d) % W = (x + d) % W
<1> DEFINE r == x % W
           s == (r + d) % W
<1>1. /\ x = W * (x \div W) + r /\ x \div W \in Int /\ r \in 0..(W - 1)
  OBVIOUS
<1>2. r + d = W * ((r + d) \div W) + s /\ (r + d) \div W \in Int /\ s \in 0..(W - 1)
  BY <1>1
<1> HIDE DEF r, s
<1>3. PICK k \in Int, l \in Int : x = W * k + r /\ r + d = W * l + s
  BY <1>1, <1>2
<1>4. x + d = W * (k + l) + s
  <2>1. W * (k + l) = W * k + W * l /\ W * k \in Int /\ W * l \in Int
    OBVIOUS
  <2> QED
    BY <1>1, <1>2, <1>3, <2>1
<1>5. s = (x + d) % W
  <2>1. x + d \in Int /\ k + l \in Int
    OBVIOUS
  <2> QED
    BY <1>2, <1>4, <2>1, RemainderIsUnique
<1> QED
  BY <1>5 DEF r, s

LEMMA WidthIsPositive == Width \in Nat \ {0}
BY WidthAssumption, BoundAssumption

LEMMA RemoveAtPlaces ==
    ASSUME NEW S, NEW q \in Seq(S), NEW n \in 1..Len(q)
    PROVE  /\ RemoveAt(q, n) \in Seq(S) /\ Len(RemoveAt(q, n)) = Len(q) - 1
           /\ \A i \in 1..(Len(q) - 1) : RemoveAt(q, n)[i] = IF i < n THEN q[i] ELSE q[i + 1]
<1> DEFINE a == SubSeq(q, 1, n - 1)
           b == SubSeq(q, n + 1, Len(q))
<1>1. a \in Seq(S) /\ b \in Seq(S)
  OBVIOUS
<1>2. Len(q) \in Nat /\ n \in 1..Len(q) /\ Len(a) = n - 1 /\ Len(b) = Len(q) - n
  OBVIOUS
<1>3. \A i \in 1..(n - 1) : a[i] = q[i]
  OBVIOUS
<1>4. \A i \in 1..(Len(q) - n) : b[i] = q[n + i]
  OBVIOUS
<1> HIDE DEF a, b
<1> DEFINE r == a \o b
<1>5. r \in Seq(S) /\ Len(r) = Len(a) + Len(b)
  BY <1>1
<1>6. \A i \in 1..(Len(a) + Len(b)) : r[i] = IF i <= Len(a) THEN a[i] ELSE b[i - Len(a)]
  BY <1>1
<1>7. RemoveAt(q, n) = r
  BY DEF RemoveAt, a, b
<1> HIDE DEF r
<1>8. ASSUME NEW i \in 1..(Len(q) - 1)
      PROVE  r[i] = IF i < n THEN q[i] ELSE q[i + 1]
  <2>1. i \in 1..(Len(a) + Len(b))
    BY <1>2
  <2>2. r[i] = IF i <= Len(a) THEN a[i] ELSE b[i - Len(a)]
    BY <1>6, <2>1
  <2>3. CASE i < n
    BY <1>2, <1>3, <2>2, <2>3
  <2>4. CASE i >= n
    <3>1. i - (n - 1) \in 1..(Len(q) - n) /\ n + (i - (n - 1)) = i + 1
      BY <1>2, <2>4
    <3>2. b[i - (n - 1)] = q[i + 1]
      BY <1>4, <3>1
    <3> QED
      BY <1>2, <2>2, <2>4, <3>2
  <2> QED
    BY <1>2, <2>3, <2>4
<1>9. Len(r) = Len(q) - 1
  BY <1>2, <1>5
<1> QED
  BY <1>5, <1>7, <1>8, <1>9

\* RemoveFirst takes the one place of an element out and keeps the others.
LEMMA WithoutOne ==
    ASSUME NEW S, NEW q \in Seq(S), NEW c,
           \A i, j \in 1..Len(q) : q[i] = q[j] => i = j
    PROVE  LET r == RemoveFirst(q, c) IN
           /\ r \in Seq(S)
           /\ \A i \in 1..Len(r) : r[i] # c
           /\ \A i \in 1..Len(r) : \E k \in 1..Len(q) : r[i] = q[k]
           /\ \A i, j \in 1..Len(r) : r[i] = r[j] => i = j
<1> DEFINE Places == {i \in 1..Len(q) : q[i] = c}
<1>1. CASE ~\E i \in 1..Len(q) : q[i] = c
  BY <1>1 DEF RemoveFirst
<1>2. CASE \E i \in 1..Len(q) : q[i] = c
  <2>1. PICK n \in 1..Len(q) : q[n] = c
    BY <1>2
  <2>2. Places = {n}
    BY <2>1
  <2>3. SelectInSeq(q, LAMBDA v : v = c) = n
    <3>1. \A x \in Places : x = n
      BY <2>2
    <3> QED
      BY <2>1, <2>2, <3>1 DEF SelectInSeq, Min
  <2>4. RemoveFirst(q, c) = RemoveAt(q, n)
    BY <1>2, <2>3 DEF RemoveFirst
  <2> DEFINE r == RemoveFirst(q, c)
  <2>5. /\ r \in Seq(S) /\ Len(r) = Len(q) - 1 /\ Len(q) \in Nat
        /\ \A i \in 1..(Len(q) - 1) : r[i] = IF i < n THEN q[i] ELSE q[i + 1]
    BY <2>4, RemoveAtPlaces, SMTT(30)
  <2> HIDE DEF r
  <2>6. \A i \in 1..Len(r) : \E k \in 1..Len(q) : r[i] = q[k] /\ k # n
    <3> SUFFICES ASSUME NEW i \in 1..Len(r)
                 PROVE  \E k \in 1..Len(q) : r[i] = q[k] /\ k # n
      OBVIOUS
    <3>1. Len(q) \in Nat /\ i \in 1..(Len(q) - 1)
      BY <2>5
    <3>2. CASE i < n
      BY <2>5, <3>1, <3>2
    <3>3. CASE i >= n
      <4>1. i + 1 \in 1..Len(q) /\ i + 1 # n /\ r[i] = q[i + 1]
        BY <2>5, <3>1, <3>3
      <4> QED
        BY <4>1
    <3> QED
      BY <3>1, <3>2, <3>3
  <2>7. \A i, j \in 1..Len(r) : r[i] = r[j] => i = j
    <3> SUFFICES ASSUME NEW i \in 1..Len(r), NEW j \in 1..Len(r), r[i] = r[j]
                 PROVE  i = j
      OBVIOUS
    <3> DEFINE at(k) == IF k < n THEN k ELSE k + 1
    <3>1. Len(q) \in Nat /\ i \in 1..(Len(q) - 1) /\ j \in 1..(Len(q) - 1)
      BY <2>5
    <3>2. at(i) \in 1..Len(q) /\ at(j) \in 1..Len(q) /\ r[i] = q[at(i)] /\ r[j] = q[at(j)]
      BY <2>5, <3>1
    <3>3. at(i) = at(j)
      BY <3>2
    <3> QED
      BY <3>1, <3>3
  <2>8. \A i \in 1..Len(r) : r[i] # c
    BY <2>1, <2>6
  <2> QED
    BY <2>5, <2>6, <2>7, <2>8 DEF r
<1> QED
  BY <1>1, <1>2

-----------------------------------------------------------------------------
(* What the operators do to the request whose turn it is.                  *)

LEMMA FieldsOfTurn ==
    ASSUME NEW t \in Turn
    PROVE  /\ t.conn \in Conns /\ t.stage \in {"validate", "page", "done"}
           /\ t.extra \in RequestData \cup {NULL} /\ t.codes \in Seq(Int)
           /\ t.lost \in SUBSET {"session", "principal", "decoded"} /\ t.pause \in {0, 1, 5}
           /\ t # NULL
BY NullAssumption DEF Turn

\* What none of them touches.
SameTurn(r, t) == r \in Turn /\ r.conn = t.conn /\ r.stage = t.stage /\ r.pause = t.pause

LEMMA BlankIsData == Blank \in RequestData /\ Blank # NULL
<1>1. Blank \in RequestData
  BY DEF Blank, RequestData
<1> QED
  BY <1>1, NullAssumption

LEMMA RespondOnce ==
    ASSUME NEW t \in Turn, NEW code \in Int
    PROVE  /\ SameTurn(Respond(t, code), t)
           /\ Respond(t, code).codes = Append(t.codes, code)
           /\ Respond(t, code).extra = t.extra /\ Respond(t, code).lost = t.lost
<1>1. Append(t.codes, code) \in Seq(Int)
  BY FieldsOfTurn
<1>2. Respond(t, code) \in Turn
  BY <1>1 DEF Respond, Turn
<1> QED
  BY <1>2 DEF Respond, Turn, SameTurn

LEMMA WithExtraHas ==
    ASSUME NEW t \in Turn
    PROVE  /\ SameTurn(WithExtra(t), t)
           /\ WithExtra(t).extra = IF t.extra = NULL THEN Blank ELSE t.extra
           /\ WithExtra(t).extra \in RequestData /\ WithExtra(t).extra # NULL
           /\ WithExtra(t).codes = t.codes /\ WithExtra(t).lost = t.lost
BY BlankIsData DEF WithExtra, Turn, RequestData, SameTurn

LEMMA NewSessionLeaves ==
    ASSUME NEW t \in Turn, t.extra # NULL, t.extra.session = FALSE
    PROVE  /\ SameTurn(NewSession(t), t)
           /\ NewSession(t).extra = [t.extra EXCEPT !.session = TRUE]
           /\ NewSession(t).extra \in RequestData /\ NewSession(t).extra # NULL
           /\ NewSession(t).codes = t.codes /\ NewSession(t).lost = t.lost
<1>1. NewSession(t) \in Turn
  BY DEF NewSession, Turn, RequestData
<1>2. /\ NewSession(t).extra = [t.extra EXCEPT !.session = TRUE]
      /\ NewSession(t).lost = t.lost
      /\ NewSession(t).codes = t.codes /\ NewSession(t).conn = t.conn
      /\ NewSession(t).stage = t.stage /\ NewSession(t).pause = t.pause
  BY DEF NewSession, Turn, RequestData
<1>3. [t.extra EXCEPT !.session = TRUE] \in RequestData
  <2>1. t.extra \in RequestData
    BY FieldsOfTurn
  <2> QED
    BY <2>1 DEF RequestData
<1> QED
  BY <1>1, <1>2, <1>3, NullAssumption DEF SameTurn

LEMMA ReleaseLeaves ==
    ASSUME NEW t \in Turn, t.extra # NULL
    PROVE  /\ SameTurn(ReleaseSession(t), t)
           /\ ReleaseSession(t).extra = [t.extra EXCEPT !.session = FALSE]
           /\ ReleaseSession(t).extra \in RequestData /\ ReleaseSession(t).extra # NULL
           /\ ReleaseSession(t).codes = t.codes /\ ReleaseSession(t).lost = t.lost
<1>1. ReleaseSession(t) \in Turn
  BY DEF ReleaseSession, Turn, RequestData
<1>2. [t.extra EXCEPT !.session = FALSE] \in RequestData
  <2>1. t.extra \in RequestData
    BY FieldsOfTurn
  <2> QED
    BY <2>1 DEF RequestData
<1> QED
  BY <1>1, <1>2, NullAssumption DEF ReleaseSession, Turn, SameTurn

\* The structure goes with the principal, if there is one and no session.
LEMMA FreeLoses ==
    ASSUME NEW t \in Turn, t.extra # NULL => t.extra.session = FALSE
    PROVE  /\ SameTurn(FreeExtra(t), t)
           /\ FreeExtra(t).extra = NULL /\ FreeExtra(t).codes = t.codes
           /\ FreeExtra(t).lost =
                t.lost \cup {k \in {"principal"} : t.extra # NULL /\ t.extra.principal}
<1>1. FreeExtra(t) \in Turn
  BY DEF FreeExtra, Turn, RequestData
<1>2. /\ FreeExtra(t).extra = NULL /\ FreeExtra(t).codes = t.codes /\ FreeExtra(t).conn = t.conn
      /\ FreeExtra(t).stage = t.stage /\ FreeExtra(t).pause = t.pause
  BY DEF FreeExtra, Turn
<1>3. FreeExtra(t).lost = t.lost \cup {k \in {"principal"} : t.extra # NULL /\ t.extra.principal}
  BY DEF FreeExtra, Turn, RequestData
<1> QED
  BY <1>1, <1>2, <1>3 DEF SameTurn

LEMMA FreeLosesFirst ==
    ASSUME NEW t \in Turn, t.lost = {}, t.extra # NULL => t.extra.session = FALSE
    PROVE  FreeExtra(t).lost = {k \in {"principal"} : t.extra # NULL /\ t.extra.principal}
BY FreeLoses

\* A reporting handler leaves nothing behind of what it allocates, nor of a
\* blank hdlr_extra.
LEMMA ReportLeavesNothing ==
    ASSUME NEW t \in Turn, t.extra \in {NULL, Blank}, NEW code \in Int
    PROVE  LET r == ReportAndRelease(t, code)
           IN  SameTurn(r, t) /\ r.extra = NULL /\ r.codes = Append(t.codes, code)
               /\ r.lost = t.lost
<1> DEFINE w == WithExtra(t)
           n == NewSession(w)
           v == Respond(n, code)
           e == ReleaseSession(v)
<1>1. SameTurn(w, t) /\ w.extra = Blank /\ w.codes = t.codes /\ w.lost = t.lost
  BY WithExtraHas
<1>2. w.extra # NULL /\ w.extra.session = FALSE /\ w.extra.principal = FALSE
  BY <1>1, BlankIsData DEF Blank
<1> HIDE DEF w
<1>3. /\ SameTurn(n, t) /\ n.extra = [w.extra EXCEPT !.session = TRUE] /\ n.extra # NULL
      /\ n.codes = t.codes /\ n.lost = t.lost
  BY <1>1, <1>2, NewSessionLeaves DEF SameTurn
<1> HIDE DEF n
<1>4. SameTurn(v, t) /\ v.extra = n.extra /\ v.codes = Append(t.codes, code) /\ v.lost = t.lost
  <2>1. /\ SameTurn(v, n) /\ v.codes = Append(n.codes, code)
        /\ v.extra = n.extra /\ v.lost = n.lost
    <3>1. n \in Turn
      BY <1>3 DEF SameTurn
    <3> QED
      BY <3>1, RespondOnce, Zenon
  <2> HIDE DEF v
  <2> QED
    BY <1>3, <2>1 DEF SameTurn
<1> HIDE DEF v
<1>5. /\ SameTurn(e, t) /\ e.extra = [v.extra EXCEPT !.session = FALSE] /\ e.extra # NULL
      /\ e.codes = Append(t.codes, code) /\ e.lost = t.lost
  BY <1>3, <1>4, ReleaseLeaves DEF SameTurn
<1>6. e.extra.session = FALSE /\ e.extra.principal = FALSE
  <2>1. w.extra \in RequestData
    BY <1>1, BlankIsData
  <2> QED
    BY <1>2, <1>3, <1>4, <1>5, <2>1 DEF RequestData
<1> HIDE DEF e
<1>7. /\ SameTurn(FreeExtra(e), t) /\ FreeExtra(e).extra = NULL
      /\ FreeExtra(e).codes = Append(t.codes, code) /\ FreeExtra(e).lost = t.lost
  <2>1. e \in Turn
    BY <1>5 DEF SameTurn
  <2>2. /\ SameTurn(FreeExtra(e), e) /\ FreeExtra(e).extra = NULL
        /\ FreeExtra(e).codes = e.codes
        /\ FreeExtra(e).lost =
             e.lost \cup {k \in {"principal"} : e.extra # NULL /\ e.extra.principal}
    BY <2>1, <1>6, FreeLoses
  <2>3. {k \in {"principal"} : e.extra # NULL /\ e.extra.principal} = {}
    BY <1>6
  <2>4. SameTurn(FreeExtra(e), t)
    BY <1>5, <2>2 DEF SameTurn
  <2> QED
    BY <1>5, <2>2, <2>3, <2>4
<1>8. FreeExtra(e) = ReportAndRelease(t, code)
  BY Zenon DEF ReportAndRelease, http_report, http_view, e, v, n, w
<1> QED
  BY <1>7, <1>8

LEMMA StageSet ==
    ASSUME NEW t \in Turn
    PROVE  /\ ToDone(t) \in Turn /\ ToDone(t).conn = t.conn /\ ToDone(t).stage = "done"
           /\ ToDone(t).extra = t.extra /\ ToDone(t).codes = t.codes
           /\ ToDone(t).lost = t.lost /\ ToDone(t).pause = t.pause
BY DEF ToDone, Turn

-----------------------------------------------------------------------------
(* The pages.                                                              *)

LEMMA TurnOfARequest ==
    ASSUME TypeOK, WaitingOnce, cur # NULL
    PROVE  cur \in Turn /\ cur.conn \in Conns /\ Req \in Request
<1>1. cur \in Turn
  BY DEF TypeOK
<1>2. cur.conn \in Conns
  BY <1>1, FieldsOfTurn
<1>3. Req \in Requests
  BY <1>2 DEF WaitingOnce, Req
<1> QED
  BY <1>1, <1>2, <1>3, RequestAssumption

\* How a page leaves its request.
PageDone ==
    /\ cur' \in Turn /\ cur'.conn = cur.conn /\ cur'.pause = cur.pause /\ cur'.stage = "done"
    /\ Len(cur'.codes) = 1 /\ cur'.codes # <<401>>
    /\ FreeExtra(cur').lost = Loss

LEMMA AdmittedLoss ==
    ASSUME WorkerInv, At("page")
    PROVE  /\ cur \in Turn /\ cur.codes = <<>> /\ cur.lost = {}
           /\ Guard(Req.path) = "none" => cur.extra = NULL /\ Loss = {}
           /\ Guard(Req.path) # "none" =>
                /\ cur.extra # NULL
                /\ cur.extra.object_id = 1 /\ cur.extra.principal = TRUE
                   /\ cur.extra.session = FALSE
                /\ Loss = IF Req.path = "/status" /\ Req.method = "GET" THEN {} ELSE {"principal"}
<1>1. cur # NULL /\ cur \in Turn /\ Admitted(cur)
  BY TurnOfARequest DEF WorkerInv, TurnAsMeant, At
<1>2. Guard(Req.path) = "none" => Loss = {}
  BY DEF Loss
<1>3. ASSUME Guard(Req.path) # "none"
      PROVE  /\ cur.extra # NULL
             /\ cur.extra.object_id = 1 /\ cur.extra.principal = TRUE /\ cur.extra.session = FALSE
             /\ Loss = IF Req.path = "/status" /\ Req.method = "GET" THEN {} ELSE {"principal"}
  <2>1. Validated /\ cur.extra = [object_id |-> 1, principal |-> TRUE, session |-> FALSE]
    BY <1>1, <1>3 DEF Admitted
  <2>2. [object_id |-> 1, principal |-> TRUE, session |-> FALSE] # NULL
    <3>1. [object_id |-> 1, principal |-> TRUE, session |-> FALSE] \in RequestData
      BY DEF RequestData
    <3> QED
      BY <3>1, NullAssumption
  <2>3. Req.header = "right"
    BY <2>1 DEF Validated
  <2>4. Loss = IF Req.path = "/status" /\ Req.method = "GET" THEN {} ELSE {"principal"}
    BY <1>3, <2>1, <2>3 DEF Loss
  <2> QED
    BY <2>1, <2>2, <2>4
<1> QED
  BY <1>1, <1>2, <1>3 DEF Admitted

\* A page that answers and leaves hdlr_extra as the validator left it.
LEMMA RespondIsDone ==
    ASSUME WorkerInv, At("page"), ~(Req.path = "/status" /\ Req.method = "GET"),
           NEW code \in Int \ {401}, cur' = ToDone(Respond(cur, code))
    PROVE  PageDone
<1> DEFINE r == Respond(cur, code)
<1>1. SameTurn(r, cur) /\ r.codes = Append(<<>>, code) /\ r.extra = cur.extra /\ r.lost = {}
  BY AdmittedLoss, RespondOnce
<1> HIDE DEF r
<1>2. /\ cur' \in Turn /\ cur'.conn = cur.conn /\ cur'.pause = cur.pause /\ cur'.stage = "done"
      /\ cur'.codes = Append(<<>>, code) /\ cur'.extra = cur.extra /\ cur'.lost = {}
  BY <1>1, StageSet DEF SameTurn, r
<1>3. Len(cur'.codes) = 1 /\ cur'.codes # <<401>>
  <2>1. Append(<<>>, code) = <<code>>
    OBVIOUS
  <2>2. <<code>>[1] # <<401>>[1] /\ Len(<<code>>) = 1
    OBVIOUS
  <2> QED
    BY <1>2, <2>1, <2>2
<1>4. FreeExtra(cur').lost = Loss
  <2>1. cur'.extra # NULL => cur'.extra.session = FALSE
    BY <1>2, AdmittedLoss, ZenonT(30)
  <2>2. FreeExtra(cur').lost =
          {k \in {"principal"} : cur'.extra # NULL /\ cur'.extra.principal}
    BY <1>2, <2>1, FreeLosesFirst, Zenon
  <2>3. CASE Guard(Req.path) = "none"
    <3>1. cur'.extra = NULL /\ Loss = {}
      BY <1>2, <2>3, AdmittedLoss
    <3>2. {k \in {"principal"} : cur'.extra # NULL /\ cur'.extra.principal} = {}
      BY <3>1, Zenon
    <3>3. FreeExtra(cur').lost = {}
      BY <2>2, <3>2, Zenon
    <3> QED
      BY <3>1, <3>3, Zenon
  <2>4. CASE Guard(Req.path) # "none"
    <3>0. /\ cur.extra # NULL /\ cur.extra.principal = TRUE
          /\ Loss = IF Req.path = "/status" /\ Req.method = "GET" THEN {} ELSE {"principal"}
      BY <2>4, AdmittedLoss, Zenon
    <3>1. cur'.extra # NULL /\ cur'.extra.principal = TRUE /\ Loss = {"principal"}
      BY <1>2, <3>0, Zenon
    <3>2. {k \in {"principal"} : cur'.extra # NULL /\ cur'.extra.principal} = {"principal"}
      BY <3>1
    <3> QED
      BY <2>2, <3>1, <3>2
  <2> QED
    BY <2>3, <2>4
<1> QED
  BY <1>2, <1>3, <1>4 DEF PageDone

\* A page that reports and releases.
LEMMA ReportIsDone ==
    ASSUME WorkerInv, At("page"), Guard(Req.path) = "none",
           NEW code \in Int \ {401}, cur' = ToDone(ReportAndRelease(cur, code))
    PROVE  PageDone
<1> DEFINE r == ReportAndRelease(cur, code)
<1>1. SameTurn(r, cur) /\ r.codes = Append(<<>>, code) /\ r.extra = NULL /\ r.lost = {}
  BY AdmittedLoss, ReportLeavesNothing
<1> HIDE DEF r
<1>2. /\ cur' \in Turn /\ cur'.conn = cur.conn /\ cur'.pause = cur.pause /\ cur'.stage = "done"
      /\ cur'.codes = Append(<<>>, code) /\ cur'.extra = NULL /\ cur'.lost = {}
  BY <1>1, StageSet DEF SameTurn, r
<1>3. Len(cur'.codes) = 1 /\ cur'.codes # <<401>>
  <2>1. Append(<<>>, code) = <<code>>
    OBVIOUS
  <2>2. <<code>>[1] # <<401>>[1] /\ Len(<<code>>) = 1
    OBVIOUS
  <2> QED
    BY <1>2, <2>1, <2>2
<1>4. FreeExtra(cur').lost = Loss
  <2>1. FreeExtra(cur').lost =
          {k \in {"principal"} : cur'.extra # NULL /\ cur'.extra.principal}
    BY <1>2, FreeLosesFirst, Zenon
  <2>2. FreeExtra(cur').lost = {}
    BY <1>2, <2>1
  <2>3. Loss = {}
    BY AdmittedLoss
  <2> QED
    BY <2>2, <2>3
<1> QED
  BY <1>2, <1>3, <1>4 DEF PageDone

LEMMA GuardOf ==
    ASSUME NEW path
    PROVE  /\ path \in {"/status", "/app/html"} => Guard(path) = "auth_basic"
           /\ path = "/app/resource" => Guard(path) = "auth_jwt"
           /\ path \notin {"/status", "/app/html", "/app/resource"} => Guard(path) = "none"
           /\ Guard(path) \in {"auth_basic", "auth_jwt", "none"}
BY DEF Guard, GuardedBy

\* The process ends in the turn of a request that MayEnd tells apart.
Ended == Die /\ MayEnd(Req, config)

LEMMA DeathsAreNamed ==
    ASSUME Die,
           \/ Guard(Req.path) = "auth_basic" /\ EndsBasic
           \/ Guard(Req.path) = "auth_jwt" /\ Req.header = "bare"
           \/ Req.path = "/app/resource" /\ EndsFetch /\ Req.header = "right"
           \/ Req.path = "/status" /\ ~Viewable("status")
           \/ Req.path \in Reporting /\ ~Viewable("report")
    PROVE  Ended
<1>1. /\ Guard(Req.path) = "auth_basic" => Req.path \in GuardedBy.basic
      /\ Guard(Req.path) = "auth_jwt" => Req.path \in GuardedBy.jwt
      /\ GuardedBy.basic \subseteq Reporting
      /\ "/status" \in Reporting /\ "/app/resource" \in GuardedBy.jwt
  BY DEF Guard, GuardedBy, Reporting
<1>2. "report" # "status"
  OBVIOUS
<1>3. ~Viewable("report") => ~(Req.agent /\ config.domain)
  BY <1>2, Zenon DEF Viewable
<1>4. ~Viewable("status") => ~(Req.agent /\ config.domain) \/ ~config.storage
  BY Zenon DEF Viewable
<1>5. MayEnd(Req, config)
  <2>1. CASE Guard(Req.path) = "auth_basic" /\ EndsBasic
    BY <1>1, <1>3, <2>1, Zenon DEF EndsBasic, http_basic_auth, MayEnd
  <2>2. CASE Guard(Req.path) = "auth_jwt" /\ Req.header = "bare"
    BY <1>1, <2>2, Zenon DEF MayEnd
  <2>3. CASE Req.path = "/app/resource" /\ EndsFetch /\ Req.header = "right"
    BY <1>1, <2>3, Zenon DEF EndsFetch, MayEnd
  <2>4. CASE Req.path = "/status" /\ ~Viewable("status")
    BY <1>1, <1>4, <2>4, Zenon DEF MayEnd
  <2>5. CASE Req.path \in Reporting /\ ~Viewable("report")
    BY <1>3, <2>5, Zenon DEF MayEnd
  <2> QED
    BY <2>1, <2>2, <2>3, <2>4, <2>5
<1> QED
  BY <1>5 DEF Ended

LEMMA AppPlainDone ==
    ASSUME WorkerInv, AppPlain
    PROVE  PageDone
<1> DEFINE code == CASE Req.path = "/" -> 302
                     [] Req.path \in {"/app/welcome", "/app/cookie"} /\ Req.method # "GET" -> 405
                     [] OTHER -> 200
<1>1. /\ At("page") /\ ~(Req.path = "/status" /\ Req.method = "GET")
      /\ cur' = ToDone(Respond(cur, code))
  BY DEF AppPlain, Page
<1>2. code \in Int \ {401}
  <2>1. CASE Req.path = "/"
    BY <2>1
  <2>2. CASE Req.path # "/" /\ Req.path \in {"/app/welcome", "/app/cookie"} /\ Req.method # "GET"
    BY <2>2
  <2>3. CASE Req.path # "/" /\ ~(Req.path \in {"/app/welcome", "/app/cookie"} /\ Req.method # "GET")
    BY <2>3
  <2> QED
    BY <2>1, <2>2, <2>3
<1> HIDE DEF code
<1> QED
  BY <1>1, <1>2, RespondIsDone

\* The status controller frees all that the validator and it allocated.
LEMMA AppStatusDone ==
    ASSUME WorkerInv, AppStatus, ~Ended
    PROVE  /\ PageDone /\ UNCHANGED <<basic_auth_count, parent>> /\ UNCHANGED OutsideTurn
           /\ status_has_auth_user' \in {0, 1}
           /\ Req.method = "GET" => status_has_auth_user' = 1
<1>0. At("page") /\ Req.path = "/status" /\ Guard(Req.path) # "none"
  BY GuardOf DEF AppStatus, Page
<1>1. CASE Req.method # "GET"
  <2>1. /\ cur' = ToDone(Respond(cur, 405)) /\ status_has_auth_user' = status_has_auth_user
        /\ UNCHANGED <<basic_auth_count, parent>> /\ UNCHANGED OutsideTurn
    BY <1>1 DEF AppStatus, OnlyTurn, Elsewhere
  <2>2. PageDone
    BY <1>0, <1>1, <2>1, RespondIsDone
  <2> QED
    BY <1>1, <2>1, <2>2 DEF WorkerInv, TypeOK
<1>2. CASE Req.method = "GET"
  <2> DEFINE t == WithExtra(cur)
             n == NewSession(t)
             r == Respond(n, 200)
             v == ReleaseSession(r)
             f == FreePrincipal(v)
             e == FreeExtra(f)
  <2>0. /\ cur \in Turn /\ cur.codes = <<>> /\ cur.lost = {} /\ cur.extra # NULL
        /\ cur.extra.principal = TRUE /\ cur.extra.session = FALSE /\ Loss = {}
    BY <1>0, <1>2, AdmittedLoss
  <2>1. /\ cur' = ToDone(e)
        /\ status_has_auth_user' = IF t.extra.principal THEN 1 ELSE status_has_auth_user
        /\ UNCHANGED <<basic_auth_count, parent>> /\ UNCHANGED OutsideTurn
    BY <1>0, <1>2, DeathsAreNamed DEF AppStatus, http_view
  <2>2. /\ SameTurn(t, cur) /\ t.codes = <<>> /\ t.lost = {} /\ t.extra = cur.extra
        /\ t.extra \in RequestData
    BY <2>0, WithExtraHas
  <2>3. status_has_auth_user' = 1
    BY <2>0, <2>1, <2>2
  <2> HIDE DEF t
  <2>4. /\ SameTurn(n, cur) /\ n.codes = <<>> /\ n.lost = {} /\ n.extra # NULL
        /\ n.extra = [t.extra EXCEPT !.session = TRUE]
    BY <2>0, <2>2, NewSessionLeaves DEF SameTurn
  <2> HIDE DEF n
  <2>5. SameTurn(r, cur) /\ r.codes = Append(<<>>, 200) /\ r.lost = {} /\ r.extra = n.extra
    BY <2>4, RespondOnce DEF SameTurn
  <2> HIDE DEF r
  <2>6. /\ SameTurn(v, cur) /\ v.codes = Append(<<>>, 200) /\ v.lost = {} /\ v.extra # NULL
        /\ v.extra \in RequestData /\ v.extra = [r.extra EXCEPT !.session = FALSE]
    BY <2>4, <2>5, ReleaseLeaves DEF SameTurn
  <2>7. v.extra.session = FALSE
    BY <2>2, <2>4, <2>5, <2>6 DEF RequestData
  <2> HIDE DEF v
  <2>8. /\ f \in Turn /\ f.conn = cur.conn /\ f.pause = cur.pause
        /\ f.codes = Append(<<>>, 200) /\ f.lost = {}
        /\ f.extra.session = FALSE /\ f.extra.principal = FALSE
    BY <2>6, <2>7 DEF FreePrincipal, SameTurn, Turn, RequestData
  <2> HIDE DEF f
  <2>9. /\ e \in Turn /\ e.conn = cur.conn /\ e.pause = cur.pause /\ e.extra = NULL
        /\ e.codes = Append(<<>>, 200) /\ e.lost = {}
    <3>1. SameTurn(e, f) /\ e.extra = NULL /\ e.codes = f.codes
          /\ e.lost = f.lost \cup {k \in {"principal"} : f.extra # NULL /\ f.extra.principal}
      BY <2>8, FreeLoses
    <3> HIDE DEF e
    <3> QED
      BY <2>8, <3>1 DEF SameTurn
  <2> HIDE DEF e
  <2>10. /\ cur' \in Turn /\ cur'.conn = cur.conn /\ cur'.pause = cur.pause /\ cur'.stage = "done"
         /\ cur'.codes = <<200>> /\ cur'.lost = {} /\ cur'.extra = NULL
    BY <2>1, <2>9, StageSet
  <2>11. FreeExtra(cur').lost = Loss
    <3>1. FreeExtra(cur').lost =
          {k \in {"principal"} : cur'.extra # NULL /\ cur'.extra.principal}
      BY <2>10, FreeLosesFirst, Zenon
    <3> QED
      BY <2>0, <2>10, <3>1
  <2>12. Len(cur'.codes) = 1 /\ cur'.codes # <<401>>
    <3>1. <<200>>[1] # <<401>>[1] /\ Len(<<200>>) = 1
      OBVIOUS
    <3> QED
      BY <2>10, <3>1
  <2> QED
    BY <2>1, <2>3, <2>10, <2>11, <2>12 DEF PageDone
<1> QED
  BY <1>1, <1>2

\* The controller of /app/resource meets a request that is authenticated, so
\* the error that its route drops does not happen.
LEMMA AppResourceDone ==
    ASSUME WorkerInv, AppResource, ~Ended
    PROVE  PageDone /\ OnlyTurn
<1>1. At("page") /\ Req.path = "/app/resource" /\ Guard(Req.path) # "none"
  BY GuardOf DEF AppResource, Page
<1>2. cur \in Turn /\ cur.codes = <<>> /\ Authenticated(cur)
  <2>1. cur \in Turn /\ cur.codes = <<>> /\ cur.extra # NULL /\ cur.extra.object_id = 1
    BY <1>1, AdmittedLoss
  <2>2. cur.extra.principal
    BY <1>1, AdmittedLoss, Zenon
  <2>3. cur.extra.object_id # 0
    BY <2>1
  <2> QED
    BY <2>1, <2>2, <2>3, Zenon DEF Authenticated
<1>3. \A codes \in ResourceAnswers : \E code \in {405, 412, 400, 200, 404, 500} : codes = <<code>>
  BY <1>2 DEF ResourceAnswers
<1>4. PICK codes \in ResourceAnswers :
        cur' = ToDone([cur EXCEPT !.codes = @ \o codes]) /\ OnlyTurn
  <2>1. Req.header = "right"
    BY <1>1, Zenon DEF WorkerInv, TurnAsMeant, Admitted, Validated
  <2> QED
    BY <1>1, <2>1, DeathsAreNamed DEF AppResource
<1>5. PICK code \in {405, 412, 400, 200, 404, 500} : codes = <<code>>
  BY <1>3
<1>6. [cur EXCEPT !.codes = @ \o codes] = Respond(cur, code)
  <2>1. cur.codes \o codes = Append(cur.codes, code)
    BY <1>2, <1>5
  <2> QED
    BY <2>1 DEF Respond
<1>7. code \in Int \ {401} /\ ~(Req.path = "/status" /\ Req.method = "GET")
  BY <1>1
<1> QED
  BY <1>1, <1>4, <1>6, <1>7, RespondIsDone

LEMMA ReportingPageDone ==
    ASSUME WorkerInv, AyaReadme \/ AyaReport \/ AyaShutdown \/ NotFound, ~Ended
    PROVE  /\ PageDone /\ UNCHANGED <<basic_auth_count, status_has_auth_user>>
           /\ UNCHANGED OutsideTurn
           /\ parent' = IF Req.path = "/shutdown" THEN "told" ELSE parent
<1>1. At("page") /\ Guard(Req.path) = "none" /\ Req.path \notin {"/status"}
  BY GuardOf DEF AyaReadme, AyaReport, AyaShutdown, NotFound, Page
<1>2. /\ \/ cur' = ToDone(Respond(cur, 200))
         \/ \E code \in {404, 418, 419, 435} : cur' = ToDone(ReportAndRelease(cur, code))
      /\ UNCHANGED <<basic_auth_count, status_has_auth_user>>
      /\ UNCHANGED OutsideTurn
      /\ parent' = IF Req.path = "/shutdown" THEN "told" ELSE parent
  <2>0. ASSUME Req.path \in Reporting, ~Viewable("report"), Die PROVE FALSE
    BY <2>0, DeathsAreNamed
  <2>1. {"/readme", "/teapot", "/fox", "/shutdown", "/elsewhere"} \subseteq Reporting
    BY DEF Reporting
  <2>2. CASE AyaReadme
    BY <2>0, <2>1, <2>2 DEF AyaReadme, Page, notfound, OnlyTurn, Elsewhere
  <2>3. CASE AyaReport
    BY <2>0, <2>1, <2>3 DEF AyaReport, Page, OnlyTurn, Elsewhere
  <2>4. CASE AyaShutdown
    BY <2>0, <2>1, <2>4 DEF AyaShutdown, Page
  <2>5. CASE NotFound
    BY <2>0, <2>1, <2>5 DEF NotFound, Page, notfound, OnlyTurn, Elsewhere
  <2> QED
    BY <2>2, <2>3, <2>4, <2>5
<1>3. 200 \in Int \ {401} /\ {404, 418, 419, 435} \subseteq Int \ {401}
  OBVIOUS
<1>4. PageDone
  BY <1>1, <1>2, <1>3, RespondIsDone, ReportIsDone
<1> QED
  BY <1>2, <1>4

LEMMA EndpointDone ==
    ASSUME WorkerInv, EndpointCore \/ EndpointAuth \/ EndpointMsg
    PROVE  PageDone
<1> DEFINE codes == {405, 200, 101, -32700, -32602, -32601, -2, -3, -4, -5}
<1>1. At("page") /\ Req.path \notin {"/status"}
  BY DEF EndpointCore, EndpointAuth, EndpointMsg, Page
<1>2. \E code \in codes : cur' = ToDone(Respond(cur, code))
  <2>1. CASE EndpointCore
    BY <2>1 DEF EndpointCore
  <2>2. CASE EndpointAuth
    <3>1. AuthAnswers \subseteq codes
      BY DEF AuthAnswers
    <3> QED
      BY <2>2, <3>1 DEF EndpointAuth
  <2>3. CASE EndpointMsg
    BY <2>3 DEF EndpointMsg
  <2> QED
    BY <2>1, <2>2, <2>3
<1>3. codes \subseteq Int \ {401}
  OBVIOUS
<1> HIDE DEF codes
<1> QED
  BY <1>1, <1>2, <1>3, RespondIsDone

-----------------------------------------------------------------------------
(* The steps of a turn keep the invariant.                                 *)

LEMMA PageKeepsInv ==
    ASSUME WorkerInv, At("page"), PageDone, UNCHANGED OutsideTurn,
           basic_auth_count' = basic_auth_count, status_has_auth_user' \in {0, 1},
           parent' \in {parent, "told"}
    PROVE  WorkerInv'
<1>0. /\ cur # NULL /\ cur.stage = "page" /\ cur' \in Turn /\ cur' # NULL /\ cur'.stage = "done"
      /\ cur'.conn = cur.conn /\ Req' = Req
      /\ conn' = conn /\ request' = request /\ queue' = queue /\ counters' = counters
      /\ config' = config /\ refused' = refused /\ strays' = strays
      /\ reloads' = reloads /\ lost' = lost
  BY FieldsOfTurn DEF PageDone, At, OutsideTurn, Req
<1>1. TypeOK'
  BY <1>0 DEF WorkerInv, TypeOK
<1>2. WaitingOnce'
  BY <1>0 DEF WorkerInv, WaitingOnce
<1>3. TurnAsMeant'
  <2>1. Loss' = Loss
    BY <1>0 DEF Loss, Validated, Configured
  <2>2. Answered(cur)'
    BY <2>1 DEF PageDone, Answered, FreeExtra
  <2> QED
    BY <1>0, <2>2 DEF TurnAsMeant, At
<1>4. CountKept' /\ Throttled'
  <2>1. cur.codes = <<>> /\ cur.codes # <<401>>
    <3>1. cur.codes = <<>>
      BY AdmittedLoss
    <3> QED
      BY <3>1
  <2>2. BasicTurn' = BasicTurn
    BY <1>0 DEF BasicTurn, Configured
  <2> QED
    BY <1>0, <2>1, <2>2 DEF WorkerInv, CountKept, Throttled, BasicTurn, PageDone
<1>5. CountsConnected'
  <2>1. Connected' = Connected
    BY <1>0 DEF Connected
  <2>2. parent' # "stopped" => parent # "stopped"
    BY <1>0 DEF WorkerInv, WaitingOnce
  <2> QED
    BY <1>0, <2>1, <2>2 DEF WorkerInv, CountsConnected
<1>6. SessionsReleased'
  BY <1>0 DEF WorkerInv, SessionsReleased
<1> QED
  BY <1>1, <1>2, <1>3, <1>4, <1>5, <1>6 DEF WorkerInv

LEMMA ValidatorKeepsInv ==
    ASSUME WorkerInv, At("validate"), UNCHANGED OutsideTurn,
           status_has_auth_user' = status_has_auth_user, parent' = parent,
           basic_auth_count' \in Nat, cur' \in Turn, cur'.conn = cur.conn,
           \/ cur'.stage = "page" /\ Admitted(cur')
           \/ cur'.stage = "done" /\ Answered(cur'),
           CountKept', Throttled'
    PROVE  WorkerInv'
<1>0. /\ cur # NULL /\ cur.stage = "validate" /\ cur' # NULL /\ Req' = Req
      /\ conn' = conn /\ request' = request /\ queue' = queue /\ counters' = counters
      /\ config' = config /\ refused' = refused /\ strays' = strays
      /\ reloads' = reloads /\ lost' = lost
  BY FieldsOfTurn DEF At, OutsideTurn, Req
<1>1. TypeOK'
  BY <1>0 DEF WorkerInv, TypeOK
<1>2. WaitingOnce'
  BY <1>0 DEF WorkerInv, WaitingOnce
<1>3. TurnAsMeant'
  <2>1. Loss' = Loss /\ Validated' = Validated
    BY <1>0 DEF Loss, Validated, Configured
  <2>2. CASE cur'.stage = "page" /\ Admitted(cur')
    <3>1. Admitted(cur)'
      BY <1>0, <2>1, <2>2 DEF Admitted
    <3> QED
      BY <1>0, <2>2, <3>1 DEF TurnAsMeant, At
  <2>3. CASE cur'.stage = "done" /\ Answered(cur')
    <3>1. Answered(cur)'
      BY <2>1, <2>3 DEF Answered, FreeExtra
    <3> QED
      BY <1>0, <2>3, <3>1 DEF TurnAsMeant, At
  <2> QED
    BY <2>2, <2>3
<1>4. CountsConnected'
  <2>1. Connected' = Connected
    BY <1>0 DEF Connected
  <2> QED
    BY <1>0, <2>1 DEF WorkerInv, CountsConnected
<1>5. SessionsReleased'
  BY <1>0 DEF WorkerInv, SessionsReleased
<1> QED
  BY <1>1, <1>2, <1>3, <1>4, <1>5 DEF WorkerInv

\* A refusal before anything but a blank hdlr_extra is there.
LEMMA RefuseAnswers ==
    ASSUME NEW t \in Turn, t.codes = <<>>, t.extra \in {NULL, Blank}, NEW code \in Int
    PROVE  LET r == Refuse(t, code) IN
           /\ r \in Turn /\ r.conn = t.conn /\ r.stage = "done" /\ r.pause = t.pause
           /\ r.codes = <<code>> /\ Len(r.codes) = 1
           /\ FreeExtra(r).lost = t.lost
<1> DEFINE p == ReportAndRelease(t, code)
           r == ToDone(p)
<1>1. SameTurn(p, t) /\ p.extra = NULL /\ p.codes = Append(<<>>, code) /\ p.lost = t.lost
  BY ReportLeavesNothing
<1>2. r = Refuse(t, code)
  BY Zenon DEF Refuse, p, r
<1> HIDE DEF p
<1>3. /\ r \in Turn /\ r.conn = t.conn /\ r.stage = "done" /\ r.pause = t.pause
      /\ r.codes = Append(<<>>, code) /\ r.extra = NULL /\ r.lost = t.lost
  BY <1>1, StageSet DEF SameTurn
<1> HIDE DEF r
<1>4. FreeExtra(r).lost = t.lost
  <2>1. FreeExtra(r).lost = r.lost \cup {k \in {"principal"} : r.extra # NULL /\ r.extra.principal}
    BY <1>3, FreeLoses
  <2> QED
    BY <1>3, <2>1
<1>5. Append(<<>>, code) = <<code>> /\ Len(<<code>>) = 1
  OBVIOUS
<1> QED
  BY <1>2, <1>3, <1>4, <1>5

LEMMA IdentifiedHas ==
    ASSUME NEW t \in Turn, t.extra = Blank
    PROVE  LET r == Identified(t) IN
           /\ r \in Turn /\ r.conn = t.conn /\ r.stage = "page" /\ r.pause = t.pause
           /\ r.codes = t.codes /\ r.lost = t.lost
           /\ r.extra = [object_id |-> 1, principal |-> TRUE, session |-> FALSE]
<1> DEFINE x == [object_id |-> 1, principal |-> TRUE, session |-> t.extra.session]
           e == [t EXCEPT !.extra = x]
<1>0. x = [object_id |-> 1, principal |-> TRUE, session |-> FALSE] /\ x \in RequestData
  BY DEF Blank, RequestData
<1> HIDE DEF x
<1>1. /\ e.conn = t.conn /\ e.pause = t.pause /\ e.codes = t.codes /\ e.lost = t.lost
      /\ e.extra = [object_id |-> 1, principal |-> TRUE, session |-> FALSE]
  BY <1>0 DEF Turn
<1>2. e \in Turn
  BY <1>0 DEF Turn
<1>3. Identified(t) = [e EXCEPT !.stage = "page"]
  BY Zenon DEF Identified, ToPage, x
<1> HIDE DEF e
<1> QED
  BY <1>1, <1>2, <1>3 DEF Turn

LEMMA AuthBasicKeepsInv ==
    ASSUME WorkerInv, AuthBasic, ~Ended
    PROVE  WorkerInv'
<1> DEFINE t == WithExtra(cur)
           p == [t EXCEPT !.pause = Pause, !.lost = @ \cup Decoded]
<1>0. /\ At("validate") /\ Guard(Req.path) = "auth_basic" /\ UNCHANGED OutsideTurn
      /\ status_has_auth_user' = status_has_auth_user /\ parent' = parent
      /\ cur # NULL /\ cur.stage = "validate" /\ cur \in Turn /\ Untouched(cur)
      /\ basic_auth_count = refused /\ refused \in Nat
  <2>1. At("validate") /\ Guard(Req.path) = "auth_basic" /\ cur # NULL /\ cur.stage = "validate"
    BY DEF AuthBasic, At
  <2>2. cur \in Turn /\ Untouched(cur)
    BY <2>1, TurnOfARequest DEF WorkerInv, TurnAsMeant
  <2>3. basic_auth_count = refused /\ refused \in Nat
    BY <2>1 DEF WorkerInv, CountKept, BasicTurn, TypeOK
  <2>4. Elsewhere
    BY <2>1, DeathsAreNamed DEF AuthBasic
  <2> QED
    BY <2>1, <2>2, <2>3, <2>4 DEF Elsewhere
<1>1. /\ t \in Turn /\ t.conn = cur.conn /\ t.pause = 0 /\ t.extra = Blank
      /\ t.codes = <<>> /\ t.lost = {}
  BY <1>0, WithExtraHas DEF SameTurn, Untouched
<1>2. /\ p \in Turn /\ p.conn = cur.conn /\ p.pause = Pause /\ p.extra = Blank
      /\ p.codes = <<>> /\ p.lost = Decoded
  <2>1. Pause \in {0, 1, 5}
    BY DEF Pause
  <2>2. Decoded \in SUBSET {"session", "principal", "decoded"} /\ t.lost \cup Decoded = Decoded
    BY <1>1 DEF Decoded
  <2> HIDE DEF t
  <2> QED
    BY <1>1, <2>1, <2>2 DEF Turn
<1>3. Pause = IF refused >= SlowerFrom THEN 5 ELSE IF refused >= SlowFrom THEN 1 ELSE 0
  BY <1>0 DEF Pause
<1>4. Req' = Req \/ cur'.conn # cur.conn
  BY <1>0 DEF Req, OutsideTurn
<1>5. config' = config /\ refused' = refused
  BY <1>0 DEF OutsideTurn
<1>6. CASE ~Configured /\ cur' = Refuse(t, 404) /\ UNCHANGED basic_auth_count
  <2>1. /\ cur' \in Turn /\ cur'.conn = cur.conn /\ cur'.stage = "done"
        /\ Len(cur'.codes) = 1 /\ FreeExtra(cur').lost = {}
    <3> HIDE DEF t
    <3> QED
      BY <1>1, <1>6, RefuseAnswers
  <2>2. Loss = {}
    BY <1>0, <1>6 DEF Loss, Validated
  <2>3. Answered(cur')
    BY <2>1, <2>2 DEF Answered
  <2>4. CountKept' /\ Throttled'
    BY <1>0, <1>5, <1>6 DEF CountKept, Throttled, BasicTurn, Configured
  <2> QED
    BY <1>0, <1>6, <2>1, <2>3, <2>4, ValidatorKeepsInv
<1>7. CASE Configured /\ ~http_basic_auth /\ cur' = Refuse(p, 401) /\ basic_auth_count' = Counted
  <2>1. /\ cur' \in Turn /\ cur'.conn = cur.conn /\ cur'.stage = "done" /\ cur'.pause = Pause
        /\ cur'.codes = <<401>> /\ Len(cur'.codes) = 1 /\ FreeExtra(cur').lost = Decoded
    <3> HIDE DEF p
    <3> QED
      BY <1>2, <1>7, RefuseAnswers
  <2>2. Loss = Decoded
    BY <1>0, <1>7 DEF Loss, Validated, Decoded, http_basic_auth
  <2>3. Answered(cur')
    BY <2>1, <2>2 DEF Answered
  <2>4. basic_auth_count' = refused + 1
    BY <1>0, <1>7 DEF Counted
  <2>5. CountKept' /\ Throttled'
    <3>1. cur' # NULL /\ Req' = Req
      BY <1>4, <2>1, FieldsOfTurn
    <3> QED
      BY <1>0, <1>3, <1>5, <1>7, <2>1, <2>4, <3>1 DEF CountKept, Throttled, BasicTurn, Configured
  <2> QED
    BY <1>0, <1>7, <2>1, <2>3, <2>4, <2>5, ValidatorKeepsInv
<1>8. CASE Configured /\ http_basic_auth /\ cur' = Identified(p) /\ basic_auth_count' = 0
  <2>1. /\ cur' \in Turn /\ cur'.conn = cur.conn /\ cur'.stage = "page" /\ cur'.pause = Pause
        /\ cur'.codes = <<>> /\ cur'.lost = Decoded
        /\ cur'.extra = [object_id |-> 1, principal |-> TRUE, session |-> FALSE]
    <3> HIDE DEF p
    <3> QED
      BY <1>2, <1>8, IdentifiedHas
  <2>2. Admitted(cur')
    BY <1>0, <1>8, <2>1 DEF Admitted, Validated, Decoded, http_basic_auth
  <2>3. CountKept' /\ Throttled'
    <3>1. cur' # NULL /\ Req' = Req
      BY <1>4, <2>1, FieldsOfTurn
    <3>2. cur'.codes # <<401>>
      BY <2>1
    <3> QED
      BY <1>0, <1>3, <1>5, <1>8, <2>1, <3>1, <3>2 DEF CountKept, Throttled, BasicTurn, Configured
  <2> QED
    BY <1>0, <1>8, <2>1, <2>2, <2>3, ValidatorKeepsInv
<1> QED
  BY <1>0, <1>6, <1>7, <1>8, DeathsAreNamed DEF AuthBasic

LEMMA DenyAnswers ==
    ASSUME NEW t \in Turn, t.codes = <<>>, t.extra \in {NULL, Blank}
    PROVE  LET r == Deny(t) IN
           /\ r \in Turn /\ r.conn = t.conn /\ r.stage = "done" /\ r.pause = t.pause
           /\ r.codes = <<403>> /\ Len(r.codes) = 1 /\ FreeExtra(r).lost = t.lost
<1> DEFINE p == Respond(t, 403)
           r == ToDone(p)
<1>1. SameTurn(p, t) /\ p.extra = t.extra /\ p.codes = Append(<<>>, 403) /\ p.lost = t.lost
  BY RespondOnce
<1>2. r = Deny(t)
  BY Zenon DEF Deny, p, r
<1> HIDE DEF p
<1>3. /\ r \in Turn /\ r.conn = t.conn /\ r.stage = "done" /\ r.pause = t.pause
      /\ r.codes = Append(<<>>, 403) /\ r.extra = t.extra /\ r.lost = t.lost
  BY <1>1, StageSet DEF SameTurn
<1> HIDE DEF r
<1>4. FreeExtra(r).lost = t.lost
  <2>1. r.extra # NULL => r.extra.session = FALSE /\ r.extra.principal = FALSE
    BY <1>3 DEF Blank
  <2>2. FreeExtra(r).lost = r.lost \cup {k \in {"principal"} : r.extra # NULL /\ r.extra.principal}
    BY <1>3, <2>1, FreeLoses
  <2> QED
    BY <1>3, <2>1, <2>2
<1>5. Append(<<>>, 403) = <<403>> /\ Len(<<403>>) = 1
  OBVIOUS
<1> QED
  BY <1>2, <1>3, <1>4, <1>5

LEMMA AuthJwtKeepsInv ==
    ASSUME WorkerInv, AuthJwt, ~Ended
    PROVE  WorkerInv'
<1> DEFINE t == WithExtra(cur)
<1>0. /\ At("validate") /\ Guard(Req.path) = "auth_jwt" /\ UNCHANGED OutsideTurn
      /\ status_has_auth_user' = status_has_auth_user /\ parent' = parent
      /\ basic_auth_count' = basic_auth_count /\ basic_auth_count \in Nat
      /\ cur # NULL /\ cur \in Turn /\ Untouched(cur) /\ basic_auth_count = refused
  <2>1. At("validate") /\ cur # NULL /\ cur.stage = "validate"
    BY DEF AuthJwt, At
  <2>2. cur \in Turn /\ Untouched(cur)
    BY <2>1, TurnOfARequest DEF WorkerInv, TurnAsMeant
  <2>3. basic_auth_count = refused /\ basic_auth_count \in Nat
    BY <2>1 DEF WorkerInv, CountKept, BasicTurn, TypeOK
  <2>4. OnlyTurn /\ Guard(Req.path) = "auth_jwt"
    BY DeathsAreNamed DEF AuthJwt
  <2> QED
    BY <2>1, <2>2, <2>3, <2>4 DEF OnlyTurn, Elsewhere
<1>1. /\ t \in Turn /\ t.conn = cur.conn /\ t.extra = Blank /\ t.codes = <<>> /\ t.lost = {}
  BY <1>0, WithExtraHas DEF SameTurn, Untouched
<1>2. (CountKept' /\ Throttled') \/ cur'.conn # cur.conn
  <2> SUFFICES ASSUME cur'.conn = cur.conn PROVE CountKept' /\ Throttled'
    OBVIOUS
  <2>1. Req' = Req /\ refused' = refused
    BY <1>0 DEF Req, OutsideTurn
  <2> QED
    BY <1>0, <2>1 DEF CountKept, Throttled, BasicTurn
<1>3. CASE /\ Req.header # "right"
           /\ \/ cur' = Deny(cur)
              \/ cur' = Deny(t)
  <2>1. /\ cur' \in Turn /\ cur'.conn = cur.conn /\ cur'.stage = "done"
        /\ Len(cur'.codes) = 1 /\ FreeExtra(cur').lost = {}
    <3> HIDE DEF t
    <3> QED
      BY <1>0, <1>1, <1>3, DenyAnswers DEF Untouched
  <2>2. Loss = {}
    BY <1>0, <1>3 DEF Loss, Validated
  <2>3. Answered(cur')
    BY <2>1, <2>2 DEF Answered
  <2> QED
    BY <1>0, <1>2, <2>1, <2>3, ValidatorKeepsInv
<1>4. CASE Req.header = "right" /\ cur' = Identified(t)
  <2>1. /\ cur' \in Turn /\ cur'.conn = cur.conn /\ cur'.stage = "page"
        /\ cur'.codes = <<>> /\ cur'.lost = {}
        /\ cur'.extra = [object_id |-> 1, principal |-> TRUE, session |-> FALSE]
    <3> HIDE DEF t
    <3> QED
      BY <1>1, <1>4, IdentifiedHas
  <2>2. Admitted(cur')
    BY <1>0, <1>4, <2>1 DEF Admitted, Validated
  <2> QED
    BY <1>0, <1>2, <2>1, <2>2, ValidatorKeepsInv
<1> QED
  <2>1. \/ Req.header # "right" /\ cur' = Deny(cur)
        \/ Req.header # "right" /\ cur' = Deny(t)
        \/ Req.header = "right" /\ cur' = Identified(t)
    BY <1>0, DeathsAreNamed DEF AuthJwt
  <2> QED
    BY <1>3, <1>4, <2>1

\* The oldest request gets its turn.
LEMMA TakeKeepsInv ==
    ASSUME WorkerInv, Take
    PROVE  WorkerInv'
<1> DEFINE c == Head(queue)
           g == Guard(request[c].path)
<1>1. /\ cur = NULL /\ parent # "stopped" /\ queue \in Seq(Conns) /\ queue # <<>>
      /\ queue' = Tail(queue)
      /\ cur' = [conn |-> c, extra |-> NULL, codes |-> <<>>, lost |-> {}, pause |-> 0,
                 stage |-> IF g = "none" THEN "page" ELSE "validate"]
      /\ UNCHANGED <<conn, request, counters, lost, parent, refused, strays, reloads>>
      /\ UNCHANGED <<config, basic_auth_count, status_has_auth_user>>
  BY DEF Take, Statics, WorkerInv, TypeOK
<1>2. /\ Len(queue) \in Nat /\ Len(queue) >= 1 /\ c = queue[1] /\ c \in Conns
      /\ Tail(queue) \in Seq(Conns) /\ Len(Tail(queue)) = Len(queue) - 1
      /\ \A i \in 1..Len(Tail(queue)) : Tail(queue)[i] = queue[i + 1]
  BY <1>1
<1>3. cur' \in Turn /\ cur' # NULL
  <2>1. <<>> \in Seq(Int) /\ {} \in SUBSET {"session", "principal", "decoded"}
    OBVIOUS
  <2>2. cur' \in Turn
    BY <1>1, <1>2, <2>1 DEF Turn
  <2> QED
    BY <2>2, FieldsOfTurn
<1>4. TypeOK'
  BY <1>1, <1>2, <1>3 DEF WorkerInv, TypeOK
<1>5. WaitingOnce'
  <2>1. \A i \in 1..Len(queue') : i + 1 \in 1..Len(queue) /\ queue'[i] = queue[i + 1]
    BY <1>1, <1>2
  <2>2. \A i \in 1..Len(queue') : conn'[queue'[i]] = "waiting"
    BY <1>1, <2>1 DEF WorkerInv, WaitingOnce
  <2>3. \A i, j \in 1..Len(queue') : queue'[i] = queue'[j] => i = j
    <3> SUFFICES ASSUME NEW i \in 1..Len(queue'), NEW j \in 1..Len(queue'), queue'[i] = queue'[j]
                 PROVE  i = j
      OBVIOUS
    <3>1. i + 1 = j + 1
      BY <2>1 DEF WorkerInv, WaitingOnce
    <3>2. i \in Int /\ j \in Int
      BY <1>1, <1>2
    <3> QED
      BY <3>1, <3>2
  <2>4. \A i \in 1..Len(queue') : queue'[i] # c
    <3> SUFFICES ASSUME NEW i \in 1..Len(queue'), queue[i + 1] = queue[1]
                 PROVE  FALSE
      BY <1>2, <2>1
    <3>1. i + 1 = 1
      BY <1>2, <2>1 DEF WorkerInv, WaitingOnce
    <3>2. i \in Int /\ i >= 1
      BY <1>1, <1>2
    <3> QED
      BY <3>1, <3>2
  <2>5. conn'[c] = "waiting"
    BY <1>1, <1>2 DEF WorkerInv, WaitingOnce
  <2>6. cur'.conn = c
    BY <1>1
  <2> QED
    BY <1>1, <2>2, <2>3, <2>4, <2>5, <2>6 DEF WorkerInv, WaitingOnce
<1>6. Req' = request[c] /\ cur'.conn = c
  BY <1>1 DEF Req
<1>7. TurnAsMeant'
  <2>1. CASE g = "none"
    <3>1. cur'.stage = "page" /\ Admitted(cur)'
      BY <1>1, <1>6, <2>1 DEF Admitted
    <3> QED
      BY <3>1 DEF TurnAsMeant, At
  <2>2. CASE g # "none"
    <3>1. cur'.stage = "validate" /\ Untouched(cur)'
      BY <1>1, <2>2 DEF Untouched
    <3> QED
      BY <1>6, <2>2, <3>1 DEF TurnAsMeant, At
  <2> QED
    BY <2>1, <2>2
<1>8. CountKept' /\ Throttled'
  <2>1. ~BasicTurn'
    BY <1>1, <1>6 DEF BasicTurn
  <2>2. basic_auth_count = refused
    BY <1>1 DEF WorkerInv, CountKept, BasicTurn
  <2> QED
    BY <1>1, <2>1, <2>2 DEF CountKept, Throttled, BasicTurn
<1>9. CountsConnected' /\ SessionsReleased'
  BY <1>1 DEF WorkerInv, CountsConnected, Connected, SessionsReleased
<1> QED
  BY <1>4, <1>5, <1>7, <1>8, <1>9 DEF WorkerInv

\* Where the active counter stands after connections have come or gone.
LEMMA CounterMoves ==
    ASSUME NEW n \in Int, NEW d \in Int, NEW active, active = n % Width
    PROVE  (active + d) % Width = (n + d) % Width
BY WidthIsPositive, WrapsWhenever

LEMMA FinishKeepsInv ==
    ASSUME WorkerInv, Finish
    PROVE  WorkerInv'
<1> DEFINE c == cur.conn
           state == CASE cur.codes = <<>> -> "hung" [] cur.codes = <<101>> -> "socket"
                      [] OTHER -> "closed"
<1>1. /\ cur # NULL /\ cur.stage = "done" /\ cur \in Turn /\ c \in Conns
      /\ Answered(cur) /\ parent # "stopped" /\ conn[c] = "waiting"
  <2>1. cur # NULL /\ cur.stage = "done"
    BY DEF Finish, At
  <2>2. cur \in Turn /\ c \in Conns
    BY <2>1, TurnOfARequest DEF WorkerInv
  <2> QED
    BY <2>1, <2>2 DEF WorkerInv, TurnAsMeant, At, WaitingOnce
<1>2. /\ conn' = [conn EXCEPT ![c] = state] /\ request' = [request EXCEPT ![c] = NULL]
      /\ counters' = IF state = "closed" THEN Postproc ELSE counters
      /\ lost' = lost \cup FreeExtra(cur).lost /\ refused' = Refused /\ cur' = NULL
      /\ UNCHANGED <<queue, parent, strays, reloads>>
      /\ UNCHANGED <<config, basic_auth_count, status_has_auth_user>>
  BY DEF Finish, Statics
<1>3. state \in {"hung", "socket", "closed"}
  OBVIOUS
<1> HIDE DEF state
<1>4. TypeOK'
  <2>1. conn' \in [Conns -> {"closed", "open", "waiting", "hung", "socket"}]
        /\ request' \in [Conns -> Requests \cup {NULL}]
    BY <1>1, <1>2, <1>3 DEF WorkerInv, TypeOK
  <2>2. counters' \in [req_count : 0..(Width - 1), conn_active : 0..(Width - 1)]
    <3>1. counters \in [req_count : 0..(Width - 1), conn_active : 0..(Width - 1)]
      BY DEF WorkerInv, TypeOK
    <3>2. (counters.conn_active - 1) % Width \in 0..(Width - 1)
      BY <3>1, WidthIsPositive
    <3> QED
      BY <1>2, <3>1, <3>2 DEF Postproc
  <2>3. lost' \subseteq {"session", "principal", "decoded"}
    <3>1. Loss \subseteq {"session", "principal", "decoded"}
      BY DEF Loss
    <3> QED
      BY <1>1, <1>2, <3>1 DEF WorkerInv, TypeOK, Answered
  <2>4. refused' \in Nat
    BY <1>2 DEF Refused, WorkerInv, TypeOK
  <2> QED
    BY <1>2, <2>1, <2>2, <2>3, <2>4 DEF WorkerInv, TypeOK
<1>5. WaitingOnce'
  <2>1. \A d \in Conns : conn'[d] = "waiting" => d # c /\ conn[d] = "waiting"
    BY <1>1, <1>2, <1>3 DEF WorkerInv, TypeOK
  <2>2. \A d \in Conns : d # c => conn'[d] = conn[d] /\ request'[d] = request[d]
    BY <1>2 DEF WorkerInv, TypeOK
  <2>3. \A i \in 1..Len(queue) : queue[i] \in Conns /\ queue[i] # c
    BY <1>1 DEF WorkerInv, TypeOK, WaitingOnce
  <2> QED
    BY <1>2, <2>1, <2>2, <2>3 DEF WorkerInv, WaitingOnce
<1>6. TurnAsMeant'
  BY <1>2 DEF TurnAsMeant, At
<1>7. CountKept' /\ Throttled'
  <2>1. basic_auth_count = Refused
    BY <1>1 DEF WorkerInv, CountKept, BasicTurn, Refused
  <2> QED
    BY <1>2, <2>1 DEF CountKept, Throttled, BasicTurn
<1>8. CountsConnected'
  <2>0. IsFiniteSet(Connected) /\ counters.conn_active = (Cardinality(Connected) + strays) % Width
        /\ counters \in [req_count : 0..(Width - 1), conn_active : 0..(Width - 1)] /\ strays \in Int
    BY <1>1 DEF WorkerInv, CountsConnected, TypeOK
  <2>1. CASE state = "closed"
    <3>1. Connected' = Connected \ {c} /\ c \in Connected
      BY <1>1, <1>2, <2>1 DEF Connected, WorkerInv, TypeOK
    <3>2. IsFiniteSet(Connected') /\ Cardinality(Connected') = Cardinality(Connected) - 1
      BY <2>0, <3>1, FS_RemoveElement
    <3>3. counters'.conn_active = (counters.conn_active + (-1)) % Width
      BY <1>2, <2>0, <2>1 DEF Postproc
    <3>4. Cardinality(Connected) \in Nat
      BY <2>0, FS_CardinalityType
    <3>5. counters'.conn_active = ((Cardinality(Connected) + strays) + (-1)) % Width
      BY <2>0, <3>3, <3>4, CounterMoves
    <3>6. (Cardinality(Connected) + strays) + (-1) = Cardinality(Connected') + strays
      BY <2>0, <3>2, <3>4
    <3> QED
      BY <1>2, <3>2, <3>5, <3>6 DEF CountsConnected
  <2>2. CASE state # "closed"
    <3>1. Connected' = Connected
      BY <1>1, <1>2, <1>3, <2>2 DEF Connected, WorkerInv, TypeOK
    <3> QED
      BY <1>2, <2>0, <2>2, <3>1 DEF CountsConnected
  <2> QED
    BY <2>1, <2>2
<1>9. SessionsReleased'
  BY <1>1, <1>2 DEF WorkerInv, SessionsReleased, Answered, Loss
<1> QED
  BY <1>4, <1>5, <1>6, <1>7, <1>8, <1>9 DEF WorkerInv

-----------------------------------------------------------------------------
(* The steps between turns keep it, too.                                   *)

\* What holds of the turn while there is none.
LEMMA NoTurn ==
    ASSUME cur' = NULL, basic_auth_count' = refused'
    PROVE  TurnAsMeant' /\ CountKept' /\ Throttled'
BY DEF TurnAsMeant, At, CountKept, Throttled, BasicTurn

LEMMA CountOutsideTurn ==
    ASSUME WorkerInv, cur = NULL
    PROVE  basic_auth_count = refused
BY DEF WorkerInv, CountKept, BasicTurn

LEMMA ConnectKeepsInv ==
    ASSUME WorkerInv, NEW c \in Conns, Connect(c)
    PROVE  WorkerInv'
<1>1. /\ parent # "stopped" /\ cur = NULL /\ conn[c] = "closed"
      /\ conn' = [conn EXCEPT ![c] = "open"] /\ counters' = Prelude
      /\ UNCHANGED <<request, queue, cur, lost, parent, refused, strays, reloads>>
      /\ UNCHANGED <<config, basic_auth_count, status_has_auth_user>>
  BY DEF Connect, Statics
<1>2. /\ conn \in [Conns -> {"closed", "open", "waiting", "hung", "socket"}] /\ strays \in Int
      /\ counters \in [req_count : 0..(Width - 1), conn_active : 0..(Width - 1)]
  BY DEF WorkerInv, TypeOK
<1>3. TypeOK'
  <2>1. conn' \in [Conns -> {"closed", "open", "waiting", "hung", "socket"}]
    BY <1>1, <1>2
  <2>2. (counters.req_count + 1) % Width \in 0..(Width - 1)
        /\ (counters.conn_active + 1) % Width \in 0..(Width - 1)
    BY <1>2, WidthIsPositive
  <2>3. counters' \in [req_count : 0..(Width - 1), conn_active : 0..(Width - 1)]
    BY <1>1, <2>2 DEF Prelude
  <2> QED
    BY <1>1, <2>1, <2>3 DEF WorkerInv, TypeOK
<1>4. WaitingOnce'
  <2>1. \A d \in Conns : conn'[d] = "waiting" <=> conn[d] = "waiting"
    BY <1>1, <1>2
  <2>2. \A i \in 1..Len(queue) : queue[i] \in Conns
    BY DEF WorkerInv, TypeOK
  <2> QED
    BY <1>1, <2>1, <2>2 DEF WorkerInv, WaitingOnce
<1>5. CountsConnected'
  <2>1. IsFiniteSet(Connected) /\ counters.conn_active = (Cardinality(Connected) + strays) % Width
    BY <1>1 DEF WorkerInv, CountsConnected
  <2>2. Connected' = Connected \cup {c} /\ c \notin Connected
    BY <1>1, <1>2 DEF Connected
  <2>3. IsFiniteSet(Connected') /\ Cardinality(Connected') = Cardinality(Connected) + 1
    BY <2>1, <2>2, FS_AddElement
  <2>4. Cardinality(Connected) \in Nat
    BY <2>1, FS_CardinalityType
  <2>5. counters'.conn_active = (counters.conn_active + 1) % Width
    BY <1>1 DEF Prelude
  <2>6. counters'.conn_active = ((Cardinality(Connected) + strays) + 1) % Width
    BY <1>2, <2>1, <2>4, <2>5, CounterMoves
  <2>7. (Cardinality(Connected) + strays) + 1 = Cardinality(Connected') + strays
    BY <1>2, <2>3, <2>4
  <2> QED
    BY <1>1, <2>3, <2>6, <2>7 DEF CountsConnected
<1>6. TurnAsMeant' /\ CountKept' /\ Throttled'
  BY <1>1, CountOutsideTurn, NoTurn
<1>7. SessionsReleased'
  BY <1>1 DEF WorkerInv, SessionsReleased
<1> QED
  BY <1>3, <1>4, <1>5, <1>6, <1>7 DEF WorkerInv

LEMMA ReceiveKeepsInv ==
    ASSUME WorkerInv, NEW c \in Conns, NEW r \in Requests, Receive(c, r)
    PROVE  WorkerInv'
<1>1. /\ parent # "stopped" /\ cur = NULL /\ conn[c] = "open"
      /\ conn' = [conn EXCEPT ![c] = "waiting"] /\ request' = [request EXCEPT ![c] = r]
      /\ queue' = Append(queue, c)
      /\ UNCHANGED <<cur, counters, lost, parent, refused, strays, reloads>>
      /\ UNCHANGED <<config, basic_auth_count, status_has_auth_user>>
  BY DEF Receive, Statics
<1>2. /\ conn \in [Conns -> {"closed", "open", "waiting", "hung", "socket"}]
      /\ request \in [Conns -> Requests \cup {NULL}] /\ queue \in Seq(Conns)
  BY DEF WorkerInv, TypeOK
<1>3. /\ queue' \in Seq(Conns) /\ Len(queue) \in Nat /\ Len(queue') = Len(queue) + 1
      /\ queue'[Len(queue) + 1] = c /\ \A i \in 1..Len(queue) : queue'[i] = queue[i]
  BY <1>1, <1>2
<1>4. TypeOK'
  BY <1>1, <1>2, <1>3 DEF WorkerInv, TypeOK
<1>5. WaitingOnce'
  <2>1. \A i \in 1..Len(queue) : conn[queue[i]] = "waiting" /\ queue[i] # c /\ queue[i] \in Conns
    BY <1>1, <1>2 DEF WorkerInv, WaitingOnce
  <2>2. \A d \in Conns : d # c => conn'[d] = conn[d] /\ request'[d] = request[d]
    BY <1>1, <1>2
  <2>3. conn'[c] = "waiting" /\ request'[c] \in Requests
    BY <1>1, <1>2
  <2>4. \A d \in Conns : conn'[d] = "waiting" => request'[d] \in Requests
    BY <2>2, <2>3 DEF WorkerInv, WaitingOnce
  <2>5. \A i \in 1..Len(queue') : i \in 1..Len(queue) \/ i = Len(queue) + 1
    BY <1>3
  <2>6. \A i \in 1..Len(queue') : conn'[queue'[i]] = "waiting"
    BY <1>3, <2>1, <2>2, <2>3, <2>5
  <2>7. \A i, j \in 1..Len(queue') : queue'[i] = queue'[j] => i = j
    BY <1>3, <2>1, <2>5 DEF WorkerInv, WaitingOnce
  <2> QED
    BY <1>1, <2>4, <2>6, <2>7 DEF WaitingOnce
<1>6. CountsConnected'
  <2>1. Connected' = Connected
    BY <1>1, <1>2 DEF Connected
  <2> QED
    BY <1>1, <2>1 DEF WorkerInv, CountsConnected
<1>7. TurnAsMeant' /\ CountKept' /\ Throttled'
  BY <1>1, CountOutsideTurn, NoTurn
<1>8. SessionsReleased'
  BY <1>1 DEF WorkerInv, SessionsReleased
<1> QED
  BY <1>4, <1>5, <1>6, <1>7, <1>8 DEF WorkerInv

LEMMA DisconnectKeepsInv ==
    ASSUME WorkerInv, NEW c \in Conns, Disconnect(c)
    PROVE  WorkerInv'
<1>1. /\ parent # "stopped" /\ cur = NULL /\ conn[c] # "closed"
      /\ conn' = [conn EXCEPT ![c] = "closed"] /\ request' = [request EXCEPT ![c] = NULL]
      /\ queue' = RemoveFirst(queue, c)
      /\ UNCHANGED <<cur, lost, parent, refused, reloads>>
      /\ UNCHANGED <<config, basic_auth_count, status_has_auth_user>>
  BY DEF Disconnect, Statics, WithoutRequestOf
<1>2. /\ conn \in [Conns -> {"closed", "open", "waiting", "hung", "socket"}] /\ strays \in Int
      /\ request \in [Conns -> Requests \cup {NULL}] /\ queue \in Seq(Conns)
      /\ counters \in [req_count : 0..(Width - 1), conn_active : 0..(Width - 1)]
  BY DEF WorkerInv, TypeOK
<1>3. /\ queue' \in Seq(Conns)
      /\ \A i \in 1..Len(queue') : queue'[i] # c
      /\ \A i \in 1..Len(queue') : \E k \in 1..Len(queue) : queue'[i] = queue[k]
      /\ \A i, j \in 1..Len(queue') : queue'[i] = queue'[j] => i = j
  <2>1. \A i, j \in 1..Len(queue) : queue[i] = queue[j] => i = j
    BY DEF WorkerInv, WaitingOnce
  <2> DEFINE r == RemoveFirst(queue, c)
  <2>2. /\ r \in Seq(Conns)
        /\ \A i \in 1..Len(r) : r[i] # c
        /\ \A i \in 1..Len(r) : \E k \in 1..Len(queue) : r[i] = queue[k]
        /\ \A i, j \in 1..Len(r) : r[i] = r[j] => i = j
    BY <1>2, <2>1, WithoutOne
  <2>3. queue' = r
    BY <1>1
  <2> HIDE DEF r
  <2> QED
    BY <2>2, <2>3
<1>4. \/ counters' = Postproc /\ strays' = strays
      \/ counters' = counters /\ strays' = strays + 1
  BY DEF Disconnect
<1>5. TypeOK'
  <2>1. conn' \in [Conns -> {"closed", "open", "waiting", "hung", "socket"}]
        /\ request' \in [Conns -> Requests \cup {NULL}] /\ strays' \in Int
    BY <1>1, <1>2, <1>4
  <2>2. (counters.conn_active - 1) % Width \in 0..(Width - 1)
    BY <1>2, WidthIsPositive
  <2>3. counters' \in [req_count : 0..(Width - 1), conn_active : 0..(Width - 1)]
    BY <1>2, <1>4, <2>2 DEF Postproc
  <2> QED
    BY <1>1, <1>3, <2>1, <2>3 DEF WorkerInv, TypeOK
<1>6. WaitingOnce'
  <2>1. \A d \in Conns : d # c => conn'[d] = conn[d] /\ request'[d] = request[d]
    BY <1>1, <1>2
  <2>2. conn'[c] # "waiting"
    BY <1>1, <1>2
  <2>3. \A i \in 1..Len(queue') : conn'[queue'[i]] = "waiting"
    <3> SUFFICES ASSUME NEW i \in 1..Len(queue') PROVE conn'[queue'[i]] = "waiting"
      OBVIOUS
    <3>1. PICK k \in 1..Len(queue) : queue'[i] = queue[k]
      BY <1>3
    <3>2. conn[queue[k]] = "waiting" /\ queue[k] \in Conns /\ queue[k] # c
      BY <1>2, <1>3, <3>1 DEF WorkerInv, WaitingOnce
    <3> QED
      BY <2>1, <3>1, <3>2
  <2> QED
    BY <1>1, <1>3, <2>1, <2>2, <2>3 DEF WorkerInv, WaitingOnce
<1>7. CountsConnected'
  <2>1. IsFiniteSet(Connected) /\ counters.conn_active = (Cardinality(Connected) + strays) % Width
    BY <1>1 DEF WorkerInv, CountsConnected
  <2>2. Connected' = Connected \ {c} /\ c \in Connected
    BY <1>1, <1>2 DEF Connected
  <2>3. IsFiniteSet(Connected') /\ Cardinality(Connected') = Cardinality(Connected) - 1
    BY <2>1, <2>2, FS_RemoveElement
  <2>4. Cardinality(Connected) \in Nat
    BY <2>1, FS_CardinalityType
  <2>5. CASE counters' = Postproc /\ strays' = strays
    <3>1. counters'.conn_active = (counters.conn_active + (-1)) % Width
      BY <1>2, <2>5 DEF Postproc
    <3>2. counters'.conn_active = ((Cardinality(Connected) + strays) + (-1)) % Width
      BY <1>2, <2>1, <2>4, <3>1, CounterMoves
    <3>3. (Cardinality(Connected) + strays) + (-1) = Cardinality(Connected') + strays
      BY <1>2, <2>3, <2>4
    <3> QED
      BY <2>3, <2>5, <3>2, <3>3 DEF CountsConnected
  <2>6. CASE counters' = counters /\ strays' = strays + 1
    <3>1. Cardinality(Connected') + strays' = Cardinality(Connected) + strays
      BY <1>2, <2>3, <2>4, <2>6
    <3> QED
      BY <2>1, <2>3, <2>6, <3>1 DEF CountsConnected
  <2> QED
    BY <1>4, <2>5, <2>6
<1>8. TurnAsMeant' /\ CountKept' /\ Throttled'
  BY <1>1, CountOutsideTurn, NoTurn
<1>9. SessionsReleased'
  BY <1>1 DEF WorkerInv, SessionsReleased
<1> QED
  BY <1>5, <1>6, <1>7, <1>8, <1>9 DEF WorkerInv

LEMMA StopKeepsInv ==
    ASSUME WorkerInv, Stop
    PROVE  WorkerInv'
<1>1. /\ cur = NULL /\ parent' = "stopped" /\ conn' = [c \in Conns |-> "closed"]
      /\ request' = [c \in Conns |-> NULL] /\ queue' = <<>>
      /\ UNCHANGED <<cur, counters, lost, refused, strays, reloads>>
      /\ UNCHANGED <<config, basic_auth_count, status_has_auth_user>>
  BY DEF Stop, Statics
<1>2. TypeOK'
  BY <1>1 DEF WorkerInv, TypeOK
<1>3. WaitingOnce'
  <2>1. Len(queue') = 0
    BY <1>1
  <2> QED
    BY <1>1, <2>1 DEF WaitingOnce
<1>4. TurnAsMeant' /\ CountKept' /\ Throttled'
  BY <1>1, CountOutsideTurn, NoTurn
<1>5. CountsConnected' /\ SessionsReleased'
  BY <1>1 DEF WorkerInv, CountsConnected, SessionsReleased
<1> QED
  BY <1>2, <1>3, <1>4, <1>5 DEF WorkerInv

\* The counters begin anew and take the connections for gone.
LEMMA ReloadKeepsInv ==
    ASSUME WorkerInv, Reload
    PROVE  WorkerInv'
<1>1. /\ parent # "stopped" /\ cur = NULL /\ reloads < MaxReloads /\ reloads' = reloads + 1
      /\ counters' = Zero /\ config' \in Settings /\ basic_auth_count' = 0
      /\ status_has_auth_user' = 0 /\ refused' = 0 /\ strays' = -Cardinality(Connected)
      /\ UNCHANGED <<conn, request, queue, cur, lost, parent>>
  BY DEF Reload
<1>2. Connected' = Connected /\ IsFiniteSet(Connected) /\ Cardinality(Connected) \in Nat
  BY <1>1, FS_CardinalityType DEF Connected, WorkerInv, CountsConnected
<1>3. 0 % Width = 0 /\ 0 \in 0..(Width - 1)
  <2>1. 0 = Width * 0 + 0 /\ 0 \in 0..(Width - 1)
    BY WidthIsPositive
  <2> QED
    BY <2>1, WidthIsPositive, RemainderIsUnique
<1>4. TypeOK'
  <2>1. counters' \in [req_count : 0..(Width - 1), conn_active : 0..(Width - 1)]
    BY <1>1, <1>3 DEF Zero
  <2>2. config' \in Settings /\ reloads' \in 0..MaxReloads /\ strays' \in Int
    BY <1>1, <1>2, BoundAssumption DEF WorkerInv, TypeOK
  <2> QED
    BY <1>1, <2>1, <2>2 DEF WorkerInv, TypeOK
<1>5. WaitingOnce'
  BY <1>1 DEF WorkerInv, WaitingOnce
<1>6. CountsConnected'
  <2>1. Cardinality(Connected') + strays' = 0 /\ counters'.conn_active = 0
    BY <1>1, <1>2 DEF Zero
  <2> QED
    BY <1>2, <1>3, <2>1 DEF CountsConnected
<1>7. TurnAsMeant' /\ CountKept' /\ Throttled'
  BY <1>1, NoTurn
<1>8. SessionsReleased'
  BY <1>1 DEF WorkerInv, SessionsReleased
<1> QED
  BY <1>4, <1>5, <1>6, <1>7, <1>8 DEF WorkerInv

-----------------------------------------------------------------------------
(* The theorems.                                                           *)

LEMMA InitInv == Init => WorkerInv
<1> SUFFICES ASSUME Init PROVE WorkerInv
  OBVIOUS
<1>1. 0 % Width = 0 /\ 0 \in 0..(Width - 1)
  <2>1. 0 = Width * 0 + 0 /\ 0 \in 0..(Width - 1)
    BY WidthIsPositive
  <2> QED
    BY <2>1, WidthIsPositive, RemainderIsUnique
<1>2. TypeOK
  BY <1>1, BoundAssumption DEF Init, TypeOK, Zero
<1>3. WaitingOnce
  BY DEF Init, WaitingOnce
<1>4. TurnAsMeant /\ CountKept /\ Throttled
  BY DEF Init, TurnAsMeant, At, CountKept, BasicTurn, Throttled
<1>5. CountsConnected
  <2>1. Connected = {}
    BY DEF Init, Connected
  <2>2. IsFiniteSet(Connected) /\ Cardinality(Connected) + strays = 0
    BY <2>1, FS_EmptySet DEF Init
  <2> QED
    BY <1>1, <2>2 DEF Init, Zero, CountsConnected
<1>6. SessionsReleased
  BY DEF Init, SessionsReleased
<1> QED
  BY <1>2, <1>3, <1>4, <1>5, <1>6 DEF WorkerInv

\* The page actions, each with what it changes beside the request.
LEMMA PagesKeepInv ==
    ASSUME WorkerInv,
           \/ AppPlain \/ AppStatus \/ AppResource \/ AyaReadme \/ AyaReport \/ AyaShutdown
           \/ NotFound \/ EndpointCore \/ EndpointAuth \/ EndpointMsg,
           ~Ended
    PROVE  WorkerInv'
<1>0. status_has_auth_user \in {0, 1}
  BY DEF WorkerInv, TypeOK
<1>1. CASE AppPlain
  BY <1>0, <1>1, AppPlainDone, PageKeepsInv DEF AppPlain, Page, OnlyTurn, Elsewhere
<1>2. CASE AppStatus
  BY <1>2, AppStatusDone, PageKeepsInv DEF AppStatus, Page
<1>3. CASE AppResource
  BY <1>0, <1>3, AppResourceDone, PageKeepsInv DEF AppResource, Page, OnlyTurn, Elsewhere
<1>4. CASE AyaReadme
  BY <1>0, <1>4, ReportingPageDone, PageKeepsInv DEF AyaReadme, Page
<1>5. CASE AyaReport
  BY <1>0, <1>5, ReportingPageDone, PageKeepsInv DEF AyaReport, Page
<1>6. CASE AyaShutdown
  BY <1>0, <1>6, ReportingPageDone, PageKeepsInv DEF AyaShutdown, Page
<1>7. CASE NotFound
  BY <1>0, <1>7, ReportingPageDone, PageKeepsInv DEF NotFound, Page
<1>8. CASE EndpointCore
  BY <1>0, <1>8, EndpointDone, PageKeepsInv DEF EndpointCore, Page, OnlyTurn, Elsewhere
<1>9. CASE EndpointAuth
  BY <1>0, <1>9, EndpointDone, PageKeepsInv DEF EndpointAuth, Page, OnlyTurn, Elsewhere
<1>10. CASE EndpointMsg
  BY <1>0, <1>10, EndpointDone, PageKeepsInv DEF EndpointMsg, Page, OnlyTurn, Elsewhere
<1> QED
  BY <1>1, <1>2, <1>3, <1>4, <1>5, <1>6, <1>7, <1>8, <1>9, <1>10

\* Another worker begins as the first did.
LEMMA DieKeepsInv ==
    ASSUME WorkerInv, Die
    PROVE  WorkerInv'
<1>1. /\ conn' = [c \in Conns |-> "closed"] /\ request' = [c \in Conns |-> NULL]
      /\ queue' = <<>> /\ cur' = NULL /\ counters' = Zero /\ config' \in Settings
      /\ basic_auth_count' = 0 /\ status_has_auth_user' = 0 /\ lost' = {} /\ refused' = 0
      /\ strays' = 0 /\ parent' = parent /\ reloads' = reloads
  BY DEF Die
<1>2. 0 % Width = 0 /\ 0 \in 0..(Width - 1)
  <2>1. 0 = Width * 0 + 0 /\ 0 \in 0..(Width - 1)
    BY WidthIsPositive
  <2> QED
    BY <2>1, WidthIsPositive, RemainderIsUnique
<1>3. TypeOK'
  BY <1>1, <1>2 DEF WorkerInv, TypeOK, Zero
<1>4. WaitingOnce'
  <2>1. Len(queue') = 0
    BY <1>1
  <2> QED
    BY <1>1, <2>1 DEF WaitingOnce
<1>5. TurnAsMeant' /\ CountKept' /\ Throttled'
  BY <1>1, NoTurn
<1>6. CountsConnected'
  <2>1. Connected' = {}
    BY <1>1 DEF Connected
  <2>2. IsFiniteSet(Connected') /\ Cardinality(Connected') + strays' = 0
    BY <1>1, <2>1, FS_EmptySet
  <2> QED
    BY <1>1, <1>2, <2>2 DEF Zero, CountsConnected
<1>7. SessionsReleased'
  BY <1>1 DEF SessionsReleased
<1> QED
  BY <1>3, <1>4, <1>5, <1>6, <1>7 DEF WorkerInv

LEMMA NextInv == WorkerInv /\ [Next]_vars => WorkerInv'
<1> SUFFICES ASSUME WorkerInv, [Next]_vars PROVE WorkerInv'
  OBVIOUS
<1>1. ASSUME NEW c \in Conns, Connect(c) PROVE WorkerInv'
  BY <1>1, ConnectKeepsInv
<1>2. ASSUME NEW c \in Conns, Disconnect(c) PROVE WorkerInv'
  BY <1>2, DisconnectKeepsInv
<1>3. ASSUME NEW c \in Conns, NEW r \in Requests, Receive(c, r) PROVE WorkerInv'
  BY <1>3, ReceiveKeepsInv
<1>4. CASE Serve
  <2>1. CASE Ended
    BY <2>1, DieKeepsInv DEF Ended
  <2>2. CASE ~Ended
    BY <1>4, <2>2, TakeKeepsInv, AuthBasicKeepsInv, AuthJwtKeepsInv, PagesKeepInv, FinishKeepsInv
       DEF Serve
  <2> QED
    BY <2>1, <2>2
<1>5. CASE Stop
  BY <1>5, StopKeepsInv
<1>6. CASE Reload
  BY <1>6, ReloadKeepsInv
<1>7. CASE UNCHANGED vars
  BY <1>7 DEF vars, Statics, WorkerInv, TypeOK, WaitingOnce, TurnAsMeant, CountKept, Throttled,
              CountsConnected, SessionsReleased, At, Untouched, Admitted, Answered, Loss, Validated,
              BasicTurn, Connected, Req, FreeExtra, Configured
<1> QED
  BY <1>1, <1>2, <1>3, <1>4, <1>5, <1>6, <1>7 DEF Next

LEMMA SpecInv == Spec => []WorkerInv
BY InitInv, NextInv, PTL DEF Spec

\* The state keeps its shape: no counter leaves its width, and what stands in
\* Kore's list is a connection.
THEOREM WorkerTypeCorrect == Spec => []TypeOK
<1>1. WorkerInv => TypeOK
  BY DEF WorkerInv
<1> QED
  BY <1>1, SpecInv, PTL

\* Whatever requests come, in whatever order, each one that reaches its end
\* has been answered once, although route resource drops an error of its
\* controller (routes/resource.c) and every handler answers for itself.
THEOREM OneAnswerEach == Spec => []AnsweredOnce
<1>1. WorkerInv => AnsweredOnce
  BY DEF WorkerInv, TurnAsMeant, Answered, AnsweredOnce
<1> QED
  BY <1>1, SpecInv, PTL

\* No page of conf/ayahesa.conf that names an authentication runs for a
\* request that its validator has not identified.
THEOREM GuardsHold == Spec => []GuardedPage
<1>1. WorkerInv => GuardedPage
  <2> SUFFICES ASSUME WorkerInv, At("page"), Guard(Req.path) # "none"
               PROVE  Authenticated(cur)
    BY DEF GuardedPage
  <2>1. cur.extra # NULL /\ cur.extra.object_id = 1
    BY AdmittedLoss
  <2>2. cur.extra.principal
    BY AdmittedLoss, Zenon
  <2>3. cur.extra.object_id # 0
    BY <2>1
  <2> QED
    BY <2>1, <2>2, <2>3, Zenon DEF Authenticated
<1> QED
  BY <1>1, SpecInv, PTL

\* A session tree that a handler makes for one request is released with it,
\* however many requests there are.
THEOREM NoSessionLost == Spec => []SessionsReleased
<1>1. WorkerInv => SessionsReleased
  BY DEF WorkerInv
<1> QED
  BY <1>1, SpecInv, PTL

\* For any two limits, an attempt pauses as the refusals before it in a row
\* demand, also when a reload, another path or a disconnect comes between.
THEOREM RefusalsSlowDown == Spec => []Throttled
<1>1. WorkerInv => Throttled
  BY DEF WorkerInv
<1> QED
  BY <1>1, SpecInv, PTL

\* For counters of any width and any number of reloads, the active counter is
\* off by the strays and by nothing else.
THEOREM ActiveCounted == Spec => []ActiveCount
<1>1. WorkerInv => ActiveCount
  BY DEF WorkerInv, CountsConnected, ActiveCount
<1> QED
  BY <1>1, SpecInv, PTL

\* The end of a request loses exactly the principal that a validator stored
\* and no status page freed, and credentials that compared unequal.
THEOREM LossAsNamed == Spec => LossIsExact
<1>1. WorkerInv /\ Finish => FreeExtra(cur).lost = Loss
  BY DEF WorkerInv, TurnAsMeant, Finish, At, Answered
<1>2. WorkerInv /\ [Next]_vars =>
        [Finish => FreeExtra(cur).lost =
           {k \in {"principal"} : /\ Guard(Req.path) # "none" /\ Validated
                                  /\ ~(Req.path = "/status" /\ Req.method = "GET")}
           \cup {k \in {"decoded"} : /\ Guard(Req.path) = "auth_basic" /\ Configured
                                     /\ Req.header = "near"}]_vars
  BY <1>1 DEF Loss
<1> QED
  BY <1>2, SpecInv, PTL DEF Spec, LossIsExact

\* The flag of the status page, which nothing resets, never answers for the
\* request before: no request reaches the page without a principal.
THEOREM StatusFlagIsHonest == Spec => StatusFlagHonest
<1> DEFINE Shown == cur' # NULL /\ cur'.codes = <<200>>
<1>1. ASSUME WorkerInv, AppStatus, Shown
      PROVE  status_has_auth_user' = 1 /\ cur.extra # NULL /\ cur.extra.principal
  <2>0. ~Ended
    BY <1>1, Zenon DEF Ended, Die
  <2>1. At("page") /\ Req.path = "/status" /\ Guard(Req.path) # "none"
    BY <1>1, GuardOf DEF AppStatus, Page
  <2>2. cur.extra # NULL /\ cur.extra.principal
    BY <1>1, <2>1, AdmittedLoss, Zenon
  <2>3. Req.method = "GET"
    <3> SUFFICES ASSUME Req.method # "GET" PROVE FALSE
      OBVIOUS
    <3>1. cur' = ToDone(Respond(cur, 405))
      BY <1>1, Zenon DEF AppStatus, Die
    <3>2. cur \in Turn /\ cur.codes = <<>>
      BY <1>1, <2>1, AdmittedLoss
    <3>3. cur'.codes = Append(<<>>, 405)
      BY <3>1, <3>2 DEF ToDone, Respond, Turn
    <3>4. Append(<<>>, 405) = <<405>> /\ <<405>>[1] # <<200>>[1]
      OBVIOUS
    <3> QED
      BY <1>1, <3>3, <3>4
  <2> QED
    BY <1>1, <2>0, <2>2, <2>3, AppStatusDone
<1>2. WorkerInv /\ [Next]_vars =>
        [AppStatus /\ cur' # NULL /\ cur'.codes = <<200>> =>
            (status_has_auth_user' = 1 <=> cur.extra # NULL /\ cur.extra.principal)]_vars
  BY <1>1, Zenon
<1> QED
  BY <1>2, SpecInv, PTL DEF Spec, StatusFlagHonest

-----------------------------------------------------------------------------
(* Worker implements Server.                                               *)

\* Who has the turn stands at the head of the line.
LEMMA HeadOfLine ==
    ASSUME NEW c \in Conns, NEW q \in Seq(Conns)
    PROVE  LET l == <<c>> \o q IN l # <<>> /\ Head(l) = c /\ Tail(l) = q
<1> DEFINE l == <<c>> \o q
<1>1. l \in Seq(Conns) /\ Len(l) = 1 + Len(q) /\ Len(q) \in Nat
  OBVIOUS
<1>2. \A i \in 1..Len(l) : l[i] = IF i <= 1 THEN c ELSE q[i - 1]
  OBVIOUS
<1> HIDE DEF l
<1>3. l # <<>> /\ Head(l) = c
  BY <1>1, <1>2
<1>4. Tail(l) \in Seq(Conns) /\ Len(Tail(l)) = Len(q) /\ \A i \in 1..Len(q) : Tail(l)[i] = l[i + 1]
  BY <1>1
<1>5. \A i \in 1..Len(q) : Tail(l)[i] = q[i]
  <2> SUFFICES ASSUME NEW i \in 1..Len(q) PROVE Tail(l)[i] = q[i]
    OBVIOUS
  <2>1. i + 1 \in 1..Len(l) /\ ~(i + 1 <= 1) /\ (i + 1) - 1 = i
    BY <1>1
  <2>2. l[i + 1] = q[(i + 1) - 1]
    BY <1>2, <2>1
  <2> QED
    BY <1>4, <2>1, <2>2
<1>6. Tail(l) = q
  BY <1>4, <1>5
<1> QED
  BY <1>3, <1>6 DEF l

LEMMA WholeLine ==
    ASSUME NEW q \in Seq(Conns), q # <<>>
    PROVE  <<Head(q)>> \o Tail(q) = q
<1> DEFINE l == <<Head(q)>> \o Tail(q)
<1>1. /\ Head(q) \in Conns /\ Head(q) = q[1] /\ Len(q) \in Nat \ {0}
      /\ Tail(q) \in Seq(Conns) /\ Len(Tail(q)) = Len(q) - 1
      /\ \A i \in 1..(Len(q) - 1) : Tail(q)[i] = q[i + 1]
  OBVIOUS
<1>2. l \in Seq(Conns) /\ Len(l) = Len(q)
  BY <1>1
<1>3. \A i \in 1..Len(q) : l[i] = IF i <= 1 THEN Head(q) ELSE Tail(q)[i - 1]
  BY <1>1
<1> HIDE DEF l
<1>4. ASSUME NEW i \in 1..Len(q) PROVE l[i] = q[i]
  <2>1. CASE i = 1
    BY <1>1, <1>3, <2>1
  <2>2. CASE i # 1
    <3>1. ~(i <= 1) /\ i - 1 \in 1..(Len(q) - 1) /\ (i - 1) + 1 = i
      BY <1>1, <2>2
    <3>2. Tail(q)[i - 1] = q[(i - 1) + 1]
      BY <1>1, <3>1
    <3> QED
      BY <1>3, <3>1, <3>2
  <2> QED
    BY <2>1, <2>2
<1> QED
  BY <1>2, <1>4 DEF l

\* The line and the answers while a request has its turn, and while none has.
LEMMA TurnInLine ==
    ASSUME WorkerInv, cur # NULL
    PROVE  /\ Line = <<cur.conn>> \o queue /\ Line # <<>> /\ Head(Line) = cur.conn
           /\ Tail(Line) = queue /\ Codes = cur.codes
           /\ request[Head(Line)] = Req /\ Req \in Requests /\ parent # "stopped"
<1>1. cur.conn \in Conns /\ queue \in Seq(Conns)
  BY TurnOfARequest DEF WorkerInv, TypeOK
<1>2. Line = <<cur.conn>> \o queue /\ Codes = cur.codes
  BY DEF Line, Codes
<1>3. Line # <<>> /\ Head(Line) = cur.conn /\ Tail(Line) = queue
  BY <1>1, <1>2, HeadOfLine
<1>4. parent # "stopped" /\ Req \in Requests
  BY <1>1 DEF WorkerInv, WaitingOnce, Req
<1> QED
  BY <1>2, <1>3, <1>4 DEF Req

LEMMA NobodysTurn ==
    ASSUME cur = NULL
    PROVE  Line = queue /\ Codes = <<>>
BY DEF Line, Codes

\* The turn goes on, and the client has not been answered.
LEMMA TurnGoesOn ==
    ASSUME WorkerInv, cur # NULL, cur' \in Turn, cur'.conn = cur.conn, cur'.codes = cur.codes,
           UNCHANGED <<conn, request, queue, parent>>
    PROVE  UNCHANGED Clients!vars
<1>1. cur' # NULL
  BY FieldsOfTurn
<1>2. Line' = Line /\ Codes' = Codes
  BY <1>1 DEF Line, Codes
<1> QED
  BY <1>2 DEF Clients!vars

\* One answer, by the validator, by Kore for it, or by the page.
LEMMA OneAnswerIs ==
    ASSUME WorkerInv, cur # NULL, cur.codes = <<>>,
           cur' \in Turn, cur'.conn = cur.conn, Len(cur'.codes) = 1,
           Guard(Req.path) # "none" /\ Req.header # "right" => cur'.codes[1] \in {401, 403, 404},
           UNCHANGED <<conn, request, queue>>,
           parent' = IF Req.path = "/shutdown" THEN "told" ELSE parent
    PROVE  Clients!Answer
<1>1. cur' # NULL /\ cur'.codes \in Seq(Int)
  BY FieldsOfTurn
<1>2. Line' = Line /\ Codes' = cur'.codes
  BY <1>1 DEF Line, Codes
<1>3. /\ Line # <<>> /\ request[Head(Line)] = Req /\ Req \in Requests /\ Codes = <<>>
      /\ parent # "stopped"
  BY TurnInLine
<1>4. Clients!Idle
  BY <1>3 DEF Clients!Idle
<1> HIDE DEF Line, Codes
<1> QED
  BY <1>1, <1>2, <1>3, <1>4 DEF Clients!Answer

\* A page answers; a guarded one is not asked by who has no credentials.
LEMMA PageIsAnswer ==
    ASSUME WorkerInv, At("page"), PageDone, UNCHANGED OutsideTurn,
           parent' = IF Req.path = "/shutdown" THEN "told" ELSE parent
    PROVE  Clients!Answer
<1>1. cur # NULL /\ cur.codes = <<>> /\ Admitted(cur)
  BY AdmittedLoss DEF At, WorkerInv, TurnAsMeant
<1>2. ~(Guard(Req.path) # "none" /\ Req.header # "right")
  BY <1>1 DEF Admitted, Validated
<1> QED
  BY <1>1, <1>2, OneAnswerIs DEF PageDone, OutsideTurn

LEMMA PagesAnswer ==
    ASSUME WorkerInv,
           \/ AppPlain \/ AppStatus \/ AppResource \/ AyaReadme \/ AyaReport \/ AyaShutdown
           \/ NotFound \/ EndpointCore \/ EndpointAuth \/ EndpointMsg,
           ~Ended
    PROVE  Clients!Answer
<1>1. CASE AppPlain
  BY <1>1, AppPlainDone, PageIsAnswer DEF AppPlain, Page, OnlyTurn, Elsewhere
<1>2. CASE AppStatus
  BY <1>2, AppStatusDone, PageIsAnswer DEF AppStatus, Page
<1>3. CASE AppResource
  BY <1>3, AppResourceDone, PageIsAnswer DEF AppResource, Page, OnlyTurn, Elsewhere
<1>4. CASE AyaReadme
  BY <1>4, ReportingPageDone, PageIsAnswer DEF AyaReadme, Page
<1>5. CASE AyaReport
  BY <1>5, ReportingPageDone, PageIsAnswer DEF AyaReport, Page
<1>6. CASE AyaShutdown
  BY <1>6, ReportingPageDone, PageIsAnswer DEF AyaShutdown, Page
<1>7. CASE NotFound
  BY <1>7, ReportingPageDone, PageIsAnswer DEF NotFound, Page
<1>8. CASE EndpointCore
  BY <1>8, EndpointDone, PageIsAnswer DEF EndpointCore, Page, OnlyTurn, Elsewhere
<1>9. CASE EndpointAuth
  BY <1>9, EndpointDone, PageIsAnswer DEF EndpointAuth, Page, OnlyTurn, Elsewhere
<1>10. CASE EndpointMsg
  BY <1>10, EndpointDone, PageIsAnswer DEF EndpointMsg, Page, OnlyTurn, Elsewhere
<1> QED
  BY <1>1, <1>2, <1>3, <1>4, <1>5, <1>6, <1>7, <1>8, <1>9, <1>10

\* The validators guard no page that tells the parent anything.
LEMMA NoValidatorStops ==
    ASSUME Guard(Req.path) # "none"
    PROVE  Req.path # "/shutdown"
BY GuardOf

LEMMA AuthBasicAnswers ==
    ASSUME WorkerInv, AuthBasic, ~Ended
    PROVE  Clients!Answer \/ UNCHANGED Clients!vars
<1> DEFINE t == WithExtra(cur)
           p == [t EXCEPT !.pause = Pause, !.lost = @ \cup Decoded]
<1>0. /\ At("validate") /\ Guard(Req.path) = "auth_basic" /\ Req.path # "/shutdown"
      /\ UNCHANGED <<conn, request, queue, parent>>
      /\ cur # NULL /\ cur \in Turn /\ Untouched(cur)
  <2>1. At("validate") /\ Guard(Req.path) = "auth_basic" /\ cur # NULL
    BY DEF AuthBasic, At
  <2>2. cur \in Turn /\ Untouched(cur)
    BY <2>1, TurnOfARequest DEF WorkerInv, TurnAsMeant
  <2>3. Req.path # "/shutdown"
    BY <2>1, NoValidatorStops
  <2> QED
    BY <2>1, <2>2, <2>3, DeathsAreNamed DEF AuthBasic, Elsewhere, OutsideTurn
<1>1. /\ t \in Turn /\ t.conn = cur.conn /\ t.extra = Blank /\ t.codes = <<>> /\ t.lost = {}
  BY <1>0, WithExtraHas DEF SameTurn, Untouched
<1>2. p \in Turn /\ p.conn = cur.conn /\ p.extra = Blank /\ p.codes = <<>>
  <2>1. Pause \in {0, 1, 5}
    BY DEF Pause
  <2>2. Decoded \in SUBSET {"session", "principal", "decoded"} /\ t.lost \cup Decoded = Decoded
    BY <1>1 DEF Decoded
  <2> HIDE DEF t
  <2> QED
    BY <1>1, <2>1, <2>2 DEF Turn
<1>3. ASSUME NEW code \in {404, 401}, NEW r \in Turn, r.conn = cur.conn, r.codes = <<>>,
             r.extra = Blank, cur' = Refuse(r, code)
      PROVE  Clients!Answer
  <2>1. cur' \in Turn /\ cur'.conn = cur.conn /\ cur'.codes = <<code>>
    BY <1>3, RefuseAnswers
  <2>2. Len(cur'.codes) = 1 /\ cur'.codes[1] \in {401, 403, 404}
    BY <2>1
  <2> QED
    BY <1>0, <2>1, <2>2, OneAnswerIs DEF Untouched
<1>4. ASSUME cur' = Identified(p)
      PROVE  UNCHANGED Clients!vars
  <2>1. cur' \in Turn /\ cur'.conn = cur.conn /\ cur'.codes = <<>>
    <3> HIDE DEF p
    <3> QED
      BY <1>2, <1>4, IdentifiedHas
  <2> QED
    BY <1>0, <2>1, TurnGoesOn DEF Untouched
<1>5. cur' = Refuse(t, 404) \/ cur' = Refuse(p, 401) \/ cur' = Identified(p)
  BY <1>0, DeathsAreNamed DEF AuthBasic
<1> HIDE DEF t, p
<1> QED
  BY <1>1, <1>2, <1>3, <1>4, <1>5

LEMMA AuthJwtAnswers ==
    ASSUME WorkerInv, AuthJwt, ~Ended
    PROVE  Clients!Answer \/ UNCHANGED Clients!vars
<1> DEFINE t == WithExtra(cur)
<1>0. /\ At("validate") /\ Guard(Req.path) = "auth_jwt" /\ Req.path # "/shutdown"
      /\ UNCHANGED <<conn, request, queue, parent>>
      /\ cur # NULL /\ cur \in Turn /\ Untouched(cur)
  <2>1. At("validate") /\ Guard(Req.path) = "auth_jwt" /\ cur # NULL
    BY DEF AuthJwt, At
  <2>2. cur \in Turn /\ Untouched(cur)
    BY <2>1, TurnOfARequest DEF WorkerInv, TurnAsMeant
  <2>3. Req.path # "/shutdown"
    BY <2>1, NoValidatorStops
  <2> QED
    BY <2>1, <2>2, <2>3, DeathsAreNamed DEF AuthJwt, OnlyTurn, Elsewhere, OutsideTurn
<1>1. t \in Turn /\ t.conn = cur.conn /\ t.extra = Blank /\ t.codes = <<>>
  BY <1>0, WithExtraHas DEF SameTurn, Untouched
<1>2. ASSUME NEW r \in Turn, r.conn = cur.conn, r.codes = <<>>, r.extra \in {NULL, Blank},
             cur' = Deny(r)
      PROVE  Clients!Answer
  <2>1. cur' \in Turn /\ cur'.conn = cur.conn /\ cur'.codes = <<403>>
    BY <1>2, DenyAnswers
  <2>2. Len(cur'.codes) = 1 /\ cur'.codes[1] \in {401, 403, 404}
    BY <2>1
  <2> QED
    BY <1>0, <2>1, <2>2, OneAnswerIs DEF Untouched
<1>3. ASSUME cur' = Identified(t)
      PROVE  UNCHANGED Clients!vars
  <2>1. cur' \in Turn /\ cur'.conn = cur.conn /\ cur'.codes = <<>>
    <3> HIDE DEF t
    <3> QED
      BY <1>1, <1>3, IdentifiedHas
  <2> QED
    BY <1>0, <2>1, TurnGoesOn DEF Untouched
<1>4. cur' = Deny(cur) \/ cur' = Deny(t) \/ cur' = Identified(t)
  BY <1>0, DeathsAreNamed DEF AuthJwt
<1> HIDE DEF t
<1> QED
  BY <1>0, <1>1, <1>2, <1>3, <1>4 DEF Untouched

\* To get its turn moves nobody in the line.
LEMMA TakeKeepsLine ==
    ASSUME WorkerInv, Take
    PROVE  UNCHANGED Clients!vars
<1>1. /\ cur = NULL /\ queue \in Seq(Conns) /\ queue # <<>> /\ queue' = Tail(queue)
      /\ cur'.conn = Head(queue) /\ cur'.codes = <<>> /\ cur' \in Turn
      /\ UNCHANGED <<conn, request, parent>>
  <2>0. cur = NULL /\ queue \in Seq(Conns) /\ queue # <<>>
    BY DEF Take, WorkerInv, TypeOK
  <2>1. <<>> \in Seq(Int) /\ {} \in SUBSET {"session", "principal", "decoded"}
        /\ Head(queue) \in Conns
    BY <2>0
  <2>2. cur' \in Turn
    BY <2>1 DEF Take, Turn
  <2> QED
    BY <2>0, <2>2 DEF Take
<1>2. cur' # NULL
  BY <1>1, FieldsOfTurn
<1>3. Line' = Line
  <2>1. Line' = <<Head(queue)>> \o Tail(queue)
    BY <1>1, <1>2 DEF Line
  <2> QED
    BY <1>1, <2>1, WholeLine DEF Line
<1>4. Codes' = Codes
  BY <1>1, <1>2 DEF Codes
<1> QED
  BY <1>1, <1>3, <1>4 DEF Clients!vars

\* The end of the worker is that of a turn without an answer.
LEMMA EndedIsFail ==
    ASSUME WorkerInv, At("validate") \/ At("page"), Ended
    PROVE  Clients!Fail
<1>1. cur # NULL /\ cur.codes = <<>>
  BY Zenon DEF At, WorkerInv, TurnAsMeant, Untouched, Admitted
<1>2. /\ Line # <<>> /\ request[Head(Line)] = Req /\ Req \in Requests /\ Codes = <<>>
      /\ parent # "stopped"
  BY <1>1, TurnInLine
<1>3. config \in Settings
  BY DEF WorkerInv, TypeOK
<1>4. Req \in {q \in Requests : \E s \in Settings : MayEnd(q, s)}
  BY <1>2, <1>3, Zenon DEF Ended
<1>5. /\ Line' = <<>> /\ Codes' = <<>> /\ parent' = parent
      /\ conn' = [c \in Conns |-> "closed"] /\ request' = [c \in Conns |-> NULL]
  BY DEF Ended, Die, Line, Codes
<1> HIDE DEF Line, Codes
<1> QED
  BY <1>2, <1>4, <1>5 DEF Clients!Fail, Clients!Idle

LEMMA FinishIsRelease ==
    ASSUME WorkerInv, Finish
    PROVE  Clients!Release
<1>1. /\ cur # NULL /\ Len(cur.codes) = 1 /\ cur' = NULL /\ queue' = queue /\ parent' = parent
      /\ request' = [request EXCEPT ![cur.conn] = NULL]
  BY DEF WorkerInv, TurnAsMeant, Answered, Finish, At
<1>2. cur.codes # <<>>
  BY <1>1
<1>3. conn' = [conn EXCEPT ![cur.conn] = IF cur.codes = <<101>> THEN "socket" ELSE "closed"]
  BY <1>2 DEF Finish
<1>4. Head(Line) = cur.conn /\ Tail(Line) = queue /\ Codes = cur.codes
  BY <1>1, TurnInLine
<1>5. Line' = queue /\ Codes' = <<>>
  BY <1>1 DEF Line, Codes
<1> HIDE DEF Line, Codes
<1> QED
  BY <1>1, <1>2, <1>3, <1>4, <1>5 DEF Clients!Release

\* What happens between turns is what the client or the parent does.
LEMMA BetweenTurns ==
    ASSUME cur = NULL, cur' = NULL
    PROVE  Line = queue /\ Codes = <<>> /\ Line' = queue' /\ Codes' = <<>>
BY DEF Line, Codes

\* Both modules mean the same by taking a connection out of the line.
LEMMA SameRemoval ==
    ASSUME NEW s, NEW e
    PROVE  Clients!RemoveFirst(s, e) = RemoveFirst(s, e)
BY Zenon DEF RemoveFirst, RemoveAt, SelectInSeq, Min,
             Clients!RemoveFirst, Clients!RemoveAt, Clients!SelectInSeq, Clients!Min

LEMMA NextIsServer == WorkerInv /\ [Next]_vars => [Clients!Next]_(Clients!vars)
<1> SUFFICES ASSUME WorkerInv, [Next]_vars PROVE [Clients!Next]_(Clients!vars)
  OBVIOUS
<1>1. ASSUME NEW c \in Conns, Connect(c) PROVE Clients!Connect(c)
  BY <1>1, BetweenTurns DEF Connect, Clients!Connect, Clients!Idle
<1>2. ASSUME NEW c \in Conns, Disconnect(c) PROVE Clients!Leave(c)
  BY <1>2, BetweenTurns, SameRemoval
     DEF Disconnect, WithoutRequestOf, Clients!Leave, Clients!Idle
<1>3. ASSUME NEW c \in Conns, NEW r \in Requests, Receive(c, r) PROVE Clients!Ask(c, r)
  BY <1>3, BetweenTurns DEF Receive, Clients!Ask, Clients!Idle
<1>4. CASE Serve
  <2>1. CASE Take \/ Finish
    BY <2>1, TakeKeepsLine, FinishIsRelease DEF Clients!Next
  <2>2. CASE ~(Take \/ Finish) /\ Ended
    <3>1. At("validate") \/ At("page")
      BY <1>4, <2>2 DEF Serve, AuthBasic, AuthJwt, AppPlain, AppStatus, AppResource, AyaReadme,
         AyaReport, AyaShutdown, NotFound, EndpointCore, EndpointAuth, EndpointMsg, Page
    <3> QED
      BY <2>2, <3>1, EndedIsFail DEF Clients!Next
  <2>3. CASE ~(Take \/ Finish) /\ ~Ended
    <3>1. Clients!Answer \/ UNCHANGED Clients!vars
      BY <1>4, <2>3, AuthBasicAnswers, AuthJwtAnswers, PagesAnswer DEF Serve
    <3> QED
      BY <3>1 DEF Clients!Next
  <2> QED
    BY <2>1, <2>2, <2>3
<1>5. CASE Stop
  <2>1. Clients!Stop
    BY <1>5, BetweenTurns DEF Stop, Clients!Stop
  <2> QED
    BY <2>1 DEF Clients!Next
<1>6. CASE Reload
  BY <1>6, BetweenTurns DEF Reload, Clients!vars
<1>7. CASE UNCHANGED vars
  BY <1>7 DEF vars, Line, Codes, Clients!vars
<1> QED
  BY <1>1, <1>2, <1>3, <1>4, <1>5, <1>6, <1>7 DEF Next, Clients!Next

\* Whatever validators, pages, counters and reloads do, clients see the server
\* of module Server: requests in the order of arrival, one answer to each, a
\* refusal to whoever comes to a guarded page without credentials, and a
\* shutdown only when one has been asked for.  The worker ends in the turn of a
\* request that MayEnd tells apart, and of no other.
THEOREM WorkerImplementsServer == Spec => ImplementsServer
<1>1. Init => Clients!Init
  BY DEF Init, Line, Codes, Clients!Init
<1> QED
  BY <1>1, NextIsServer, SpecInv, PTL DEF Spec, ImplementsServer, Clients!Spec
=============================================================================
