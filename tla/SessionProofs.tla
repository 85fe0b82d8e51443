--------------------------- MODULE SessionProofs ---------------------------
(***************************************************************************)
(* Theorems about the clock of identifiers and about Session, for all sets *)
(* of workers, users and secrets, all limits and session times.            *)
(***************************************************************************)
EXTENDS Session, FiniteSetTheorems, TLAPS

-----------------------------------------------------------------------------
(* The clock of identifiers.                                               *)

\* What was handed out is at most the last reading and its counter, which has
\* not reached the next reading; so a new time is above all.
TimesBelow ==
    Orderly =>
        \A w \in Workers :
            /\ time_last[w] <= now
            /\ IsFiniteSet(given[w])
            /\ given[w] # {} => ids_this_tick[w] < Resolution
            /\ \A p \in given[w] : p <= time_last[w] * Resolution + ids_this_tick[w]

ClockInv == ClockTypeOK /\ TimesBelow /\ NeverTwice

LEMMA ClockInitInv == ClockInit => ClockInv
<1> SUFFICES ASSUME ClockInit PROVE ClockInv
  OBVIOUS
<1>1. ClockTypeOK
  <2>1. crowded \in BOOLEAN
    BY Zenon DEF ClockInit
  <2> QED
    BY <2>1, LimitIsNat DEF ClockInit, ClockTypeOK
<1>2. TimesBelow /\ NeverTwice
  BY FS_EmptySet DEF ClockInit, TimesBelow, NeverTwice, Orderly
<1> QED
  BY <1>1, <1>2 DEF ClockInv

LEMMA GetCurrentTimeType ==
    ASSUME ClockTypeOK, NEW w \in Workers, GetCurrentTime(w)
    PROVE  ClockTypeOK' /\ Timestamp(w) \in Nat
<1>1. ids_this_tick' \in [Workers -> 0..UIDS_PER_TICK] /\ time_last' \in [Workers -> Nat]
  BY LimitIsNat DEF GetCurrentTime, FirstOfTick, AnotherOfTick, ClockTypeOK
<1>2. now * Resolution \in Nat /\ ids_this_tick'[w] \in Nat
  BY <1>1, LimitIsNat, ResolutionAssumption DEF ClockTypeOK
<1>3. Timestamp(w) \in Nat
  BY <1>2 DEF Timestamp
<1>4. given' \in [Workers -> SUBSET Nat]
  BY <1>3 DEF GetCurrentTime, ClockTypeOK
<1>5. calls' \in [Workers -> Nat] /\ now' = now /\ backs' = backs /\ crowded' \in BOOLEAN
  BY DEF GetCurrentTime, ClockTypeOK
<1> QED
  BY <1>1, <1>3, <1>4, <1>5 DEF ClockTypeOK

\* One reading of the clock is Resolution units after the one before.
LEMMA NextReading ==
    ASSUME NEW a \in Nat, NEW b \in Nat, a < b
    PROVE  /\ a * Resolution \in Nat /\ b * Resolution \in Nat
           /\ a * Resolution + Resolution <= b * Resolution
<1> DEFINE d == b - a - 1
<1>1. d \in Nat /\ b = a + 1 + d
  OBVIOUS
<1>2. d * Resolution \in Nat /\ a * Resolution \in Nat
  BY <1>1, ResolutionAssumption
<1> HIDE DEF d
<1>3. b * Resolution = a * Resolution + Resolution + d * Resolution
  BY <1>1, ResolutionAssumption
<1> QED
  BY <1>2, <1>3, ResolutionAssumption

\* The time of a call is above all that the worker was given.
LEMMA TimeIsNew ==
    ASSUME ClockTypeOK, TimesBelow, Orderly, NEW w \in Workers, GetCurrentTime(w)
    PROVE  /\ time_last'[w] = now
           /\ \A p \in given[w] : p < Timestamp(w)
<1>0. /\ \A p \in given[w] : p \in Nat
      /\ time_last[w] \in Nat /\ now \in Nat /\ ids_this_tick[w] \in Nat /\ Resolution \in Nat
      /\ now * Resolution \in Nat /\ time_last[w] * Resolution \in Nat
  BY LimitIsNat, ResolutionAssumption DEF ClockTypeOK
<1>1. CASE FirstOfTick(w)
  <2>1. time_last[w] < now /\ time_last'[w] = now /\ ids_this_tick'[w] = 0
    BY <1>0, <1>1 DEF FirstOfTick, TimesBelow, ClockTypeOK
  <2>2. time_last[w] * Resolution + Resolution <= now * Resolution
    BY <1>0, <2>1, NextReading
  <2>3. ASSUME NEW p \in given[w] PROVE p < now * Resolution
    <3>1. p \in Nat /\ p <= time_last[w] * Resolution + ids_this_tick[w]
          /\ ids_this_tick[w] < Resolution
      BY <1>0 DEF TimesBelow
    <3> QED
      BY <1>0, <2>2, <3>1
  <2> QED
    BY <1>0, <2>1, <2>3 DEF Timestamp
<1>2. CASE AnotherOfTick(w)
  <2>1. time_last[w] = now /\ time_last'[w] = now /\ ids_this_tick'[w] = ids_this_tick[w] + 1
    BY <1>2 DEF AnotherOfTick, ClockTypeOK
  <2>2. \A p \in given[w] : p <= now * Resolution + ids_this_tick[w]
    BY <2>1 DEF TimesBelow
  <2> QED
    BY <1>0, <2>1, <2>2 DEF Timestamp
<1> QED
  BY <1>1, <1>2 DEF GetCurrentTime

LEMMA GetCurrentTimeInv ==
    ASSUME ClockInv, NEW w \in Workers, GetCurrentTime(w)
    PROVE  ClockInv'
<1>1. ClockTypeOK'
  BY GetCurrentTimeType DEF ClockInv
<1>2. Orderly' => Orderly /\ ids_this_tick'[w] < Resolution
  <2>1. ids_this_tick'[w] \in Nat
        /\ crowded' = (crowded \/ ids_this_tick'[w] >= Resolution) /\ backs' = backs
    BY <1>1, LimitIsNat DEF GetCurrentTime, ClockTypeOK
  <2>2. ~crowded' => ~crowded /\ ~(ids_this_tick'[w] >= Resolution)
    BY <2>1, Zenon
  <2>3. ~(ids_this_tick'[w] >= Resolution) => ids_this_tick'[w] < Resolution
    BY <2>1, ResolutionAssumption
  <2> QED
    BY <2>1, <2>2, <2>3 DEF Orderly
<1>3. SUFFICES ASSUME Orderly, ids_this_tick'[w] < Resolution, NEW v \in Workers
               PROVE  /\ time_last'[v] <= now
                      /\ IsFiniteSet(given'[v])
                      /\ given'[v] # {} => ids_this_tick'[v] < Resolution
                      /\ \A p \in given'[v] : p <= time_last'[v] * Resolution + ids_this_tick'[v]
                      /\ Cardinality(given'[v]) = calls'[v]
  BY <1>1, <1>2 DEF ClockInv, TimesBelow, NeverTwice, GetCurrentTime
<1> USE DEF ClockInv
<1>4. CASE v # w
  <2>1. time_last'[v] = time_last[v] /\ ids_this_tick'[v] = ids_this_tick[v]
    BY <1>4 DEF GetCurrentTime, FirstOfTick, AnotherOfTick, ClockTypeOK
  <2>2. given'[v] = given[v] /\ calls'[v] = calls[v]
    BY <1>4 DEF GetCurrentTime, ClockTypeOK
  <2> QED
    BY <2>1, <2>2, <1>3 DEF TimesBelow, NeverTwice
<1>5. CASE v = w
  <2> DEFINE new == Timestamp(w)
             S == given[w]
  <2>1. given'[w] = S \cup {new} /\ calls'[w] = calls[w] + 1
    BY DEF GetCurrentTime, ClockTypeOK
  <2>2. IsFiniteSet(S) /\ Cardinality(S) = calls[w]
    BY <1>3 DEF TimesBelow, NeverTwice
  <2>3. time_last'[w] = now /\ \A p \in S : p < new
    BY <1>3, TimeIsNew
  <2>4. new \in Nat /\ now \in Nat /\ \A p \in S : p \in Nat
    BY GetCurrentTimeType DEF ClockTypeOK
  <2>5. new = time_last'[w] * Resolution + ids_this_tick'[w]
    BY <2>3 DEF Timestamp
  <2> HIDE DEF new, S
  <2>6. new \notin S
    BY <2>3, <2>4
  <2>7. IsFiniteSet(S \cup {new}) /\ Cardinality(S \cup {new}) = Cardinality(S) + 1
    BY <2>2, <2>6, FS_AddElement
  <2>8. \A p \in given'[w] : p <= time_last'[w] * Resolution + ids_this_tick'[w]
    <3>1. \A p \in S \cup {new} : p <= new
      BY <2>3, <2>4
    <3> QED
      BY <2>1, <2>5, <3>1
  <2> QED
    BY <1>3, <1>5, <2>1, <2>2, <2>3, <2>4, <2>7, <2>8
<1> QED
  BY <1>4, <1>5

LEMMA ClockStep == ClockInv /\ [ClockNext]_clockVars => ClockInv'
<1> SUFFICES ASSUME ClockInv, [ClockNext]_clockVars PROVE ClockInv'
  OBVIOUS
<1>1. CASE Tick
  BY <1>1 DEF Tick, ClockInv, ClockTypeOK, TimesBelow, NeverTwice, Orderly
<1>2. CASE SetBack
  BY <1>2 DEF SetBack, ClockInv, ClockTypeOK, TimesBelow, NeverTwice, Orderly
<1>3. CASE \E w \in Workers : GetCurrentTime(w)
  BY <1>3, GetCurrentTimeInv
<1>4. CASE UNCHANGED clockVars
  BY <1>4 DEF clockVars, ClockInv, ClockTypeOK, TimesBelow, NeverTwice, Orderly
<1> QED
  BY <1>1, <1>2, <1>3, <1>4 DEF ClockNext

\* get_current_time hands out nothing twice, whatever the limit per tick and
\* however many workers and calls there are.
THEOREM ClockNeverTwice == ClockSpec => []NeverTwice
<1>1. ClockInv => NeverTwice
  BY DEF ClockInv
<1> QED
  BY <1>1, ClockInitInv, ClockStep, PTL DEF ClockSpec

-----------------------------------------------------------------------------
(* The clock within Session.                                               *)

\* Every step of Session is a step of the clock or leaves it alone.
LEMMA ClockOfStep == [Next]_vars => [ClockNext]_clockVars
BY DEF Next, vars, ClockNext, Authenticate, Verify, Reload, Select, SelectOther, Update, ReadTime,
       Stamp, Signature, Admit, Refuse, SetSecret, Time

\* Session implements the clock: issuing tokens is all that calls it.
THEOREM ImplementsClock == Spec => ClockSpec
<1>1. Init => ClockInit
  BY DEF Init
<1> QED
  BY <1>1, ClockOfStep, PTL DEF Spec, ClockSpec

\* So the identifiers of tokens are never repeated in a worker.
THEOREM SessionNeverTwice == Spec => []NeverTwice
BY ImplementsClock, ClockNeverTwice, PTL
-----------------------------------------------------------------------------
(* Logins and tokens.                                                      *)

\* As long as every name stays within the quotes: a login that got past its
\* query was proper, and one whose renewal is still to come and was not
\* overtaken holds the secret of its user, and else one he chose.
LoginOK(o) == plain =>
    /\ o.at = "select" /\ o.user \in Users /\ o.secret = owned[o.user] => o.proper
    /\ o.at \in {"update", "issue", "stamp"} => o.proper
    /\ o.at = "update" => o.secret \in chosen[o.user]
    /\ o.at = "update" /\ ~o.overlapped /\ o.user \notin restored => o.secret = owned[o.user]

LoginInv == \A w \in Workers : LoginOK(op[w])

\* The identifiers of tokens come from the clock.
JtiGiven == \A t \in tokens : t.jti \in given[t.by]

IInv ==
    TypeOK /\ ClockInv /\ LoginInv /\ SecretKept /\ OnlyOwners /\ JtiGiven /\ TokensDistinct

LEMMA InitInv == Init => IInv
<1> SUFFICES ASSUME Init PROVE IInv
  OBVIOUS
<1>1. ClockInv
  BY ClockInitInv DEF Init
<1>2. TypeOK
  <2>1. chosen \in [Users -> SUBSET Secrets]
    BY DEF Init
  <2> QED
    BY <1>1, <2>1 DEF Init, TypeOK, ClockInv, OpOK, Idle
<1>3. LoginInv
  BY DEF Init, LoginInv, LoginOK, Idle
<1> QED
  BY <1>1, <1>2, <1>3 DEF Init, IInv, SecretKept, OnlyOwners, JtiGiven, TokensDistinct, Orderly

\* A step of a turn replaces the request of its worker and no other.
LEMMA TurnOf ==
    ASSUME TypeOK, NEW w \in Workers, NEW o, Turn(w, o)
    PROVE  DOMAIN op' = Workers /\ op'[w] = o /\ \A v \in Workers \ {w} : op'[v] = op[v]
BY DEF TypeOK, Turn

\* What each place of a turn says of the request.
LEMMA OpKinds ==
    ASSUME TypeOK, NEW w \in Workers
    PROVE  /\ op[w].at \in {"select", "update", "issue"} =>
                op[w] \in [at : {"select", "update", "issue"}, user : Users \cup {Quoted},
                           secret : Secrets, proper : BOOLEAN, overlapped : BOOLEAN]
           /\ op[w].at = "select" => op[w].user \in Users \cup {Quoted}
           /\ op[w].at \in {"update", "issue"} => op[w].user \in Users
           /\ op[w].at = "stamp" =>
                op[w] \in [at : {"stamp"}, user : Users, proper : BOOLEAN, iat : Nat,
                          born : Nat, backs : Nat]
           /\ op[w].at \in {"signature", "expiry"} =>
                op[w] \in [at : {"signature", "expiry"}, token : tokens]
<1>1. OpOK(op[w])
  BY DEF TypeOK
<1> QED
  BY <1>1 DEF OpOK

\* A step that changes nothing but the request of one worker keeps the
\* invariant if the new request has what the invariant says of requests.
LEMMA QuietTurn ==
    ASSUME IInv, NEW w \in Workers, NEW o, Turn(w, o), OpOK(o), LoginOK(o),
           UNCHANGED <<clockVars, usersVars, cfg, tokens>>
    PROVE  IInv'
<1>1. DOMAIN op' = Workers /\ op'[w] = o /\ \A v \in Workers \ {w} : op'[v] = op[v]
  BY TurnOf DEF IInv
<1>2. ClockInv'
  BY DEF IInv, ClockInv, ClockTypeOK, TimesBelow, NeverTwice, Orderly, clockVars
<1>3. TypeOK'
  <2>1. \A v \in Workers : OpOK(op[v])'
    BY <1>1 DEF IInv, TypeOK, OpOK
  <2> QED
    BY <1>1, <1>2, <2>1 DEF IInv, TypeOK, ClockInv, usersVars
<1>4. LoginInv'
  <2>1. \A v \in Workers : LoginOK(op[v])'
    BY <1>1 DEF IInv, LoginInv, LoginOK, usersVars
  <2> QED
    BY <2>1 DEF LoginInv
<1> QED
  BY <1>2, <1>3, <1>4
     DEF IInv, SecretKept, OnlyOwners, JtiGiven, TokensDistinct, usersVars, clockVars, Orderly

LEMMA AuthenticateInv == ASSUME IInv, NEW w \in Workers, Authenticate(w) PROVE IInv'
<1>1. ASSUME NEW u \in Users, NEW s \in Secrets,
             Turn(w, Login("select", u, s, s = owned[u], FALSE))
      PROVE  IInv'
  <2> DEFINE o == Login("select", u, s, s = owned[u], FALSE)
  <2>1. OpOK(o) /\ LoginOK(o)
    BY DEF Login, OpOK, LoginOK
  <2> QED
    BY <1>1, <2>1, QuietTurn DEF Authenticate
<1>2. ASSUME NEW s \in Secrets, Turn(w, Login("select", Quoted, s, FALSE, FALSE))
      PROVE  IInv'
  <2> DEFINE o == Login("select", Quoted, s, FALSE, FALSE)
  <2>1. OpOK(o) /\ LoginOK(o)
    BY QuotedAssumption DEF Login, OpOK, LoginOK
  <2> QED
    BY <1>2, <2>1, QuietTurn DEF Authenticate
<1> QED
  BY <1>1, <1>2 DEF Authenticate

LEMMA SelectInv == ASSUME IInv, NEW w \in Workers, Select(w) PROVE IInv'
<1>1. CASE Turn(w, Idle)
  <2>1. OpOK(Idle) /\ LoginOK(Idle)
    BY DEF Idle, OpOK, LoginOK
  <2> QED
    BY <1>1, <2>1, QuietTurn DEF Select
<1> DEFINE proper == op[w].proper \/ Restored(w)
           o == Login("update", op[w].user, op[w].secret, proper, FALSE)
<1>2. CASE op[w].user # Quoted /\ Matches(w) /\ Turn(w, o)
  <2>0. op[w].user \in Users /\ op[w].at = "select"
    BY <1>2, OpKinds DEF Select, At, IInv
  <2>1. op[w] \in [at : {"select", "update", "issue"}, user : Users \cup {Quoted}, secret : Secrets,
                   proper : BOOLEAN, overlapped : BOOLEAN]
    BY OpKinds DEF Select, At, IInv
  <2>2. plain => /\ op[w].user \in restored \/ op[w].secret = owned[op[w].user]
                 /\ op[w].secret \in chosen[op[w].user]
    BY <1>2, <2>0, <2>1, NoHashAssumption DEF Matches, IInv, SecretKept
  <2>3. (plain => proper) /\ proper \in BOOLEAN
    BY <2>0, <2>1, <2>2 DEF IInv, LoginInv, LoginOK, Restored
  <2> HIDE DEF proper
  <2>4. OpOK(o)
    BY <2>0, <2>1, <2>3 DEF Login, OpOK
  <2>5. LoginOK(o)
    BY <2>2, <2>3 DEF Login, LoginOK
  <2> QED
    BY <1>2, <2>4, <2>5, QuietTurn DEF Select
<1> QED
  BY <1>1, <1>2 DEF Select

\* Another query than the lookup is the end of what is promised.
LEMMA SelectOtherInv == ASSUME IInv, NEW w \in Workers, SelectOther(w) PROVE IInv'
<1>1. PICK o : Turn(w, o) /\ (o = Idle \/ \E u \in Users :
                                 o = Login("update", u, op[w].secret, FALSE, FALSE))
  BY DEF SelectOther
<1>2. op[w] \in [at : {"select", "update", "issue"}, user : Users \cup {Quoted},
                 secret : Secrets, proper : BOOLEAN, overlapped : BOOLEAN]
  BY OpKinds DEF SelectOther, At, IInv
<1>3. OpOK(o)
  <2>1. OpOK(Idle)
    BY DEF Idle, OpOK
  <2>2. ASSUME NEW u \in Users PROVE OpOK(Login("update", u, op[w].secret, FALSE, FALSE))
    BY <1>2 DEF Login, OpOK
  <2> QED
    BY <1>1, <2>1, <2>2
<1>4. DOMAIN op' = Workers /\ op'[w] = o /\ \A v \in Workers \ {w} : op'[v] = op[v]
  BY <1>1, TurnOf DEF IInv
<1>5. /\ plain' = FALSE /\ sets' = sets + 1
      /\ password' \in [Users -> Secrets \cup {NoHash}]
      /\ UNCHANGED <<clockVars, owned, chosen, restored, cfg, tokens>>
  BY DEF SelectOther
<1>6. ClockInv'
  BY <1>5 DEF IInv, ClockInv, ClockTypeOK, TimesBelow, NeverTwice, Orderly, clockVars
<1>7. TypeOK'
  <2>1. \A v \in Workers : OpOK(op[v])'
    BY <1>3, <1>4, <1>5 DEF IInv, TypeOK, OpOK
  <2>2. sets' \in Nat
    BY <1>5 DEF IInv, TypeOK
  <2>3. plain' \in BOOLEAN
    BY <1>5
  <2>4. ClockTypeOK'
    BY <1>6 DEF ClockInv
  <2>5. /\ owned' \in [Users -> Secrets] /\ restored' \subseteq Users
        /\ chosen' \in [Users -> SUBSET Secrets]
        /\ cfg' \in [Workers -> Confs] /\ tokens' \subseteq Token
    BY <1>5, Zenon DEF IInv, TypeOK, Token
  <2> QED
    BY <1>4, <1>5, <2>1, <2>2, <2>3, <2>4, <2>5 DEF TypeOK
<1> QED
  BY <1>5, <1>6, <1>7
     DEF IInv, LoginInv, LoginOK, SecretKept, OnlyOwners, JtiGiven, TokensDistinct,
         clockVars, Orderly

LEMMA ReadTimeInv == ASSUME IInv, NEW w \in Workers, ReadTime(w) PROVE IInv'
<1> DEFINE o == [at |-> "stamp", user |-> op[w].user, proper |-> op[w].proper,
                 iat |-> Second, born |-> now, backs |-> backs]
<1>1. op[w] \in [at : {"select", "update", "issue"}, user : Users \cup {Quoted},
                 secret : Secrets, proper : BOOLEAN, overlapped : BOOLEAN]
      /\ op[w].user \in Users
  BY OpKinds DEF ReadTime, At, IInv
<1>2. now \in Nat /\ backs \in Nat
  BY DEF IInv, TypeOK, ClockTypeOK
<1>3. Second \in Nat
  BY <1>2, SecondAssumption DEF Second
<1>4. OpOK(o)
  BY <1>1, <1>2, <1>3 DEF OpOK
<1>5. LoginOK(o)
  BY DEF IInv, LoginInv, LoginOK, ReadTime, At
<1> QED
  BY <1>4, <1>5, QuietTurn DEF ReadTime

LEMMA VerifyInv == ASSUME IInv, NEW w \in Workers, Verify(w) PROVE IInv'
<1>1. PICK t \in tokens : Turn(w, [at |-> "signature", token |-> t])
  BY DEF Verify
<1>2. OpOK([at |-> "signature", token |-> t]) /\ LoginOK([at |-> "signature", token |-> t])
  BY DEF OpOK, LoginOK
<1> QED
  BY <1>1, <1>2, QuietTurn DEF Verify

LEMMA SignatureInv == ASSUME IInv, NEW w \in Workers, Signature(w) PROVE IInv'
<1>1. op[w].token \in tokens
  BY OpKinds DEF Signature, At, IInv
<1> DEFINE o == [at |-> "expiry", token |-> op[w].token]
<1>2. OpOK(o) /\ LoginOK(o)
  BY <1>1 DEF OpOK, LoginOK
<1> QED
  BY <1>2, QuietTurn DEF Signature

LEMMA AnsweredInv == ASSUME IInv, NEW w \in Workers, Admit(w) \/ Refuse(w) PROVE IInv'
<1>1. OpOK(Idle) /\ LoginOK(Idle)
  BY DEF OpOK, LoginOK, Idle
<1>2. Turn(w, Idle) /\ UNCHANGED <<clockVars, usersVars, cfg, tokens>>
  BY DEF Admit, Refuse
<1> QED
  BY <1>1, <1>2, QuietTurn

\* A renewal writes the secret of the user, or nothing, unless it was
\* overtaken; then its user is among the restored.
LEMMA UpdateInv == ASSUME IInv, NEW w \in Workers, Update(w) PROVE IInv'
<1> DEFINE u == op[w].user
           o == Login("issue", u, op[w].secret, op[w].proper, op[w].overlapped)
<1>1. op[w] \in [at : {"select", "update", "issue"}, user : Users \cup {Quoted}, secret : Secrets,
                 proper : BOOLEAN, overlapped : BOOLEAN]
  BY OpKinds DEF Update, At, IInv
<1>2. LoginOK(op[w]) /\ op[w].at = "update"
  BY DEF IInv, LoginInv, Update, At
<1>3. OpOK(o) /\ LoginOK(o) /\ u \in Users
  BY <1>1, <1>2, OpKinds DEF Login, OpOK, LoginOK, IInv
<1>4. Turn(w, o) /\ UNCHANGED <<clockVars, cfg, tokens>>
  BY DEF Update
<1>5. CASE UNCHANGED usersVars
  BY <1>3, <1>4, <1>5, QuietTurn
<1>6. CASE /\ \E hash \in Hashes(w) : password' = [password EXCEPT ![u] = hash]
           /\ restored' = IF op[w].overlapped THEN restored \cup {u} ELSE restored
           /\ UNCHANGED <<owned, chosen, sets, plain>>
  <2>1. PICK hash \in {op[w].secret, NoHash} : password' = [password EXCEPT ![u] = hash]
    BY <1>6 DEF Hashes
  <2>2. password' \in [Users -> Secrets \cup {NoHash}] /\ restored' \subseteq Users
    BY <1>1, <1>3, <1>6, <2>1 DEF IInv, TypeOK
  <2>3. DOMAIN op' = Workers /\ op'[w] = o /\ \A v \in Workers \ {w} : op'[v] = op[v]
    BY <1>4, TurnOf DEF IInv
  <2>4. ClockInv'
    BY <1>4 DEF IInv, ClockInv, ClockTypeOK, TimesBelow, NeverTwice, Orderly, clockVars
  <2>5. TypeOK'
    <3>1. \A v \in Workers : OpOK(op[v])'
      BY <1>3, <1>4, <2>3 DEF IInv, TypeOK, OpOK
    <3> QED
      BY <1>4, <1>6, <2>2, <2>3, <2>4, <3>1 DEF IInv, TypeOK, ClockInv
  <2>6. restored \subseteq restored'
    BY <1>6
  <2>7. LoginInv'
    <3>1. \A v \in Workers : LoginOK(op[v])'
      BY <1>3, <1>6, <2>3, <2>6 DEF IInv, LoginInv, LoginOK
    <3> QED
      BY <3>1 DEF LoginInv
  <2>9. plain => \A v \in Users : password'[v] \in chosen'[v] \cup {NoHash}
    <3> SUFFICES ASSUME plain, NEW v \in Users PROVE password'[v] \in chosen[v] \cup {NoHash}
      BY <1>6
    <3>1. CASE v = u
      BY <1>2, <1>3, <2>1, <3>1 DEF IInv, TypeOK, LoginOK
    <3>2. CASE v # u
      BY <2>1, <3>2 DEF IInv, TypeOK, SecretKept
    <3> QED
      BY <3>1, <3>2
  <2>8. SecretKept'
    <3> SUFFICES ASSUME plain, NEW v \in Users, v \notin restored'
                 PROVE  password'[v] \in {owned'[v], NoHash}
      BY <1>6, <2>9 DEF SecretKept
    <3>1. CASE v = u
      <4>1. ~op[w].overlapped /\ u \notin restored
        BY <1>6, <3>1
      <4>2. op[w].secret = owned[u]
        BY <1>2, <4>1 DEF LoginOK
      <4> QED
        BY <1>3, <1>6, <2>1, <3>1, <4>2 DEF IInv, TypeOK
    <3>2. CASE v # u
      BY <1>6, <2>1, <2>6, <3>2 DEF IInv, TypeOK, SecretKept
    <3> QED
      BY <3>1, <3>2
  <2> QED
    BY <1>4, <1>6, <2>4, <2>5, <2>7, <2>8
       DEF IInv, OnlyOwners, JtiGiven, TokensDistinct, clockVars, Orderly
<1> QED
  BY <1>5, <1>6 DEF Update

\* A new token carries what the clock just handed out, so no token of the
\* worker has it.
LEMMA StampInv == ASSUME IInv, NEW w \in Workers, Stamp(w) PROVE IInv'
<1> DEFINE new == [oid |-> op[w].user, iat |-> op[w].iat, exp |-> op[w].iat + cfg[w].session,
                   jti |-> Timestamp(w), key |-> cfg[w].key,
                   by |-> w, proper |-> op[w].proper, born |-> op[w].born,
                   backs |-> op[w].backs]
<1>1. op[w] \in [at : {"stamp"}, user : Users, proper : BOOLEAN, iat : Nat,
                 born : Nat, backs : Nat]
  BY OpKinds DEF Stamp, At, IInv
<1>2. GetCurrentTime(w) /\ tokens' = tokens \cup {new} /\ Turn(w, Idle)
      /\ UNCHANGED <<usersVars, cfg>>
  BY DEF Stamp
<1>3. ClockInv'
  BY <1>2, GetCurrentTimeInv DEF IInv
<1>4. DOMAIN op' = Workers /\ op'[w] = Idle /\ \A v \in Workers \ {w} : op'[v] = op[v]
  BY <1>2, TurnOf DEF IInv
<1>5. plain => op[w].proper = TRUE
  BY <1>1 DEF IInv, LoginInv, LoginOK, Stamp, At
<1>6. new \in Token
  <2>1. Timestamp(w) \in Nat
    BY <1>2, GetCurrentTimeType DEF IInv, ClockInv
  <2>2. cfg[w].key \in STRING /\ cfg[w].session \in Nat
    BY ConfAssumption DEF IInv, TypeOK
  <2> QED
    BY <1>1, <2>1, <2>2 DEF Token
<1>7. TypeOK'
  <2>1. \A v \in Workers : OpOK(op[v])'
    BY <1>2, <1>4 DEF IInv, TypeOK, OpOK, Idle
  <2> QED
    BY <1>2, <1>3, <1>4, <1>6, <2>1 DEF IInv, TypeOK, ClockInv, usersVars
<1>8. LoginInv'
  <2>1. \A v \in Workers : LoginOK(op[v])'
    BY <1>2, <1>4 DEF IInv, LoginInv, LoginOK, Idle, usersVars
  <2> QED
    BY <2>1 DEF LoginInv
<1>9. SecretKept' /\ OnlyOwners'
  BY <1>2, <1>5 DEF IInv, SecretKept, OnlyOwners, usersVars
<1>10. given' = [given EXCEPT ![w] = @ \cup {Timestamp(w)}]
       /\ given \in [Workers -> SUBSET (Nat)]
  BY <1>2 DEF GetCurrentTime, IInv, TypeOK, ClockTypeOK
<1>11. \A t \in tokens : t.by \in Workers
  BY DEF IInv, TypeOK, Token
<1>12. JtiGiven'
  <2>1. \A t \in tokens : t.jti \in given'[t.by]
    BY <1>10, <1>11 DEF IInv, JtiGiven
  <2>2. new.jti \in given'[new.by]
    BY <1>10
  <2> HIDE DEF new
  <2> QED
    BY <1>2, <2>1, <2>2 DEF JtiGiven
<1>13. TokensDistinct'
  <2>1. SUFFICES ASSUME Orderly', NEW s \in tokens', NEW t \in tokens', s.by = t.by,
                        s.jti = t.jti
                 PROVE  s = t
    BY DEF TokensDistinct
  <2>2. Orderly
    BY <1>2, <2>1 DEF GetCurrentTime, Orderly
  <2>3. Timestamp(w) \notin given[w]
    <3>1. \A p \in given[w] : p < Timestamp(w)
      BY <1>2, <2>2, TimeIsNew DEF IInv, ClockInv
    <3>2. Timestamp(w) \in Nat
      BY <1>2, GetCurrentTimeType DEF IInv, ClockInv
    <3> QED
      BY <3>1, <3>2
  <2>4. \A x \in tokens : ~(x.by = w /\ x.jti = Timestamp(w))
    BY <2>3 DEF IInv, JtiGiven
  <2>5. new.by = w /\ new.jti = Timestamp(w)
    OBVIOUS
  <2> HIDE DEF new
  <2>6. s \in tokens \/ s = new
    BY <1>2
  <2>7. t \in tokens \/ t = new
    BY <1>2
  <2>8. CASE s \in tokens /\ t \in tokens
    BY <2>1, <2>2, <2>8 DEF IInv, TokensDistinct
  <2> QED
    BY <2>1, <2>4, <2>5, <2>6, <2>7, <2>8
<1> QED
  BY <1>3, <1>7, <1>8, <1>9, <1>12, <1>13 DEF IInv

\* A change of a secret makes the logins under way with it proper, and marks
\* the renewals to come as overtaken.
LEMMA SetSecretInv == ASSUME IInv, SetSecret PROVE IInv'
<1>1. PICK u \in Users, s \in Secrets :
        /\ password' = [password EXCEPT ![u] = s]
        /\ owned' = [owned EXCEPT ![u] = s]
        /\ chosen' = [chosen EXCEPT ![u] = @ \cup {s}]
        /\ restored' = restored \ {u}
        /\ op' = [w \in Workers |->
                    IF At(w, "select") /\ op[w].user = u
                    THEN Login("select", u, op[w].secret,
                               op[w].proper \/ op[w].secret = s, FALSE)
                    ELSE IF At(w, "update") /\ op[w].user = u
                    THEN Login("update", u, op[w].secret, op[w].proper, TRUE)
                    ELSE op[w]]
  BY DEF SetSecret
<1>2. UNCHANGED <<clockVars, plain, cfg, tokens>> /\ sets' = sets + 1
  BY DEF SetSecret
<1>3. ClockInv'
  BY <1>2 DEF IInv, ClockInv, ClockTypeOK, TimesBelow, NeverTwice, Orderly, clockVars
<1>4. \A w \in Workers : OpOK(op[w])' /\ LoginOK(op[w])'
  <2> SUFFICES ASSUME NEW w \in Workers PROVE OpOK(op[w])' /\ LoginOK(op[w])'
    OBVIOUS
  <2>0. OpOK(op[w]) /\ LoginOK(op[w]) /\ owned \in [Users -> Secrets] /\ tokens' = tokens
         /\ plain' = plain
    BY <1>2 DEF IInv, TypeOK, LoginInv
  <2>1. CASE At(w, "select") /\ op[w].user = u
    <3>1. op[w] \in [at : {"select", "update", "issue"}, user : Users \cup {Quoted},
                     secret : Secrets, proper : BOOLEAN, overlapped : BOOLEAN]
      BY <2>1, OpKinds DEF At, IInv
    <3>2. op'[w] = Login("select", u, op[w].secret, op[w].proper \/ op[w].secret = s, FALSE)
      BY <1>1, <2>1
    <3>3. owned'[u] = s
      BY <1>1, <2>0
    <3> DEFINE proper == op[w].proper \/ op[w].secret = s
    <3>4. proper \in BOOLEAN /\ (op[w].secret = s => proper)
      BY <3>1
    <3> HIDE DEF proper
    <3>5. op'[w] = Login("select", u, op[w].secret, proper, FALSE)
      BY <3>2 DEF proper
    <3>6. OpOK(op[w])'
      BY <3>1, <3>4, <3>5 DEF Login, OpOK
    <3>7. LoginOK(op[w])'
      BY <3>3, <3>4, <3>5 DEF Login, LoginOK
    <3> QED
      BY <3>6, <3>7
  <2>2. CASE At(w, "update") /\ op[w].user = u
    <3>1. op[w] \in [at : {"select", "update", "issue"}, user : Users \cup {Quoted},
                     secret : Secrets, proper : BOOLEAN, overlapped : BOOLEAN]
      BY <2>2, OpKinds DEF At, IInv
    <3>2. op'[w] = Login("update", u, op[w].secret, op[w].proper, TRUE)
      BY <1>1, <2>2 DEF At
    <3>3. chosen[u] \subseteq chosen'[u]
      BY <1>1 DEF IInv, TypeOK
    <3> QED
      BY <2>0, <2>2, <3>1, <3>2, <3>3 DEF Login, OpOK, LoginOK, At
  <2>3. CASE op[w].at \in {"select", "update"} /\ op[w].user # u
    <3>1. op'[w] = op[w]
      BY <1>1, <2>3
    <3>2. owned'[op[w].user] = owned[op[w].user] /\ chosen'[op[w].user] = chosen[op[w].user]
      BY <1>1, <2>0, <2>3 DEF IInv, TypeOK
    <3>3. op[w].user \notin restored' => op[w].user \notin restored
      BY <1>1, <2>3
    <3> QED
      BY <2>0, <3>1, <3>2, <3>3 DEF OpOK, LoginOK
  <2>4. CASE op[w].at \notin {"select", "update"}
    <3>1. op'[w] = op[w]
      BY <1>1, <2>4 DEF At
    <3> QED
      BY <2>0, <2>4, <3>1 DEF OpOK, LoginOK
  <2> QED
    BY <2>1, <2>2, <2>3, <2>4 DEF At
<1>5. TypeOK'
  <2>1. /\ password' \in [Users -> Secrets \cup {NoHash}]
        /\ owned' \in [Users -> Secrets]
        /\ chosen' \in [Users -> SUBSET Secrets]
        /\ restored' \subseteq Users
        /\ sets' \in Nat
        /\ DOMAIN op' = Workers
    BY <1>1, <1>2 DEF IInv, TypeOK
  <2> QED
    BY <1>2, <1>3, <1>4, <2>1 DEF IInv, TypeOK, ClockInv
<1>6. SecretKept'
  BY <1>1, <1>2 DEF IInv, TypeOK, SecretKept
<1> QED
  BY <1>2, <1>3, <1>4, <1>5, <1>6
     DEF IInv, LoginInv, OnlyOwners, JtiGiven, TokensDistinct, clockVars, Orderly

\* The file may be read, and time pass, at any time.
LEMMA AroundInv == ASSUME IInv, Time \/ \E w \in Workers : Reload(w) PROVE IInv'
<1>1. UNCHANGED <<usersVars, op, tokens>> /\ given' = given /\ crowded' = crowded
      /\ backs' >= backs /\ cfg' \in [Workers -> Confs]
  BY DEF Time, Tick, SetBack, Reload, IInv, TypeOK, ClockTypeOK, clockVars
<1>2. ClockInv'
  <2>1. ClockInv
    BY DEF IInv
  <2>2. [ClockNext]_clockVars
    BY DEF Time, Reload, ClockNext
  <2> QED
    BY <2>1, <2>2, ClockStep
<1>3. TypeOK'
  <2>1. \A v \in Workers : OpOK(op[v])'
    BY <1>1 DEF IInv, TypeOK, OpOK
  <2> QED
    BY <1>1, <1>2, <2>1 DEF IInv, TypeOK, ClockInv, usersVars
<1>4. LoginInv'
  BY <1>1 DEF IInv, LoginInv, LoginOK, usersVars
<1>5. TokensDistinct'
  <2>1. Orderly' => Orderly
    BY <1>1 DEF IInv, TypeOK, ClockTypeOK, Orderly
  <2> QED
    BY <1>1, <2>1 DEF IInv, TokensDistinct
<1> QED
  BY <1>1, <1>2, <1>3, <1>4, <1>5 DEF IInv, SecretKept, OnlyOwners, JtiGiven, usersVars

LEMMA NextInv == IInv /\ [Next]_vars => IInv'
<1> SUFFICES ASSUME IInv, [Next]_vars PROVE IInv'
  OBVIOUS
<1>1. ASSUME NEW w \in Workers, Authenticate(w) \/ Verify(w) \/ Select(w) \/ SelectOther(w)
              \/ Update(w) \/ ReadTime(w) \/ Stamp(w) \/ Signature(w) \/ Admit(w) \/ Refuse(w)
      PROVE  IInv'
  BY <1>1, AuthenticateInv, VerifyInv, SelectInv, SelectOtherInv, UpdateInv, ReadTimeInv, StampInv,
     SignatureInv, AnsweredInv
<1>2. CASE SetSecret
  BY <1>2, SetSecretInv
<1>3. CASE Time \/ \E w \in Workers : Reload(w)
  BY <1>3, AroundInv
<1>4. CASE UNCHANGED vars
  <2>1. ClockInv'
    BY <1>4, ClockStep DEF IInv, vars
  <2>2. TypeOK'
    <3>1. \A v \in Workers : OpOK(op[v])'
      BY <1>4 DEF IInv, TypeOK, OpOK, vars
    <3> QED
      BY <1>4, <2>1, <3>1 DEF IInv, TypeOK, ClockInv, vars, usersVars
  <2>3. LoginInv'
    BY <1>4 DEF IInv, LoginInv, LoginOK, vars, usersVars
  <2> QED
    BY <1>4, <2>1, <2>2, <2>3
       DEF IInv, SecretKept, OnlyOwners, JtiGiven, TokensDistinct, vars, usersVars,
       clockVars, Orderly
<1> QED
  BY <1>1, <1>2, <1>3, <1>4 DEF Next

-----------------------------------------------------------------------------
(* What follows for every run.                                             *)

\* The state of logins, tokens and the clock keeps its shape.
THEOREM TypeCorrect == Spec => []TypeOK
BY InitInv, NextInv, PTL DEF Spec, IInv

\* For any number of workers, logins and changes of secrets, while every name
\* stays within the quotes of the query: no renewal takes a secret away unless
\* it was overtaken by a change or its hash failed, and then the user has one he
\* chose earlier, or none.
THEOREM SecretsStay == Spec => []SecretKept
BY InitInv, NextInv, PTL DEF Spec, IInv

\* While every name stays within the quotes of the query, a token was issued
\* for a secret of its user only.
THEOREM TokensAreOwned == Spec => []OnlyOwners
BY InitInv, NextInv, PTL DEF Spec, IInv

\* No two tokens of a worker have one identifier.
THEOREM TokensDiffer == Spec => []TokensDistinct
BY InitInv, NextInv, PTL DEF Spec, IInv

-----------------------------------------------------------------------------
(* The time of a token.                                                    *)

\* A token, or what will be one, was issued at the second of its birth, and
\* while the clock is not set back its birth is not in the future.
Born(r) ==
    /\ r.iat = r.born \div PerSecond
    /\ r.backs <= backs
    /\ r.backs = backs => r.born <= now

TimeInv ==
    /\ \A w \in Workers : At(w, "stamp") => Born(op[w])
    /\ \A t \in tokens : Born(t) /\ t.exp - t.iat \in Nat

\* Seconds are what they are.
LEMMA SecondBounds ==
    ASSUME NEW x \in Nat
    PROVE  /\ x \div PerSecond \in Nat
           /\ (x \div PerSecond) * PerSecond <= x
           /\ x < (x \div PerSecond) * PerSecond + PerSecond
BY SecondAssumption

LEMMA SecondsGrow ==
    ASSUME NEW x \in Nat, NEW y \in Nat, x <= y
    PROVE  x \div PerSecond <= y \div PerSecond
BY SecondAssumption

LEMMA TimeInit == Init => TimeInv
BY DEF Init, TimeInv, At, Idle

\* What was born stays so, whatever the clock does.
LEMMA BornStays ==
    ASSUME IInv, Time \/ UNCHANGED <<now, backs>>,
           NEW r, Born(r), r.born \in Nat, r.backs \in Nat
    PROVE  Born(r)'
<1>1. now \in Nat /\ backs \in Nat
  BY DEF IInv, TypeOK, ClockTypeOK
<1>2. \/ now' = now /\ backs' = backs
      \/ now' = now + 1 /\ backs' = backs
      \/ backs' = backs + 1
  BY DEF Time, Tick, SetBack
<1> QED
  BY <1>1, <1>2 DEF Born

LEMMA TimeStep == IInv /\ TimeInv /\ [Next]_vars => TimeInv'
<1> SUFFICES ASSUME IInv, TimeInv, [Next]_vars PROVE TimeInv'
  OBVIOUS
<1>1. \A t \in tokens : t.born \in Nat /\ t.backs \in Nat
  BY DEF IInv, TypeOK, Token
<1>2. ASSUME NEW w \in Workers, At(w, "stamp")
      PROVE  op[w].born \in Nat /\ op[w].backs \in Nat /\ op[w].iat \in Nat
  BY <1>2, OpKinds DEF At, IInv
<1>3. CASE Time
  <2>1. UNCHANGED <<op, tokens>>
    BY <1>3 DEF Time
  <2>2. \A w \in Workers : At(w, "stamp") => Born(op[w])'
    BY <1>2, <1>3, <2>1, BornStays DEF TimeInv, Born
  <2>3. \A t \in tokens : Born(t)'
    BY <1>1, <1>3, BornStays DEF TimeInv
  <2> QED
    BY <2>1, <2>2, <2>3 DEF TimeInv, At, Born
<1>4. ASSUME NEW w \in Workers, ReadTime(w) PROVE TimeInv'
  <2> DEFINE o == [at |-> "stamp", user |-> op[w].user, proper |-> op[w].proper,
                   iat |-> Second, born |-> now, backs |-> backs]
  <2>1. /\ UNCHANGED <<now, backs, tokens>>
        /\ op'[w] = o /\ \A v \in Workers \ {w} : op'[v] = op[v]
    BY <1>4, TurnOf DEF ReadTime, IInv, clockVars
  <2>2. now \in Nat /\ backs \in Nat
    BY DEF IInv, TypeOK, ClockTypeOK
  <2>3. Born(op[w])'
    BY <2>1, <2>2 DEF Born, Second
  <2>4. \A v \in Workers \ {w} : At(v, "stamp")' => Born(op[v])'
    BY <2>1 DEF TimeInv, At, Born
  <2>5. \A t \in tokens' : Born(t)' /\ t.exp - t.iat \in Nat
    BY <2>1 DEF TimeInv, Born
  <2> QED
    BY <2>3, <2>4, <2>5 DEF TimeInv
<1>5. ASSUME NEW w \in Workers, Stamp(w) PROVE TimeInv'
  <2> DEFINE new == [oid |-> op[w].user, iat |-> op[w].iat, exp |-> op[w].iat + cfg[w].session,
                     jti |-> Timestamp(w), key |-> cfg[w].key,
                     by |-> w, proper |-> op[w].proper, born |-> op[w].born,
                     backs |-> op[w].backs]
  <2>1. /\ UNCHANGED <<now, backs>> /\ tokens' = tokens \cup {new}
        /\ op'[w] = Idle /\ \A v \in Workers \ {w} : op'[v] = op[v]
    BY <1>5, TurnOf DEF Stamp, GetCurrentTime, IInv
  <2>2. Born(op[w]) /\ op[w].iat \in Nat
    BY <1>2, <1>5 DEF Stamp, TimeInv
  <2>3. cfg[w].session \in Nat
    BY ConfAssumption DEF IInv, TypeOK
  <2>4. ASSUME NEW t, t = new PROVE Born(t)' /\ t.exp - t.iat \in Nat
    BY <2>1, <2>2, <2>3, <2>4 DEF Born
  <2>5. \A v \in Workers : At(v, "stamp")' => Born(op[v])'
    BY <2>1 DEF TimeInv, At, Born, Idle
  <2> HIDE DEF new
  <2>6. \A t \in tokens' : Born(t)' /\ t.exp - t.iat \in Nat
    BY <2>1, <2>4 DEF TimeInv, Born
  <2> QED
    BY <2>5, <2>6 DEF TimeInv
<1>6. ASSUME UNCHANGED <<now, backs, tokens>>,
             \A w \in Workers : At(w, "stamp")' => op'[w] = op[w]
      PROVE  TimeInv'
  BY <1>6 DEF TimeInv, At, Born
<1>7. ASSUME NEW w \in Workers, Authenticate(w) \/ Verify(w) \/ Select(w) \/ SelectOther(w)
              \/ Update(w) \/ Signature(w) \/ Admit(w) \/ Refuse(w)
      PROVE  TimeInv'
  <2>1. UNCHANGED <<now, backs, tokens>>
    BY <1>7 DEF Authenticate, Verify, Select, SelectOther, Update, Signature, Admit, Refuse,
              clockVars
  <2>2. PICK o : Turn(w, o) /\ o.at # "stamp"
    <3>1. CASE Authenticate(w)
      <4>1. PICK u, s, proper : Turn(w, Login("select", u, s, proper, FALSE))
        BY <3>1 DEF Authenticate
      <4>2. Login("select", u, s, proper, FALSE).at # "stamp"
        BY DEF Login
      <4> QED
        BY <4>1, <4>2
    <3>2. CASE Verify(w) \/ Signature(w)
      <4>1. PICK place \in {"signature", "expiry"}, t \in tokens :
              Turn(w, [at |-> place, token |-> t])
        BY <3>2, OpKinds DEF Verify, Signature, At, IInv
      <4>2. [at |-> place, token |-> t].at # "stamp"
        OBVIOUS
      <4> QED
        BY <4>1, <4>2
    <3>3. CASE Select(w) /\ ~Turn(w, Idle)
      <4> DEFINE o == Login("update", op[w].user, op[w].secret,
                            op[w].proper \/ Restored(w), FALSE)
      <4>1. Turn(w, o)
        BY <3>3 DEF Select
      <4>2. o.at # "stamp"
        BY DEF Login
      <4> QED
        BY <4>1, <4>2
    <3>4. CASE Update(w)
      <4> DEFINE o == Login("issue", op[w].user, op[w].secret, op[w].proper, op[w].overlapped)
      <4>1. Turn(w, o)
        BY <3>4 DEF Update
      <4>2. o.at # "stamp"
        BY DEF Login
      <4> QED
        BY <4>1, <4>2
    <3>5. CASE SelectOther(w) /\ ~Turn(w, Idle)
      <4>1. PICK u \in Users : Turn(w, Login("update", u, op[w].secret, FALSE, FALSE))
        BY <3>5 DEF SelectOther
      <4>2. Login("update", u, op[w].secret, FALSE, FALSE).at # "stamp"
        BY DEF Login
      <4> QED
        BY <4>1, <4>2
    <3>6. CASE Turn(w, Idle)
      BY <3>6 DEF Idle
    <3> QED
      BY <1>7, <3>1, <3>2, <3>3, <3>4, <3>5, <3>6 DEF Admit, Refuse
  <2>3. op'[w] = o /\ \A v \in Workers \ {w} : op'[v] = op[v]
    BY <2>2, TurnOf DEF IInv
  <2> QED
    BY <1>6, <2>1, <2>2, <2>3 DEF At
<1>8. CASE SetSecret
  <2>1. UNCHANGED <<now, backs, tokens>>
    BY <1>8 DEF SetSecret, clockVars
  <2>2. ASSUME NEW w \in Workers, At(w, "stamp")' PROVE op'[w] = op[w]
    BY <1>8, <2>2 DEF SetSecret, At, Login
  <2> QED
    BY <1>6, <2>1, <2>2
<1>9. CASE UNCHANGED vars \/ \E w \in Workers : Reload(w)
  <2>1. UNCHANGED <<now, backs, tokens, op>>
    BY <1>9 DEF Reload, vars, clockVars
  <2> QED
    BY <1>6, <2>1
<1> QED
  BY <1>3, <1>4, <1>5, <1>7, <1>8, <1>9 DEF Next

\* What is admitted is younger than its session time and a second; what is
\* refused, though it has the key, is older than its session time.
LEMMA OfItsTimeHolds ==
    ASSUME IInv, TimeInv, NEW w \in Workers
    PROVE  OfItsTime(w)
<1> DEFINE t == op[w].token
           issued == t.born \div PerSecond
           session == t.exp - t.iat
<1>1. SUFFICES ASSUME Admit(w) \/ Refuse(w), t.key = cfg[w].key, t.backs = backs
               PROVE  /\ Admit(w) => now - t.born < (session + 1) * PerSecond
                      /\ Refuse(w) => now - t.born > session * PerSecond
  BY DEF OfItsTime
<1>2. t \in tokens
  BY <1>1, OpKinds DEF Admit, Refuse, At, IInv
<1>3. t.born \in Nat /\ t.iat = issued /\ t.born <= now /\ session \in Nat /\ t.exp \in Nat
      /\ now \in Nat
  BY <1>1, <1>2 DEF IInv, TypeOK, ClockTypeOK, Token, TimeInv, Born
<1>4. /\ issued \in Nat /\ Second \in Nat /\ issued <= Second
      /\ issued * PerSecond <= t.born /\ t.born < issued * PerSecond + PerSecond
      /\ Second * PerSecond <= now /\ now < Second * PerSecond + PerSecond
  BY <1>3, SecondBounds, SecondsGrow DEF Second
<1>5. t.exp = issued + session
  BY <1>3, <1>4
<1>6. PerSecond \in Nat
  BY SecondAssumption
<1> HIDE DEF t, issued, session
<1>7. CASE Admit(w)
  <2>1. Second <= issued + session
    BY <1>3, <1>4, <1>5, <1>7 DEF Admit, Expired, t
  <2>2. Second * PerSecond <= (issued + session) * PerSecond
    BY <1>3, <1>4, <1>6, <2>1
  <2>3. (issued + session) * PerSecond = issued * PerSecond + session * PerSecond
    BY <1>3, <1>4, <1>6
  <2>4. (session + 1) * PerSecond = session * PerSecond + PerSecond
    BY <1>3, <1>6
  <2>5. session * PerSecond \in Nat /\ issued * PerSecond \in Nat /\ Second * PerSecond \in Nat
    BY <1>3, <1>4, <1>6
  <2>6. ~Refuse(w)
    BY <1>7 DEF Admit, Refuse, At
  <2> QED
    BY <1>3, <1>4, <1>6, <2>2, <2>3, <2>4, <2>5, <2>6
<1>8. CASE Refuse(w)
  <2>1. Second >= issued + session + 1
    BY <1>1, <1>3, <1>4, <1>5, <1>8 DEF Refuse, Active, Expired, t
  <2>2. Second * PerSecond >= (issued + session + 1) * PerSecond
    BY <1>3, <1>4, <1>6, <2>1
  <2>3. (issued + session + 1) * PerSecond = issued * PerSecond + session * PerSecond + PerSecond
    BY <1>3, <1>4, <1>6
  <2>4. session * PerSecond \in Nat /\ issued * PerSecond \in Nat /\ Second * PerSecond \in Nat
    BY <1>3, <1>4, <1>6
  <2>5. ~Admit(w)
    BY <1>8 DEF Admit, Refuse, At
  <2> QED
    BY <1>3, <1>4, <1>6, <2>2, <2>3, <2>4, <2>5
<1> QED
  BY <1>1, <1>7, <1>8

\* For any session time and any number of ticks in a second, a token of the
\* right key lives its session time and no second more.
THEOREM TokensLiveTheirTime == Spec => LivesItsTime
<1>1. IInv /\ TimeInv => \A w \in Workers : OfItsTime(w)
  BY OfItsTimeHolds
<1> QED
  BY <1>1, InitInv, NextInv, TimeInit, TimeStep, PTL DEF Spec, LivesItsTime
=============================================================================
