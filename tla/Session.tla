------------------------------- MODULE Session -------------------------------
(***************************************************************************)
(* Logins and tokens, from jwt_authenticate (controllers/endpoint_auth.c)  *)
(* through model_principal_auth, crypt.c and jwt_token_new to jwt_verify   *)
(* behind middleware auth_jwt, in several workers that share a table of    *)
(* users and a clock, each with the configuration it loaded last.          *)
(*                                                                         *)
(* Each query and each reading of the clock is a step of its own; what     *)
(* happens between two of them in one worker is not seen by others.  A     *)
(* hash is told apart by the secret that it verifies, a signature by its   *)
(* key.  A token keeps, as history, when and by whom it was issued.        *)
(***************************************************************************)
EXTENDS QuidClock

CONSTANTS Users, Secrets,
          Quoted,    \* a name that does not stay within the quotes of the query
          NoHash,    \* what printing a NULL for a hash leaves in the table
          Confs,     \* the key and the session time the configuration file may have
          PerSecond, \* ticks of the clock in a second
          MaxTokens, \* bound of the model on the tokens issued
          MaxSets    \* bound of the model on the changes of the table, but for renewals

ASSUME SecondAssumption == PerSecond \in Nat \ {0}
ASSUME NoHashAssumption == NoHash \notin Secrets
ASSUME QuotedAssumption == Quoted \notin Users
ASSUME ConfAssumption == Confs \subseteq [key : STRING, session : Nat]

VARIABLES password, \* the column of the table, as the secret that it verifies
          owned,    \* history: the secret that each user last chose
          chosen,   \* history: every secret that each user has chosen
          restored, \* history: users whose old secret a renewal has brought back
          sets,     \* how often the table was changed, but for renewals
          plain,    \* history: every query so far was the lookup it is meant to be
          cfg,      \* the configuration of each worker
          op,       \* the request in turn of each worker
          tokens    \* every token issued

usersVars == <<password, owned, chosen, restored, sets, plain>>
vars == <<clockVars, usersVars, cfg, op, tokens>>

\* A worker without a request.
Idle == [at |-> "idle"]

Init ==
    /\ ClockInit
    /\ owned \in [Users -> Secrets]
    /\ password = owned
    /\ chosen = [u \in Users |-> {owned[u]}]
    /\ restored = {}
    /\ sets = 0
    /\ plain = TRUE
    /\ \E c \in Confs : cfg = [w \in Workers |-> c]
    /\ op = [w \in Workers |-> Idle]
    /\ tokens = {}

\* time(NULL).
Second == now \div PerSecond

At(w, place) == op[w].at = place
Turn(w, o) == op' = [op EXCEPT ![w] = o]

-----------------------------------------------------------------------------
(* jwt_authenticate.  A login that fails is answered and leaves nothing.   *)

\* History in it: the secret was the user's at some time since the request,
\* and it was changed since the query.
Login(place, u, s, proper, overlapped) ==
    [at |-> place, user |-> u, secret |-> s, proper |-> proper, overlapped |-> overlapped]

Authenticate(w) ==
    /\ At(w, "idle")
    /\ \E s \in Secrets :
        \/ \E u \in Users : Turn(w, Login("select", u, s, s = owned[u], FALSE))
        \/ Turn(w, Login("select", Quoted, s, FALSE, FALSE))
    /\ UNCHANGED <<clockVars, usersVars, cfg, tokens>>

\* Seeded fault: it is enough that there is such a user.
MatchesAlways(w) == password[op[w].user] \in Secrets

\* crypt_password_verify.
Matches(w) == password[op[w].user] = op[w].secret

\* History: the secret is one that a renewal may have brought back.
Restored(w) == op[w].user \in restored /\ op[w].secret \in chosen[op[w].user]

\* The first query of model_principal_auth.
Select(w) ==
    /\ At(w, "select")
    /\ \/ Turn(w, Idle)
       \/ /\ op[w].user # Quoted
          /\ Matches(w)
          /\ Turn(w, Login("update", op[w].user, op[w].secret,
                           op[w].proper \/ Restored(w), FALSE))
    /\ UNCHANGED <<clockVars, usersVars, cfg, tokens>>

\* The name goes into the query as it is.  One that closes the quotes makes
\* another query of it: this may change the table, and answer with any row and
\* any hash, so with one that the secret verifies.
SelectOther(w) ==
    /\ At(w, "select")
    /\ op[w].user = Quoted
    /\ sets < MaxSets
    /\ sets' = sets + 1
    /\ plain' = FALSE
    /\ password' \in [Users -> Secrets \cup {NoHash}]
    /\ \/ Turn(w, Idle)
       \/ \E u \in Users : Turn(w, Login("update", u, op[w].secret, FALSE, FALSE))
    /\ UNCHANGED <<clockVars, owned, chosen, restored, cfg, tokens>>

\* Seeded fault: the name is hashed and not the secret.
HashesOfName(w) == {op[w].user, NoHash}

\* crypt_password_hash.
Hashes(w) == {op[w].secret, NoHash}

\* The hash of the secret, or NULL, printed into the second query; the object
\* identifier is returned also if this query fails.
Update(w) ==
    /\ At(w, "update")
    /\ \/ /\ \E hash \in Hashes(w) : password' = [password EXCEPT ![op[w].user] = hash]
          /\ restored' = IF op[w].overlapped THEN restored \cup {op[w].user} ELSE restored
          /\ UNCHANGED <<owned, chosen, sets, plain>>
       \/ UNCHANGED usersVars
    /\ Turn(w, Login("issue", op[w].user, op[w].secret, op[w].proper, op[w].overlapped))
    /\ UNCHANGED <<clockVars, cfg, tokens>>

\* generate_payload reads the time ...
ReadTime(w) ==
    /\ At(w, "issue")
    /\ Turn(w, [at |-> "stamp", user |-> op[w].user, proper |-> op[w].proper,
                iat |-> Second, born |-> now, backs |-> backs])
    /\ UNCHANGED <<clockVars, usersVars, cfg, tokens>>

\* ... and makes an identifier; the token is signed and sent.
Stamp(w) ==
    /\ At(w, "stamp")
    /\ GetCurrentTime(w)
    /\ tokens' = tokens \cup
                    {[oid |-> op[w].user, iat |-> op[w].iat, exp |-> op[w].iat + cfg[w].session,
                      jti |-> Timestamp(w), key |-> cfg[w].key, by |-> w,
                      proper |-> op[w].proper, born |-> op[w].born, backs |-> op[w].backs]}
    /\ Turn(w, Idle)
    /\ UNCHANGED <<usersVars, cfg>>

-----------------------------------------------------------------------------
(* jwt_verify.                                                             *)

\* The token is one that was issued: what has another signature is refused as
\* by check_signature below, and a missing one ends the worker (Worker.AuthJwt).
Verify(w) ==
    /\ At(w, "idle")
    /\ \E t \in tokens : Turn(w, [at |-> "signature", token |-> t])
    /\ UNCHANGED <<clockVars, usersVars, cfg, tokens>>

\* check_signature, and the first reading of the time.
Active(w, t) == t.key = cfg[w].key /\ Second >= t.iat

Signature(w) ==
    /\ At(w, "signature")
    /\ Active(w, op[w].token)
    /\ Turn(w, [at |-> "expiry", token |-> op[w].token])
    /\ UNCHANGED <<clockVars, usersVars, cfg, tokens>>

\* Seeded fault: the last second does not count.
ExpiredAt(t) == Second >= t.exp

Expired(t) == Second > t.exp

\* The second reading of the time.
Admit(w) ==
    /\ At(w, "expiry")
    /\ ~Expired(op[w].token)
    /\ Turn(w, Idle)
    /\ UNCHANGED <<clockVars, usersVars, cfg, tokens>>

Refuse(w) ==
    /\ \/ At(w, "signature") /\ ~Active(w, op[w].token)
       \/ At(w, "expiry") /\ Expired(op[w].token)
    /\ Turn(w, Idle)
    /\ UNCHANGED <<clockVars, usersVars, cfg, tokens>>

-----------------------------------------------------------------------------
(* What is around.                                                         *)

\* The owner of the table changes the secret of a user.
SetSecret ==
    /\ sets < MaxSets
    /\ sets' = sets + 1
    /\ \E u \in Users, s \in Secrets :
        /\ password' = [password EXCEPT ![u] = s]
        /\ owned' = [owned EXCEPT ![u] = s]
        /\ chosen' = [chosen EXCEPT ![u] = @ \cup {s}]
        /\ restored' = restored \ {u}
        /\ op' = [w \in Workers |->
                    IF At(w, "select") /\ op[w].user = u
                    THEN Login("select", u, op[w].secret, op[w].proper \/ op[w].secret = s, FALSE)
                    ELSE IF At(w, "update") /\ op[w].user = u
                    THEN Login("update", u, op[w].secret, op[w].proper, TRUE)
                    ELSE op[w]]
    /\ UNCHANGED <<clockVars, plain, cfg, tokens>>

\* aya_init in one worker, which reads what the file says by now.
Reload(w) ==
    /\ At(w, "idle")
    /\ \E c \in Confs : cfg' = [cfg EXCEPT ![w] = c]
    /\ UNCHANGED <<clockVars, usersVars, op, tokens>>

Time ==
    /\ Tick \/ SetBack
    /\ UNCHANGED <<usersVars, cfg, op, tokens>>

\* The bound on tokens holds back logins that would issue one more.
Room == Cardinality({w \in Workers : op[w].at \in {"select", "update", "issue", "stamp"}})
            + Cardinality(tokens) < MaxTokens

Next ==
    \/ \E w \in Workers : \/ Room /\ Authenticate(w)
                          \/ Verify(w) \/ Reload(w)
                          \/ Select(w) \/ SelectOther(w) \/ Update(w) \/ ReadTime(w) \/ Stamp(w)
                          \/ Signature(w) \/ Admit(w) \/ Refuse(w)
    \/ SetSecret \/ Time

Spec == Init /\ [][Next]_vars

-----------------------------------------------------------------------------
(* Properties.                                                             *)

Token == [oid : Users, iat : Nat, exp : Nat, jti : Nat, key : STRING,
          by : Workers, proper : BOOLEAN, born : Nat, backs : Nat]

OpOK(o) ==
    \/ o \in [at : {"idle"}]
    \/ o \in [at : {"select"}, user : Users \cup {Quoted}, secret : Secrets,
             proper : BOOLEAN, overlapped : BOOLEAN]
    \/ o \in [at : {"update", "issue"}, user : Users, secret : Secrets,
             proper : BOOLEAN, overlapped : BOOLEAN]
    \/ o \in [at : {"stamp"}, user : Users, proper : BOOLEAN, iat : Nat, born : Nat, backs : Nat]
    \/ o \in [at : {"signature", "expiry"}, token : tokens]

TypeOK ==
    /\ ClockTypeOK
    /\ password \in [Users -> Secrets \cup {NoHash}]
    /\ owned \in [Users -> Secrets]
    /\ chosen \in [Users -> SUBSET Secrets]
    /\ restored \subseteq Users
    /\ sets \in Nat
    /\ plain \in BOOLEAN
    /\ cfg \in [Workers -> Confs]
    /\ tokens \subseteq Token
    /\ DOMAIN op = Workers
    /\ \A w \in Workers : OpOK(op[w])

\* As long as every name stays within the quotes of the query: however logins,
\* renewals and changes of secrets overlap, a user has the secret he chose,
\* with two exceptions that the code has and no other.  A renewal that had
\* begun before a change may write after it (principal.c:73): then he has one he
\* chose earlier, never one of another login.  And a hash that could not be made
\* leaves none (principal.c:71).
SecretKept ==
    plain => \A u \in Users : /\ password[u] \in chosen[u] \cup {NoHash}
                              /\ u \in restored \/ password[u] \in {owned[u], NoHash}

\* As long as every name stays within the quotes of the query: a token names a
\* user whose secret was given, and was his at some time between the request
\* and the query, or was his earlier and a renewal restored it.  A login whose name makes
\* another query of it may be given the token of any user (principal.c:48).
OnlyOwners == plain => \A t \in tokens : t.proper

\* The identifiers of two tokens of one worker differ, in the runs in which
\* the times do that it is given.
TokensDistinct ==
    Orderly => \A s, t \in tokens : s.by = t.by /\ s.jti = t.jti => s = t

OfItsTime(w) ==
    LET t == op[w].token
        age == now - t.born
        session == t.exp - t.iat
        trusted == t.key = cfg[w].key /\ t.backs = backs
    IN  /\ Admit(w) /\ trusted => age < (session + 1) * PerSecond
        /\ Refuse(w) /\ trusted => age > session * PerSecond

\* With the key it was signed with, and while the clock is not set back, a
\* token is admitted by every worker until its session time has passed, though
\* whole seconds are compared and the time is read twice, and refused by all
\* from a second later on.
LivesItsTime == [][\A w \in Workers : OfItsTime(w)]_vars
==============================================================================
