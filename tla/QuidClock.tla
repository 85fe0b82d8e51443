------------------------------ MODULE QuidClock ------------------------------
(***************************************************************************)
(* The clock of identifiers, get_current_time of vendor/quid/quid.c, with  *)
(* its static variables in each worker.  The time of an identifier is what *)
(* the clock of the system shows plus a counter, which starts anew when    *)
(* the clock shows another time; when it is used up, the call goes round   *)
(* until then, that is, it is not enabled here.                            *)
(***************************************************************************)
EXTENDS Naturals, FiniteSets

CONSTANTS Workers,
          UIDS_PER_TICK,  \* the counter goes up to: 1024
          Resolution,     \* units of time from one reading of the clock to the next: 10
          MaxTime,   \* bound of the model on the clock
          MaxBacks   \* bound of the model on how often the clock is set back

ASSUME LimitIsNat == UIDS_PER_TICK \in Nat
ASSUME ResolutionAssumption == Resolution \in Nat \ {0}
ASSUME BoundsAreNat == MaxTime \in Nat /\ MaxBacks \in Nat

VARIABLES now,            \* the readings of the clock of the system, which start at 1
          backs,          \* history: how often it was set back
          time_last,      \* statics of get_current_time, per worker
          ids_this_tick,
          calls,          \* history: how many calls came back, per worker
          given,          \* history: the times they handed out
          crowded         \* history: a counter has reached the next reading

clockVars == <<now, backs, time_last, ids_this_tick, calls, given, crowded>>

ClockInit ==
    /\ now = 1
    /\ backs = 0
    /\ time_last = [w \in Workers |-> 0]
    /\ ids_this_tick = [w \in Workers |-> UIDS_PER_TICK]
    /\ calls = [w \in Workers |-> 0]
    /\ given = [w \in Workers |-> {}]
    /\ crowded = FALSE

Tick ==
    /\ now < MaxTime
    /\ now' = now + 1
    /\ UNCHANGED <<backs, time_last, ids_this_tick, calls, given, crowded>>

SetBack ==
    /\ backs < MaxBacks
    /\ now' \in 1..now - 1
    /\ backs' = backs + 1
    /\ UNCHANGED <<time_last, ids_this_tick, calls, given, crowded>>

\* Seeded fault: the time of the tick is not kept.
FirstOfTickForgotten(w) ==
    /\ time_last[w] # now
    /\ ids_this_tick' = [ids_this_tick EXCEPT ![w] = 0]
    /\ UNCHANGED time_last

FirstOfTick(w) ==
    /\ time_last[w] # now
    /\ ids_this_tick' = [ids_this_tick EXCEPT ![w] = 0]
    /\ time_last' = [time_last EXCEPT ![w] = now]

AnotherOfTick(w) ==
    /\ time_last[w] = now
    /\ ids_this_tick[w] < UIDS_PER_TICK
    /\ ids_this_tick' = [ids_this_tick EXCEPT ![w] = @ + 1]
    /\ UNCHANGED time_last

\* Seeded fault: the counter is left out.
TimeAlone(w) == now * Resolution

\* What a call hands out.
Timestamp(w) == now * Resolution + ids_this_tick'[w]

GetCurrentTime(w) ==
    /\ FirstOfTick(w) \/ AnotherOfTick(w)
    /\ calls' = [calls EXCEPT ![w] = @ + 1]
    /\ given' = [given EXCEPT ![w] = @ \cup {Timestamp(w)}]
    /\ crowded' = (crowded \/ ids_this_tick'[w] >= Resolution)
    /\ UNCHANGED <<now, backs>>

ClockNext == Tick \/ SetBack \/ \E w \in Workers : GetCurrentTime(w)

ClockSpec == ClockInit /\ [][ClockNext]_clockVars

-----------------------------------------------------------------------------
(* Properties.                                                             *)

ClockTypeOK ==
    /\ now \in Nat \ {0}
    /\ backs \in Nat
    /\ time_last \in [Workers -> Nat]
    /\ ids_this_tick \in [Workers -> 0..UIDS_PER_TICK]
    /\ calls \in [Workers -> Nat]
    /\ given \in [Workers -> SUBSET Nat]
    /\ crowded \in BOOLEAN

\* The clock was not set back, and no worker has had more identifiers of one
\* reading than there are units of time to the next.  UIDS_PER_TICK, which is
\* greater, does not see to that.
Orderly == backs = 0 /\ ~crowded

\* In such a run get_current_time hands out no time a second time in a worker,
\* though times are sums of a reading and a counter.
NeverTwice == Orderly => \A w \in Workers : Cardinality(given[w]) = calls[w]
=============================================================================
