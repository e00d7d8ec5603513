----------------------------- MODULE RateLimiter -----------------------------
(***************************************************************************)
(* RateLimiter of backend/tasksd/auth.py and its two users in app.py: the  *)
(* public booking routes, where every request counts and is checked and    *)
(* recorded in one step of the event loop (_throttle), and login, where    *)
(* the password is hashed in a thread between the check and the record.    *)
(***************************************************************************)
EXTENDS Naturals, Sequences, FiniteSets

CONSTANTS
    Keys,       \* client or link keys
    MaxFails,   \* max_fails
    Window,     \* window_s, in ticks
    Lockout,    \* lockout_s, in ticks
    MaxFlying,  \* bound: logins of a key that are being hashed
    MaxTime     \* bound: the last tick

ASSUME FailsAssumption == MaxFails \in Nat \ {0} /\ MaxFlying \in Nat
ASSUME TimesAssumption ==
    /\ Window \in Nat \ {0} /\ Lockout \in Nat \ {0}
    /\ MaxTime \in Nat /\ Window <= MaxTime

VARIABLES
    public,     \* this limiter guards the public routes, or else login
    now,        \* time.monotonic()
    fails,      \* fails[k]: times of the recorded failures; <<>> if k is absent
    locked,     \* locked[k]: the end of the lockout; 0 if k is absent
    lastSweep,  \* _last_sweep
    flying,     \* flying[k]: logins let in and not recorded yet
    admitted    \* history: the times of k's public requests that were let in

limiter == <<fails, locked, lastSweep>>
vars    == <<public, now, limiter, flying, admitted>>

-----------------------------------------------------------------------------
(* The class                                                               *)

\* Mutated form: failures never age out.
RecentAll(times, t) == times

\* Those of the times, which are in the order of the clock, that are less than
\* n ticks before t: all but the first ones.
Within(times, t, n) ==
    SubSeq(times, 1 + Cardinality({i \in DOMAIN times : t - times[i] >= n}), Len(times))

Recent(times, t) == Within(times, t, Window)

\* Mutated form: lockouts are evicted with the failures they came from.
UnlockedAll(lk, t) == [k \in Keys |-> IF lk[k] <= t + Window THEN 0 ELSE lk[k]]

\* _sweep, first loop: expired lockouts.
Unlocked(lk, t) == [k \in Keys |-> IF lk[k] <= t THEN 0 ELSE lk[k]]

\* Mutated form: a key that has a single live failure is dropped.
SweptFailsEager(fs, lk, t) ==
    [k \in Keys |-> IF Len(Recent(fs[k], t)) > 1 \/ lk[k] # 0 THEN fs[k] ELSE <<>>]

\* _sweep, second loop: failures that have aged out, unless the key is locked.
SweptFails(fs, lk, t) ==
    [k \in Keys |-> IF Recent(fs[k], t) # <<>> \/ lk[k] = 0 THEN Recent(fs[k], t) ELSE fs[k]]

\* Mutated form: the first sweep is the last.
DueOnce == lastSweep = 0 /\ now >= Window

\* _maybe_sweep: at most one pass per window.
Due == now - lastSweep >= Window

Fails0  == IF Due THEN SweptFails(fails, Unlocked(locked, now), now) ELSE fails
Locked0 == IF Due THEN Unlocked(locked, now) ELSE locked

\* allowed(k), which forgets k's lockout once that is over.
Allowed(k)  == Locked0[k] <= now
Locked1(k)  == IF Allowed(k) THEN [Locked0 EXCEPT ![k] = 0] ELSE Locked0
SweepTime   == lastSweep' = IF Due THEN now ELSE lastSweep

\* Mutated form: one failure too many before the lockout.
LimitReachedLate(times) == Len(times) > MaxFails

LimitReached(times) == Len(times) >= MaxFails

\* record_failure(k), on tables fs and lk.
RecordFailure(k, fs, lk) ==
    LET times == Append(Recent(fs[k], now), now)
    IN IF LimitReached(times)
       THEN /\ locked' = [lk EXCEPT ![k] = now + Lockout]
            /\ fails' = [fs EXCEPT ![k] = <<>>]
       ELSE /\ fails' = [fs EXCEPT ![k] = times]
            /\ locked' = lk

\* Only what a window or a lockout reaches back to is remembered.
Admit(k) ==
    admitted' = [admitted EXCEPT ![k] = Append(Within(@, now, Window + Lockout), now)]

-----------------------------------------------------------------------------
(* Its users                                                               *)

\* A public request: _throttle.
Request(k) ==
    /\ IF Allowed(k)
       THEN RecordFailure(k, Fails0, Locked1(k)) /\ Admit(k)
       ELSE fails' = Fails0 /\ locked' = Locked1(k) /\ UNCHANGED admitted
    /\ SweepTime
    /\ UNCHANGED <<public, now, flying>>

\* A login is checked and goes to the hashing thread, or is refused.
Login(k) ==
    /\ flying[k] < MaxFlying
    /\ IF Allowed(k)
       THEN flying' = [flying EXCEPT ![k] = @ + 1]
       ELSE UNCHANGED flying
    /\ fails' = Fails0
    /\ locked' = Locked1(k)
    /\ SweepTime
    /\ UNCHANGED <<public, now, admitted>>

\* The password was wrong.
LoginFailed(k) ==
    /\ flying[k] > 0
    /\ flying' = [flying EXCEPT ![k] = @ - 1]
    /\ RecordFailure(k, Fails0, Locked0)
    /\ SweepTime
    /\ UNCHANGED <<public, now, admitted>>

\* The password was right: record_success.
LoginSucceeded(k) ==
    /\ flying[k] > 0
    /\ flying' = [flying EXCEPT ![k] = @ - 1]
    /\ fails' = [fails EXCEPT ![k] = <<>>]
    /\ locked' = [locked EXCEPT ![k] = 0]
    /\ UNCHANGED <<public, now, lastSweep, admitted>>

Tick ==
    /\ now < MaxTime
    /\ now' = now + 1
    /\ UNCHANGED <<public, limiter, flying, admitted>>

\* The monotonic clock may start anywhere.
Init ==
    /\ public \in BOOLEAN
    /\ now \in 0 .. Window
    /\ fails = [k \in Keys |-> <<>>]
    /\ locked = [k \in Keys |-> 0]
    /\ lastSweep = 0
    /\ flying = [k \in Keys |-> 0]
    /\ admitted = [k \in Keys |-> <<>>]

PublicRoute == public /\ \E k \in Keys : Request(k)

LoginRoute == ~public /\ \E k \in Keys : Login(k) \/ LoginFailed(k) \/ LoginSucceeded(k)

Next == Tick \/ PublicRoute \/ LoginRoute

Spec == Init /\ [][Next]_vars

-----------------------------------------------------------------------------
(* Properties                                                              *)

Times == 0 .. MaxTime

TypeOK ==
    /\ public \in BOOLEAN
    /\ now \in Times
    /\ fails \in [Keys -> Seq(Times)]
    /\ \A k \in Keys : Len(fails[k]) < MaxFails
    /\ locked \in [Keys -> 0 .. MaxTime + Lockout]
    /\ lastSweep \in Times
    /\ flying \in [Keys -> 0 .. MaxFlying]
    /\ admitted \in [Keys -> Seq(Times)]

\* The admissions of k in the span of n ticks that ends at t.
Admissions(k, t, n) ==
    {i \in DOMAIN admitted[k] : admitted[k][i] <= t /\ t - admitted[k][i] < n}

\* Where every request counts, no window has more than MaxFails admitted
\* requests: "30 bookings/h on one personal link" (app.py:854).
LimitPerWindow ==
    public =>
        \A k \in Keys, t \in 0 .. now : Cardinality(Admissions(k, t, Window)) <= MaxFails

\* It is so for the limiters whose lockout is as long as their window, which is
\* every one but that of the links, across sweeps, lockouts that clear the
\* failures, and their ends.
RateKept == Window <= Lockout => LimitPerWindow

\* Nobody is shut out for nothing: a client that is refused was let in
\* MaxFails times within one window, and its lockout since then is not over.
\* (A login is recorded later than it is let in: only for public requests.)
RefusedForCause ==
    public =>
        \A k \in Keys : locked[k] > now =>
            \E t \in 0 .. now :
                /\ now - t < Lockout
                /\ Cardinality(Admissions(k, t, Window)) >= MaxFails

\* The maps stay bounded by the clients that were active recently: after a public
\* request, no key is kept whose last failure is two windows old and whose
\* lockout ended a window ago.
Bounded ==
    [][public /\ (lastSweep' = now \/ fails' # fails \/ locked' # locked) =>
           \A k \in Keys :
               /\ fails'[k] # <<>> /\ locked'[k] <= now =>
                      \E i \in DOMAIN fails'[k] : now - fails'[k][i] < 2 * Window
               /\ locked'[k] # 0 => now < locked'[k] + Window]_vars

\* A lockout is not cut short, except by the login that was in flight: not by
\* time, by a sweep, by a refused attempt nor by a late failure.
LockoutKept ==
    [][\A k \in Keys : locked[k] > now' =>
           locked'[k] >= locked[k] \/ LoginSucceeded(k)]_vars

=============================================================================
