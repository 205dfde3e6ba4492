-------------------------------- MODULE Session --------------------------------
(***************************************************************************)
(* StatelessSessionManager: a session is a token that carries the user,    *)
(* the second it was issued in and the age it may reach; the server keeps  *)
(* nothing.  Time is the clock of the machine, in ticks (milliseconds in   *)
(* the code), which may run at most Skew ticks wrong, and be corrected.    *)
(*                                                                         *)
(* Encryption is taken to be perfect: a token is read with the secret it   *)
(* was written with, and with no other.                                    *)
(***************************************************************************)
EXTENDS Integers, FiniteSets

CONSTANTS
    Users,           \* ids of users who log in
    Secrets,         \* values of session.secret the server is started with
    Ages,            \* values of session.ageSeconds
    TicksPerSecond,  \* 1000 in the code
    Skew,            \* bound: how wrong the clock may be, in ticks
    MaxTime,         \* bound: the time the run ends
    MaxTokens        \* bound: sessions handed out

ASSUME SessionAssumption ==
    /\ Users \subseteq Nat /\ Ages \subseteq Nat
    /\ TicksPerSecond \in Nat \ {0}
    /\ Skew \in Nat /\ MaxTime \in Nat /\ MaxTokens \in Nat

VARIABLES
    clock,   \* currentMillis()
    secret,  \* the manager's secret
    age,     \* the manager's ageSeconds
    tokens,  \* sessions out there
    time     \* history: the true time

vars == <<clock, secret, age, tokens, time>>

\* Mutant: the division by 1000 is forgotten.
SecondsInTicks(ticks) == ticks

\* currentSeconds: truncated.
Seconds(ticks) == ticks \div TicksPerSecond

Init ==
    /\ time \in Skew .. Skew + TicksPerSecond - 1
    /\ clock = time
    /\ secret \in Secrets /\ age \in Ages
    /\ tokens = {}

\* session(userId).  born and read are history: the time, true and shown.
Issue ==
    /\ Cardinality(tokens) < MaxTokens
    /\ \E u \in Users :
          tokens' = tokens \cup {[uid |-> u, issued |-> Seconds(clock), age |-> age,
                                  secret |-> secret, born |-> time, read |-> clock]}
    /\ UNCHANGED <<clock, secret, age, time>>

Tick ==
    /\ time < MaxTime
    /\ time' = time + 1 /\ clock' = clock + 1
    /\ UNCHANGED <<secret, age, tokens>>

\* The clock is set, back or forward.
SetClock ==
    /\ clock' \in time - Skew .. time + Skew
    /\ UNCHANGED <<secret, age, tokens, time>>

\* Main starts the server again, maybe with another configuration.
Restart ==
    /\ secret' \in Secrets /\ age' \in Ages
    /\ UNCHANGED <<clock, tokens, time>>

Next == Issue \/ Tick \/ SetClock \/ Restart

Spec == Init /\ [][Next]_vars

----------------------------------------------------------------------------
\* Mutant: the age is the server's instead of the token's.
AcceptsByConfiguration(t) ==
    t.secret = secret /\ Seconds(clock) <= t.issued + age

\* Mutant: >= for >.
AcceptsStrictly(t) ==
    t.secret = secret /\ Seconds(clock) < t.issued + t.age

\* userId(session) returns the user, not an empty Optional or an exception.
Accepts(t) ==
    t.secret = secret /\ ~(Seconds(clock) > t.issued + t.age)

Token == [uid : Users, issued : Nat, age : Ages, secret : Secrets, born : Nat, read : Nat]

\* Every variable has its type, the clock is off by Skew at most, and a token
\* carries seconds.
TypeOK ==
    /\ time \in Nat /\ time >= Skew /\ clock \in Nat /\ clock \in time - Skew .. time + Skew
    /\ secret \in Secrets /\ age \in Ages
    /\ tokens \subseteq Token
    /\ \A t \in tokens : /\ t.issued * TicksPerSecond \in t.read - TicksPerSecond + 1 .. t.read
                         /\ t.read \in t.born - Skew .. t.born + Skew

\* A token is good for its age and less than a second more, give or take what
\* the clock is wrong: truncating both ends to seconds and comparing with >
\* never takes a token away early, whatever part of a second it was issued in
\* and however often the server was restarted with another age.
LivesItsAge ==
    \A t \in tokens : t.secret = secret =>
        LET lived == time - t.born IN
        IF Accepts(t)
        THEN lived < (t.age + 1) * TicksPerSecond + 2 * Skew
        ELSE lived > t.age * TicksPerSecond - 2 * Skew

\* A refused token is refused for good, through restarts with any age, unless
\* the clock is set back (or the secret it was written with returns).
ExpiredStaysExpired ==
    [][\A t \in tokens :
          ~Accepts(t) /\ secret' = secret /\ clock' >= clock => ~Accepts(t)']_vars
=============================================================================
