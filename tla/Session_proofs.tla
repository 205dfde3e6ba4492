---------------------------- MODULE Session_proofs ----------------------------
(***************************************************************************)
(* How long a session lives, for every age, every length of a second and   *)
(* every error of the clock.                                               *)
(***************************************************************************)
EXTENDS Session, TLAPS

\* Truncating to seconds loses less than a second,
LEMMA Truncated ==
  ASSUME NEW n \in Nat
  PROVE  /\ Seconds(n) \in Nat
         /\ Seconds(n) * TicksPerSecond <= n
         /\ n < (Seconds(n) + 1) * TicksPerSecond
  BY SessionAssumption DEF Seconds

\* and never turns the order of two moments round.
LEMMA Ordered ==
  ASSUME NEW m \in Nat, NEW n \in Nat, m <= n
  PROVE  Seconds(m) <= Seconds(n)
  BY SessionAssumption DEF Seconds

\* The arithmetic of one token: from the readings of the clock to its age.
LEMMA Lifetime ==
  ASSUME NEW read \in Nat, NEW now \in Nat, NEW a \in Nat, NEW s \in Nat,
         s * TicksPerSecond <= read, read < (s + 1) * TicksPerSecond
  PROVE  IF Seconds(now) > s + a
         THEN now - read > a * TicksPerSecond
         ELSE now - read < (a + 1) * TicksPerSecond
  <1> DEFINE c == Seconds(now)
             K == TicksPerSecond
  <1>1. K \in Nat /\ c \in Nat /\ c * K <= now /\ now < (c + 1) * K
    BY Truncated, SessionAssumption
  <1>2. CASE c > s + a
    <2>1. (s + a + 1) * K <= c * K
      BY <1>1, <1>2
    <2>2. (s + a + 1) * K = (s + 1) * K + a * K
      BY <1>1
    <2>. QED BY <1>1, <1>2, <2>1, <2>2
  <1>3. CASE ~(c > s + a)
    <2>1. (c + 1) * K <= (s + a + 1) * K
      BY <1>1, <1>3
    <2>2. (s + a + 1) * K = s * K + (a + 1) * K
      BY <1>1
    <2>. QED BY <1>1, <1>3, <2>1, <2>2
  <1>. QED BY <1>2, <1>3

\* The clock stays near the true time, and a token is stamped with its second.
THEOREM SessionTypes == Spec => []TypeOK
  <1> USE SessionAssumption
  <1>1. Init => TypeOK
    BY DEF Init, TypeOK
  <1>2. TypeOK /\ [Next]_vars => TypeOK'
    <2> SUFFICES ASSUME TypeOK, [Next]_vars PROVE TypeOK'
      OBVIOUS
    <2>1. CASE Issue
      <3>1. PICK u \in Users :
               tokens' = tokens \cup {[uid |-> u, issued |-> Seconds(clock), age |-> age,
                                       secret |-> secret, born |-> time, read |-> clock]}
        BY <2>1 DEF Issue
      <3>2. /\ Seconds(clock) \in Nat
            /\ Seconds(clock) * TicksPerSecond \in clock - TicksPerSecond + 1 .. clock
        BY Truncated DEF TypeOK
      <3>3. clock \in time - Skew .. time + Skew /\ clock \in Nat /\ time \in Nat
        BY DEF TypeOK
      <3>. QED BY <2>1, <3>1, <3>2, <3>3 DEF Issue, TypeOK, Token
    <2>2. CASE Tick
      BY <2>2 DEF Tick, TypeOK
    <2>3. CASE SetClock
      BY <2>3 DEF SetClock, TypeOK
    <2>4. CASE Restart
      BY <2>4 DEF Restart, TypeOK
    <2>5. CASE UNCHANGED vars
      BY <2>5 DEF vars, TypeOK
    <2>. QED BY <2>1, <2>2, <2>3, <2>4, <2>5 DEF Next
  <1>. QED BY <1>1, <1>2, PTL DEF Spec

\* A session is accepted for its age and for less than a second more.
THEOREM SessionLivesItsAge == Spec => []LivesItsAge
  <1>1. TypeOK => LivesItsAge
    <2> SUFFICES ASSUME TypeOK, NEW t \in tokens, t.secret = secret
                 PROVE  LET lived == time - t.born IN
                        IF Accepts(t)
                        THEN lived < (t.age + 1) * TicksPerSecond + 2 * Skew
                        ELSE lived > t.age * TicksPerSecond - 2 * Skew
      BY DEF LivesItsAge
    <2>1. /\ t.read \in Nat /\ t.born \in Nat /\ t.age \in Nat /\ t.issued \in Nat
          /\ clock \in Nat /\ time \in Nat
      BY SessionAssumption DEF TypeOK, Token
    <2>2. /\ t.issued * TicksPerSecond <= t.read
          /\ t.read < t.issued * TicksPerSecond + TicksPerSecond
      BY <2>1, SessionAssumption DEF TypeOK
    <2>3. t.read < (t.issued + 1) * TicksPerSecond
      BY <2>1, <2>2, SessionAssumption
    <2>4. IF Accepts(t)
          THEN clock - t.read < (t.age + 1) * TicksPerSecond
          ELSE clock - t.read > t.age * TicksPerSecond
      BY <2>1, <2>2, <2>3, Lifetime DEF Accepts
    <2>5. /\ t.read >= t.born - Skew /\ t.read <= t.born + Skew
          /\ clock >= time - Skew /\ clock <= time + Skew
      BY <2>1, SessionAssumption DEF TypeOK
    <2>6. t.age * TicksPerSecond \in Nat /\ (t.age + 1) * TicksPerSecond \in Nat
      BY <2>1, SessionAssumption
    <2>. QED BY <2>1, <2>4, <2>5, <2>6, SessionAssumption
  <1>. QED BY <1>1, SessionTypes, PTL

\* Nothing but a clock that goes back makes a refused session good again.
THEOREM RefusedForGood == Spec => ExpiredStaysExpired
  <1>1. TypeOK /\ TypeOK' =>
           \A t \in tokens :
              ~Accepts(t) /\ secret' = secret /\ clock' >= clock => ~Accepts(t)'
    <2> SUFFICES ASSUME TypeOK, TypeOK', NEW t \in tokens,
                        ~Accepts(t), secret' = secret, clock' >= clock
                 PROVE  ~Accepts(t)'
      OBVIOUS
    <2>1. Seconds(clock) <= Seconds(clock')
      BY Ordered DEF TypeOK
    <2>2. Seconds(clock) \in Nat /\ Seconds(clock') \in Nat
      BY Truncated DEF TypeOK
    <2>3. t.issued \in Nat /\ t.age \in Nat
      BY SessionAssumption DEF TypeOK, Token
    <2>. QED BY <2>1, <2>2, <2>3 DEF Accepts
  <1>. QED BY <1>1, SessionTypes, PTL DEF Spec, ExpiredStaysExpired
=============================================================================
