--------------------------- MODULE SessionsProofs ---------------------------
(***************************************************************************)
(* Sessions is type correct, the limiter included; a reset link works once *)
(* and sessions end for the reasons the code has for it: for any number of *)
(* requests, any durations and any limits.                                 *)
(***************************************************************************)
EXTENDS Sessions, FiniteSetTheorems, TLAPS

\* Counted by no counter yet: a failure that Allow has let through.
UnderWay == {q \in Requests : reqs[q].pc \in {"allowed", "right", "wrong"}}
Room(counter, limit) ==
    counter.failures + Cardinality(UnderWay) <= limit - 1 + Cardinality(Requests)

\* What is counted and what is under way never exceed the limit together, but for
\* what was let through at once.
LimiterInv == Room(names, PerName) /\ Room(addresses, PerAddress)

\* A password that was found right is none that nobody has, and only a link is spent.
RequestInv ==
    \A q \in Requests : /\ reqs[q].pc \in {"right", "rehash"} => reqs[q].typed >= 1
                        /\ reqs[q].pc = "spend" => reqs[q].link \in Links

\* Ended sessions are older than the one there is, which is the last of all.
SessionInv ==
    /\ session # NoSession => cutoff < session.id /\ session.id <= minted
    /\ cutoff <= minted
    /\ \A q \in Requests : reqs[q].pc \in {"spend", "write", "end"} => reqs[q].before <= minted

\* A link that has let a request pass is remembered for as long as it is good,
\* because no link is good for longer than the memory of it.
LinkInv ==
    /\ \A l \in Links :
         /\ passed[l] <= 1
         /\ passed[l] = 1 /\ now < l => \E s \in spent : s.link = l /\ s.until >= l
    /\ \A l \in links : l <= now + ResetLifetime
    /\ \A q \in Requests : reqs[q].pc = "spend" => reqs[q].link <= now + ResetLifetime
-----------------------------------------------------------------------------
(* What the proofs keep needing. *)

LEMMA Durations ==
    /\ IdleTimeout \in Nat /\ TouchThrottle \in Nat /\ MaxTime \in Nat /\ MaxSessions \in Nat
    /\ AbsoluteTimeout \in Nat \ {0} /\ ResetLifetime \in Nat \ {0} /\ Window \in Nat \ {0}
    /\ PerName \in Nat \ {0} /\ PerAddress \in Nat \ {0}
    /\ MaxPasswords \in Nat \ {0} /\ MaxLinks \in Nat \ {0}
  BY DurationAssumption

\* What the place of a request says of its fields, and what may follow it.
LoginPlaces == {"allowed", "right", "wrong", "rehash", "start"}
SessionPlaces == {"discard", "touch", "logout", "change"}
PasswordPlaces == {"spend", "write", "end"}

LEMMA LoginShape ==
    ASSUME NEW r \in RequestStates, r.pc \in LoginPlaces
    PROVE  /\ r.typed \in 0..MaxPasswords /\ r.upgrade \in BOOLEAN
           /\ \A p \in LoginPlaces :
                /\ [r EXCEPT !.pc = p] \in RequestStates
                /\ [r EXCEPT !.pc = p].pc = p /\ [r EXCEPT !.pc = p].typed = r.typed
<1>1. r \in [pc : LoginPlaces, typed : 0..MaxPasswords, upgrade : BOOLEAN]
  BY DEF RequestStates, Idle, LoginPlaces
<1>. HIDE DEF LoginPlaces
<1>2. \A p \in LoginPlaces :
        [r EXCEPT !.pc = p] = [pc |-> p, typed |-> r.typed, upgrade |-> r.upgrade]
  BY <1>1
<1>. QED  BY <1>1, <1>2 DEF RequestStates, LoginPlaces

LEMMA SessionShape ==
    ASSUME NEW r \in RequestStates, r.pc \in SessionPlaces
    PROVE  /\ r.id \in 1..MaxSessions /\ r.at \in 0..MaxTime
           /\ r.wants \in {"visit", "logout", "change"}
           /\ \A p \in SessionPlaces :
                [r EXCEPT !.pc = p] \in RequestStates /\ [r EXCEPT !.pc = p].pc = p
<1>1. r \in [pc : SessionPlaces, id : 1..MaxSessions, at : 0..MaxTime,
             wants : {"visit", "logout", "change"}]
  BY DEF RequestStates, Idle, SessionPlaces
<1>. HIDE DEF SessionPlaces
<1>2. \A p \in SessionPlaces :
        [r EXCEPT !.pc = p] = [pc |-> p, id |-> r.id, at |-> r.at, wants |-> r.wants]
  BY <1>1
<1>. QED  BY <1>1, <1>2 DEF RequestStates, SessionPlaces

LEMMA PasswordShape ==
    ASSUME NEW r \in RequestStates, r.pc \in PasswordPlaces
    PROVE  /\ r.own \in BOOLEAN /\ r.link \in {0} \cup Links /\ r.before \in 0..MaxSessions
           /\ \A p \in PasswordPlaces :
                /\ [r EXCEPT !.pc = p] \in RequestStates
                /\ [r EXCEPT !.pc = p].pc = p /\ [r EXCEPT !.pc = p].before = r.before
           /\ \A b \in 0..MaxSessions :
                /\ [r EXCEPT !.before = b] \in RequestStates
                /\ [r EXCEPT !.before = b].pc = r.pc /\ [r EXCEPT !.before = b].before = b
<1>1. r \in [pc : PasswordPlaces, own : BOOLEAN, link : {0} \cup Links, before : 0..MaxSessions]
  BY DEF RequestStates, Idle, PasswordPlaces
<1>. HIDE DEF PasswordPlaces
<1>2. \A p \in PasswordPlaces :
        [r EXCEPT !.pc = p] = [pc |-> p, own |-> r.own, link |-> r.link, before |-> r.before]
  BY <1>1
<1>3. \A b \in 0..MaxSessions :
        [r EXCEPT !.before = b] = [pc |-> r.pc, own |-> r.own, link |-> r.link, before |-> b]
  BY <1>1
<1>. QED  BY <1>1, <1>2, <1>3 DEF RequestStates, PasswordPlaces

\* The limiter between two statements: who is under way, counted.
LEMMA UnderWayCounted ==
    ASSUME NEW S \in SUBSET Requests
    PROVE  /\ IsFiniteSet(S)
           /\ Cardinality(S) \in 0..Cardinality(Requests)
           /\ \A T \in SUBSET S : Cardinality(T) <= Cardinality(S)
           /\ \A q \in S : Cardinality(S \ {q}) = Cardinality(S) - 1
<1>1. IsFiniteSet(S) /\ Cardinality(S) <= Cardinality(Requests)
  BY FS_Subset, RequestAssumption
<1>2. Cardinality(S) \in Nat /\ Cardinality(Requests) \in Nat
  BY <1>1, FS_CardinalityType, RequestAssumption
<1>3. \A T \in SUBSET S : Cardinality(T) <= Cardinality(S)
  BY <1>1, FS_Subset
<1>4. \A q \in S : Cardinality(S \ {q}) = Cardinality(S) - 1
  BY <1>1, FS_RemoveElement
<1>. QED  BY <1>1, <1>2, <1>3, <1>4

\* A counter that is dropped when its window has elapsed, and one that counts a
\* failure of somebody who was under way until now.
LEMMA CounterSteps ==
    ASSUME NEW limit \in Nat \ {0}, NEW counter \in Counters(limit), now \in 0..MaxTime,
           NEW n \in 0..Cardinality(Requests), NEW m \in 0..Cardinality(Requests),
           counter.failures + n <= limit - 1 + Cardinality(Requests)
    PROVE  /\ Current(counter) \in Counters(limit)
           /\ ~Blocked(counter, limit) =>
                Current(counter).failures + m <= limit - 1 + Cardinality(Requests)
           /\ m <= n =>
                Current(counter).failures + m <= limit - 1 + Cardinality(Requests)
           /\ n > 0 /\ m = n - 1 =>
                /\ Bumped(counter) \in Counters(limit)
                /\ Bumped(counter).failures + m <= limit - 1 + Cardinality(Requests)
<1>1. Cardinality(Requests) \in Nat
  BY FS_CardinalityType, RequestAssumption
<1>2. \/ counter = NoCounter
      \/ /\ counter \in [failures : 1..(limit - 1 + Cardinality(Requests)),
                           expires : 0..(MaxTime + Window)]
         /\ counter # NoCounter
  BY <1>1 DEF Counters, NoCounter
<1>3. counter # NoCounter =>
        [counter EXCEPT !.failures = @ + 1] =
          [failures |-> counter.failures + 1, expires |-> counter.expires]
  BY <1>2
<1>4. \/ Bumped(counter) = [failures |-> 1, expires |-> now + Window]
      \/ /\ counter # NoCounter
         /\ Bumped(counter) =
              [failures |-> counter.failures + 1, expires |-> counter.expires]
  BY <1>3 DEF Current, Bumped
<1>5. n > 0 /\ m = n - 1 =>
        /\ Bumped(counter) \in Counters(limit)
        /\ Bumped(counter).failures + m <= limit - 1 + Cardinality(Requests)
  BY <1>1, <1>2, <1>4, Durations DEF Counters
<1>. QED
  BY <1>1, <1>2, <1>5, Durations DEF Current, Blocked, Counters, NoCounter

-----------------------------------------------------------------------------
(* Types, and the limiter. *)

LEMMA IdleTyped == Idle \in RequestStates /\ Idle.pc = "idle"
  BY DEF Idle, RequestStates

\* What a step makes of its request.
Successor(q, r) ==
    /\ reqs' = [reqs EXCEPT ![q] = r]
    /\ r.pc = "allowed" => \E typed \in 0..password : Allow(q, typed)
    /\ r.pc \in {"right", "wrong"} => reqs[q].pc = "allowed"
    /\ r.pc \in {"right", "rehash"} => r.typed >= 1
    /\ r.pc = "spend" => r.link \in links
    /\ r.pc \in PasswordPlaces =>
         \/ r.before \in {0, minted}
         \/ reqs[q].pc \in PasswordPlaces /\ r.before = reqs[q].before

LEMMA OnwardStep ==
    ASSUME TypeOK, NEW q \in Requests, reqs[q].pc \in PasswordPlaces,
           NEW s \in RequestStates, s.pc \in PasswordPlaces, Onward(q, s)
    PROVE  \E r \in RequestStates :
              /\ reqs' = [reqs EXCEPT ![q] = r]
              /\ r.pc \in {"idle", "write", "end"}
              /\ r.pc # "idle" => r.before = s.before
<1>1. CASE Then(s.pc) = "done"
  BY <1>1, IdleTyped DEF Onward
<1>2. CASE Then(s.pc) # "done"
  <2>1. Then(s.pc) \in {"write", "end"}
    BY <1>2 DEF Then
  <2>2. reqs' = [reqs EXCEPT ![q] = [s EXCEPT !.pc = Then(s.pc)]]
    BY <1>2 DEF Onward
  <2>. QED  BY <2>1, <2>2, PasswordShape DEF PasswordPlaces
<1>. QED  BY <1>1, <1>2

LEMMA RequestStep ==
    ASSUME TypeOK, RequestInv, NEW q \in Requests,
           LoginStep(q) \/ SessionStep(q) \/ PasswordStep(q) \/ Abort(q)
    PROVE  \E r \in RequestStates : Successor(q, r)
<1> USE DEF TypeOK
<1>1. reqs[q] \in RequestStates
  OBVIOUS
<1>2. ASSUME Over(q)  PROVE \E r \in RequestStates : Successor(q, r)
  BY <1>2, IdleTyped DEF Over, Successor, PasswordPlaces
<1>3. ASSUME UNCHANGED reqs, reqs[q].pc = "idle"
      PROVE  \E r \in RequestStates : Successor(q, r)
  BY <1>1, <1>3 DEF Successor, PasswordPlaces
<1>4. ASSUME NEW typed \in 0..password, Allow(q, typed)
      PROVE  \E r \in RequestStates : Successor(q, r)
  <2>1. CASE UNCHANGED reqs
    BY <1>3, <1>4, <2>1, IdleTyped DEF Allow
  <2>2. CASE Start(q, [pc |-> "allowed", typed |-> typed, upgrade |-> FALSE])
    <3> DEFINE r == [pc |-> "allowed", typed |-> typed, upgrade |-> FALSE]
    <3>1. typed \in 0..MaxPasswords
      BY Durations
    <3>2. r \in RequestStates
      BY <3>1 DEF RequestStates
    <3>3. reqs' = [reqs EXCEPT ![q] = r]
      BY <2>2 DEF Start
    <3>. QED  BY <3>2, <3>3, <1>4 DEF Successor, PasswordPlaces
  <2>. QED  BY <1>4, <2>1, <2>2 DEF Allow
<1>5. ASSUME ReadHash(q)  PROVE \E r \in RequestStates : Successor(q, r)
  <2> DEFINE r == [pc |-> IF reqs[q].typed = password THEN "right" ELSE "wrong",
                   typed |-> reqs[q].typed,
                   upgrade |-> weak /\ reqs[q].typed = password]
  <2>1. reqs[q].typed \in 0..MaxPasswords
    BY <1>5, <1>1, LoginShape DEF ReadHash, At, LoginPlaces
  <2>2. (weak /\ reqs[q].typed = password) \in BOOLEAN
    OBVIOUS
  <2>3. r \in RequestStates
    BY <2>1, <2>2 DEF RequestStates
  <2>4. /\ reqs' = [reqs EXCEPT ![q] = r] /\ reqs[q].pc = "allowed"
        /\ r.pc \in {"right", "wrong"} /\ (r.pc = "right" => r.typed >= 1)
    BY <1>5 DEF ReadHash, At
  <2>. HIDE DEF r
  <2>. QED  BY <2>3, <2>4 DEF Successor, PasswordPlaces
<1>6. ASSUME RecordSuccess(q) \/ Rehash(q)  PROVE \E r \in RequestStates : Successor(q, r)
  <2>1. PICK p \in {"rehash", "start"} : reqs' = [reqs EXCEPT ![q] = [reqs[q] EXCEPT !.pc = p]]
    BY <1>6 DEF RecordSuccess, Rehash, Goto
  <2> DEFINE r == [reqs[q] EXCEPT !.pc = p]
  <2>2. /\ reqs[q].pc \in {"right", "rehash"}
        /\ reqs[q].pc \in LoginPlaces /\ p \in LoginPlaces
    BY <1>6, <2>1 DEF RecordSuccess, Rehash, At, LoginPlaces
  <2>3. /\ r \in RequestStates /\ r.pc = p /\ r.typed = reqs[q].typed
        /\ reqs' = [reqs EXCEPT ![q] = r]
    BY <2>1, <2>2, <1>1, LoginShape
  <2>. HIDE DEF r
  <2>. QED  BY <2>1, <2>2, <2>3 DEF Successor, RequestInv, PasswordPlaces
<1>7. ASSUME NEW id \in 1..minted, NEW wants \in {"visit", "logout", "change"},
             Authenticate(q, id, wants)
      PROVE  \E r \in RequestStates : Successor(q, r)
  <2>1. PICK p \in {"discard", "touch"} :
           reqs' = [reqs EXCEPT ![q] = [pc |-> p, id |-> id, at |-> now, wants |-> wants]]
    BY <1>7 DEF Authenticate, Start
  <2> DEFINE r == [pc |-> p, id |-> id, at |-> now, wants |-> wants]
  <2>2. r \in RequestStates
    BY <2>1, Durations DEF RequestStates
  <2>. QED  BY <2>1, <2>2 DEF Successor, PasswordPlaces
<1>8. ASSUME Touch(q), ~Over(q)  PROVE \E r \in RequestStates : Successor(q, r)
  <2> DEFINE r == [reqs[q] EXCEPT !.pc = reqs[q].wants]
  <2>1. reqs[q].pc \in SessionPlaces
    BY <1>8 DEF Touch, At, SessionPlaces
  <2>2. reqs' = [reqs EXCEPT ![q] = r] /\ reqs[q].wants \in {"logout", "change"}
    BY <1>1, <1>8, <2>1, SessionShape DEF Touch, Goto
  <2>3. r \in RequestStates /\ r.pc \in {"logout", "change"}
    BY <1>1, <2>1, <2>2, SessionShape DEF SessionPlaces
  <2>. QED  BY <2>2, <2>3 DEF Successor, PasswordPlaces
<1>9. ASSUME ChangePassword(q) \/ ReplacePassword(q) \/ \E link \in links : Complete(q, link)
      PROVE  \E r \in RequestStates : Successor(q, r)
  <2>1. PICK p \in {"write", "spend"}, own \in BOOLEAN, link \in {0} \cup Links :
           /\ reqs' = [reqs EXCEPT ![q] = Writing(p, own, link)]
           /\ p = "spend" => link \in links
    BY <1>9 DEF ChangePassword, ReplacePassword, Complete, Start, Then
  <2>2. Writing(p, own, link) \in RequestStates
    BY <2>1, Durations DEF Writing, RequestStates
  <2>3. Writing(p, own, link).pc = p /\ Writing(p, own, link).link = link
        /\ Writing(p, own, link).before = 0
    BY DEF Writing
  <2>. QED  BY <2>1, <2>2, <2>3 DEF Successor, PasswordPlaces
<1>10. ASSUME Spend(q) \/ EndSessions(q), ~Over(q)
       PROVE  \E r \in RequestStates : Successor(q, r)
  <2>1. reqs[q].pc \in PasswordPlaces /\ Onward(q, reqs[q])
    BY <1>10 DEF Spend, EndSessions, At, PasswordPlaces
  <2>2. PICK r \in RequestStates :
           /\ reqs' = [reqs EXCEPT ![q] = r] /\ r.pc \in {"idle", "write", "end"}
           /\ r.pc # "idle" => r.before = reqs[q].before
    BY <1>1, <2>1, OnwardStep
  <2>. QED  BY <2>1, <2>2 DEF Successor, PasswordPlaces
<1>11. ASSUME SetPassword(q), ~Over(q)
       PROVE  \E r \in RequestStates : Successor(q, r)
  <2> DEFINE s == [reqs[q] EXCEPT !.before = minted]
  <2>1. reqs[q].pc \in PasswordPlaces /\ Onward(q, s)
    BY <1>11 DEF SetPassword, At, PasswordPlaces
  <2>2. s \in RequestStates /\ s.pc \in PasswordPlaces /\ s.before = minted
    BY <1>1, <2>1, PasswordShape
  <2>. HIDE DEF s
  <2>3. PICK r \in RequestStates :
           /\ reqs' = [reqs EXCEPT ![q] = r] /\ r.pc \in {"idle", "write", "end"}
           /\ r.pc # "idle" => r.before = minted
    BY <2>1, <2>2, OnwardStep
  <2>. QED  BY <2>3 DEF Successor, PasswordPlaces
<1>. QED
  BY <1>2, <1>4, <1>5, <1>6, <1>7, <1>8, <1>9, <1>10, <1>11
  DEF LoginStep, SessionStep, PasswordStep, RecordFailure, StartSession, Discard, Logout, Abort

\* Nobody but Allow and a restart touches both the counters and who is under way
\* other than by taking away from the latter.
LEMMA LimiterStep ==
    ASSUME TypeOK, LimiterInv, RequestInv, [Next]_vars
    PROVE  /\ names' \in Counters(PerName) /\ addresses' \in Counters(PerAddress)
           /\ LimiterInv'
<1>1. UnderWay \in SUBSET Requests /\ UnderWay' \in SUBSET Requests
  BY DEF UnderWay
<1> DEFINE n == Cardinality(UnderWay)
           m == Cardinality(UnderWay')
           most == Cardinality(Requests)
<1>2. n \in 0..most /\ m \in 0..most /\ most \in Nat
  BY <1>1, UnderWayCounted, FS_CardinalityType, RequestAssumption
<1>3. /\ names \in Counters(PerName) /\ names.failures + n <= PerName - 1 + most
      /\ addresses \in Counters(PerAddress)
      /\ addresses.failures + n <= PerAddress - 1 + most
      /\ now \in 0..MaxTime
  BY DEF TypeOK, LimiterInv, Room
<1> DEFINE Fits(counter, limit) ==
             counter \in Counters(limit) /\ counter.failures + m <= limit - 1 + most
<1>4. SUFFICES Fits(names', PerName) /\ Fits(addresses', PerAddress)
  BY DEF LimiterInv, Room
<1>5. Fits(NoCounter, PerName) /\ Fits(NoCounter, PerAddress)
  BY <1>2, Durations DEF NoCounter, Counters
<1>6. UnderWay' \subseteq UnderWay /\ UNCHANGED names => Fits(names', PerName)
  BY <1>1, <1>2, <1>3, UnderWayCounted, Durations DEF Counters, NoCounter
<1>7. UnderWay' \subseteq UnderWay /\ UNCHANGED addresses => Fits(addresses', PerAddress)
  BY <1>1, <1>2, <1>3, UnderWayCounted, Durations DEF Counters, NoCounter
<1>8. ASSUME NEW q \in Requests, NEW typed \in 0..password, Allow(q, typed)
      PROVE  Fits(names', PerName) /\ Fits(addresses', PerAddress)
  <2>1. names' = Current(names) /\ addresses' = Current(addresses)
    BY <1>8 DEF Allow
  <2>2. CASE UNCHANGED reqs
    <3>1. m = n  BY <2>2 DEF UnderWay
    <3>. QED  BY <3>1, <2>1, <1>2, <1>3, CounterSteps, Durations
  <2>3. CASE ~Blocked(names, PerName) /\ ~Blocked(addresses, PerAddress)
    BY <2>3, <2>1, <1>2, <1>3, CounterSteps, Durations
  <2>. QED  BY <1>8, <2>2, <2>3 DEF Allow
<1>9. ASSUME NEW q \in Requests, RecordFailure(q)
      PROVE  Fits(names', PerName) /\ Fits(addresses', PerAddress)
  <2>1. q \in UnderWay /\ UnderWay' = UnderWay \ {q}
    BY <1>9 DEF RecordFailure, At, Over, UnderWay, Idle, TypeOK
  <2>2. m = n - 1
    BY <2>1, <1>1, UnderWayCounted
  <2>. QED  BY <2>2, <1>2, <1>3, <1>9, CounterSteps, Durations DEF RecordFailure
<1>10. ASSUME NEW q \in Requests, RecordSuccess(q)
       PROVE  Fits(names', PerName) /\ Fits(addresses', PerAddress)
  <2>1. UnderWay' \subseteq UnderWay
    BY <1>10 DEF RecordSuccess, At, Goto, UnderWay, TypeOK
  <2>. QED  BY <2>1, <1>5, <1>7, <1>10 DEF RecordSuccess
<1>11. CASE Restart
  BY <1>11, <1>5 DEF Restart
<1>12. CASE Issue \/ Tick \/ UNCHANGED vars
  BY <1>12, <1>6, <1>7 DEF Issue, Tick, vars, limiter, UnderWay
<1>13. ASSUME NEW q \in Requests,
              \/ ReadHash(q) \/ Rehash(q) \/ StartSession(q) \/ SessionStep(q)
              \/ PasswordStep(q) \/ Abort(q),
              ~ \E typed \in 0..password : Allow(q, typed)
       PROVE  Fits(names', PerName) /\ Fits(addresses', PerAddress)
  <2>1. UNCHANGED limiter
    BY <1>13 DEF ReadHash, Rehash, StartSession, SessionStep, Authenticate, Discard, Touch,
                 Logout, PasswordStep, ChangePassword, ReplacePassword, Complete, Spend,
                 SetPassword, EndSessions, Abort
  <2>2. PICK r \in RequestStates : Successor(q, r)
    BY <1>13, RequestStep DEF LoginStep
  <2>3. UnderWay' \subseteq UnderWay
    BY <1>13, <2>2 DEF Successor, UnderWay, TypeOK
  <2>. QED  BY <2>1, <2>3, <1>6, <1>7 DEF limiter
<1>. QED
  BY <1>8, <1>9, <1>10, <1>11, <1>12, <1>13 DEF Next, LoginStep

LEMMA TypeInit == Init => TypeOK /\ LimiterInv /\ RequestInv
<1> SUFFICES ASSUME Init PROVE TypeOK /\ LimiterInv /\ RequestInv
  OBVIOUS
<1> USE Durations DEF Init
<1>1. TypeOK
  BY IdleTyped DEF TypeOK, SessionRows, Counters, Links
<1>2. RequestInv
  BY DEF RequestInv, Idle
<1>3. UnderWay \in SUBSET Requests
  BY DEF UnderWay
<1>4. LimiterInv
  BY <1>3, UnderWayCounted, FS_CardinalityType, RequestAssumption
  DEF LimiterInv, Room, NoCounter
<1>. QED  BY <1>1, <1>2, <1>4

\* The columns and the clock.
LEMMA StoredStep ==
    ASSUME TypeOK, RequestInv, [Next]_vars
    PROVE  /\ now' \in 0..MaxTime
           /\ password' \in 1..MaxPasswords /\ weak' \in BOOLEAN
           /\ session' \in SessionRows /\ minted' \in 0..MaxSessions
           /\ cutoff' \in 0..MaxSessions
<1> DEFINE Good == /\ now' \in 0..MaxTime
                   /\ password' \in 1..MaxPasswords /\ weak' \in BOOLEAN
                   /\ session' \in SessionRows /\ minted' \in 0..MaxSessions
                   /\ cutoff' \in 0..MaxSessions
<1> SUFFICES Good
  OBVIOUS
<1> USE Durations DEF TypeOK
<1>1. CASE UNCHANGED <<now, stored, cutoff>>
  BY <1>1 DEF stored
<1>2. ASSUME NEW q \in Requests, LoginStep(q)
      PROVE  Good
  <2>1. CASE Rehash(q)
    <3>1. reqs[q].typed \in 1..MaxPasswords
      <4>1. reqs[q].pc = "rehash" /\ reqs[q].typed >= 1
        BY <2>1 DEF Rehash, At, RequestInv
      <4>2. reqs[q].typed \in 0..MaxPasswords
        BY <4>1, LoginShape DEF LoginPlaces
      <4>. QED  BY <4>1, <4>2
    <3>. QED  BY <3>1, <2>1 DEF Rehash
  <2>2. CASE StartSession(q)
    <3>1. session' \in SessionRows
      BY <2>2 DEF StartSession, SessionRows
    <3>. QED  BY <3>1, <2>2 DEF StartSession
  <2>. QED
    BY <1>2, <2>1, <2>2, <1>1
    DEF LoginStep, Allow, ReadHash, RecordFailure, RecordSuccess, stored
<1>3. ASSUME NEW q \in Requests, SessionStep(q)
      PROVE  Good
  <2>1. CASE Discard(q) \/ Logout(q)
    BY <2>1 DEF Discard, Logout, Without, SessionRows
  <2>2. CASE Touch(q)
    <3>1. reqs[q].at \in 0..MaxTime
      BY <2>2, SessionShape DEF Touch, At, SessionPlaces
    <3>2. CASE session # NoSession /\ session' = [session EXCEPT !.seen = reqs[q].at]
      <4>1. session \in [id : 1..MaxSessions, seen : 0..MaxTime,
                         expires : 0..(MaxTime + AbsoluteTimeout)]
        BY <3>2 DEF SessionRows
      <4>2. session' = [id |-> session.id, seen |-> reqs[q].at, expires |-> session.expires]
        BY <4>1, <3>2
      <4>3. session' \in SessionRows
        BY <4>1, <4>2, <3>1 DEF SessionRows
      <4>. QED  BY <4>3, <2>2 DEF Touch
    <3>3. CASE UNCHANGED session
      BY <3>3, <2>2 DEF Touch
    <3>. QED  BY <2>2, <3>2, <3>3 DEF Touch
  <2>3. CASE \E id \in 1..minted, wants \in {"visit", "logout", "change"} :
               Authenticate(q, id, wants)
    BY <2>3, <1>1 DEF Authenticate
  <2>. QED  BY <1>3, <2>1, <2>2, <2>3 DEF SessionStep
<1>4. ASSUME NEW q \in Requests, PasswordStep(q)
      PROVE  Good
  <2>1. ASSUME NEW r \in RequestStates, r.pc \in PasswordPlaces, Onward(q, r)
        PROVE  cutoff' \in 0..MaxSessions
    BY <2>1, PasswordShape DEF Onward
  <2>2. CASE Spend(q)
    BY <2>2, <2>1 DEF Spend, At, stored, PasswordPlaces
  <2>3. CASE SetPassword(q)
    <3>1. [reqs[q] EXCEPT !.before = minted] \in RequestStates
          /\ [reqs[q] EXCEPT !.before = minted].pc \in PasswordPlaces
      BY <2>3, PasswordShape DEF SetPassword, At, PasswordPlaces
    <3>2. cutoff' \in 0..MaxSessions
      BY <2>3, <3>1, <2>1 DEF SetPassword
    <3>3. password < MaxPasswords /\ password' = password + 1 /\ UNCHANGED <<now, session, minted>>
      BY <2>3 DEF SetPassword
    <3>4. weak' \in BOOLEAN
      BY <2>3 DEF SetPassword
    <3>5. password' \in 1..MaxPasswords
      BY <3>3
    <3>. QED  BY <3>2, <3>3, <3>4, <3>5
  <2>4. CASE EndSessions(q)
    <3>1. cutoff' \in 0..MaxSessions
      BY <2>4, <2>1 DEF EndSessions, At, PasswordPlaces
    <3>. QED  BY <2>4, <3>1 DEF EndSessions, SessionRows
  <2>. QED
    BY <1>4, <2>2, <2>3, <2>4, <1>1
    DEF PasswordStep, ChangePassword, ReplacePassword, Complete
<1>5. CASE Tick
  BY <1>5 DEF Tick, stored
<1>. QED
  BY <1>1, <1>2, <1>3, <1>4, <1>5 DEF Next, Abort, Issue, Restart, vars, stored

\* The links mailed and those remembered.
LEMMA LinksStep ==
    ASSUME TypeOK, RequestInv, [Next]_vars
    PROVE  /\ links' \subseteq Links
           /\ spent' \subseteq [link : Links, until : Links]
           /\ passed' \in [Links -> Nat]
<1> USE Durations DEF TypeOK
<1>1. CASE UNCHANGED resets
  BY <1>1 DEF resets
<1>2. CASE Issue
  BY <1>2 DEF Issue, Links
<1>3. CASE Restart
  BY <1>3 DEF Restart
<1>4. ASSUME NEW q \in Requests, Spend(q)
      PROVE  /\ links' \subseteq Links
             /\ spent' \subseteq [link : Links, until : Links]
             /\ passed' \in [Links -> Nat]
  <2>1. reqs[q].link \in Links
    BY <1>4 DEF Spend, At, RequestInv
  <2>2. Remembered(reqs[q].link) \in [link : Links, until : Links]
    BY <2>1 DEF Remembered, Links
  <2>3. Swept \subseteq [link : Links, until : Links]
    BY DEF Swept
  <2>. QED  BY <1>4, <2>1, <2>2, <2>3 DEF Spend
<1>. QED
  BY <1>1, <1>2, <1>3, <1>4
  DEF Next, LoginStep, Allow, ReadHash, RecordFailure, RecordSuccess, Rehash, StartSession,
      SessionStep, Authenticate, Discard, Touch, Logout, PasswordStep, ChangePassword,
      ReplacePassword, Complete, SetPassword, EndSessions, Abort, Tick, vars

LEMMA RequestsStep ==
    ASSUME TypeOK, RequestInv, [Next]_vars
    PROVE  reqs' \in [Requests -> RequestStates] /\ RequestInv'
<1>1. ASSUME NEW q \in Requests,
             LoginStep(q) \/ SessionStep(q) \/ PasswordStep(q) \/ Abort(q)
      PROVE  reqs' \in [Requests -> RequestStates] /\ RequestInv'
  <2>1. PICK r \in RequestStates : Successor(q, r)
    BY <1>1, RequestStep
  <2>. QED  BY <2>1 DEF Successor, RequestInv, TypeOK, Links
<1>2. CASE Restart
  BY <1>2, IdleTyped DEF Restart, RequestInv
<1>3. CASE UNCHANGED reqs
  BY <1>3 DEF TypeOK, RequestInv, Links
<1>. QED  BY <1>1, <1>2, <1>3 DEF Next, Issue, Tick, vars

LEMMA TypeStep ==
    ASSUME TypeOK, LimiterInv, RequestInv, [Next]_vars
    PROVE  TypeOK' /\ LimiterInv' /\ RequestInv'
<1>1. TypeOK'
  BY StoredStep, LinksStep, LimiterStep, RequestsStep DEF TypeOK, Links, Counters, SessionRows
<1>. QED  BY <1>1, LimiterStep, RequestsStep

\* Every column and slot is well typed, and the limiter's counters never pass the
\* limit by more than the requests under way at once, though Allow and RecordFailure
\* are two critical sections with the password's verification between them.
THEOREM TypeCorrect == Spec => []TypeOK
<1>1. TypeOK /\ LimiterInv /\ RequestInv /\ [Next]_vars
        => (TypeOK /\ LimiterInv /\ RequestInv)'
  BY TypeStep
<1>. QED  BY TypeInit, <1>1, PTL DEF Spec

-----------------------------------------------------------------------------
(* The reset links. *)

LEMMA LinkInit == Init => LinkInv
  BY Durations DEF Init, LinkInv, Idle, Links

\* Who moves the clock, and who the links.
LEMMA Frames ==
    ASSUME [Next]_vars
    PROVE  /\ UNCHANGED now \/ Tick
           /\ UNCHANGED links \/ Issue
           /\ UNCHANGED <<spent, passed>> \/ Restart \/ \E q \in Requests : Spend(q)
<1> USE DEF resets
<1>1. ASSUME NEW q \in Requests, LoginStep(q) \/ SessionStep(q) \/ Abort(q)
      PROVE  UNCHANGED <<now, resets>>
  BY <1>1 DEF LoginStep, Allow, ReadHash, RecordFailure, RecordSuccess, Rehash, StartSession,
              SessionStep, Authenticate, Discard, Touch, Logout, Abort
<1>2. ASSUME NEW q \in Requests, PasswordStep(q)
      PROVE  UNCHANGED <<now, links>> /\ (Spend(q) \/ UNCHANGED resets)
  BY <1>2 DEF PasswordStep, ChangePassword, ReplacePassword, Complete, Spend, SetPassword,
              EndSessions
<1>. QED  BY <1>1, <1>2 DEF Next, Issue, Restart, Tick, vars

LEMMA LinkStep ==
    ASSUME TypeOK, RequestInv, LinkInv, [Next]_vars
    PROVE  LinkInv'
<1> USE Durations DEF TypeOK, LinkInv, Links
<1>1. PICK later \in Nat : now' = later /\ later >= now
  <2>1. now \in Nat /\ (now' = now \/ now' = now + 1)
    BY Frames DEF Tick
  <2>. QED  BY <2>1
<1>2. \A l \in links : l \in Nat /\ l <= now' + ResetLifetime
  <2>1. SUFFICES ASSUME NEW l \in links PROVE l \in Nat /\ l <= now' + ResetLifetime
    OBVIOUS
  <2>2. l \in Nat
    OBVIOUS
  <2>3. l <= now + ResetLifetime
    BY DEF LinkInv
  <2>. QED  BY <2>2, <2>3, <1>1
<1>3. \A l \in links' : l <= now' + ResetLifetime
  <2>1. CASE UNCHANGED links
    BY <2>1, <1>2
  <2>2. CASE Issue
    BY <2>2, <1>1 DEF Issue
  <2>. QED  BY <2>1, <2>2, Frames
<1>4. \A q \in Requests : reqs'[q].pc = "spend" => reqs'[q].link <= now' + ResetLifetime
  <2>1. ASSUME NEW p \in Requests,
               LoginStep(p) \/ SessionStep(p) \/ PasswordStep(p) \/ Abort(p)
        PROVE  \A q \in Requests : reqs'[q].pc = "spend" => reqs'[q].link <= now' + ResetLifetime
    <3>1. PICK r \in RequestStates : Successor(p, r)
      BY <2>1, RequestStep
    <3>2. ASSUME r.pc = "spend"  PROVE r.link <= now' + ResetLifetime
      <4>1. r.link \in links
        BY <3>1, <3>2 DEF Successor
      <4>. QED  BY <4>1, <1>2
    <3>. QED  BY <3>1, <3>2, <1>1 DEF Successor, RequestInv
  <2>2. CASE Restart
    BY <2>2 DEF Restart, Idle
  <2>3. CASE UNCHANGED reqs
    BY <2>3, <1>1 DEF RequestInv
  <2>. QED  BY <2>1, <2>2, <2>3 DEF Next, Issue, Tick, vars
<1>5. \A l \in Links :
        /\ passed'[l] <= 1
        /\ passed'[l] = 1 /\ now' < l => \E s \in spent' : s.link = l /\ s.until >= l
  <2>1. CASE UNCHANGED <<spent, passed>>
    BY <2>1, <1>1
  <2>2. CASE Restart
    BY <2>2 DEF Restart
  <2>3. ASSUME NEW q \in Requests, Spend(q)
        PROVE  \A l \in Links :
                 /\ passed'[l] <= 1
                 /\ passed'[l] = 1 /\ now' < l => \E s \in spent' : s.link = l /\ s.until >= l
    <3> DEFINE link == reqs[q].link
    <3>1. /\ link \in Links /\ link <= now + ResetLifetime /\ now' = now
          /\ Swept \subseteq spent'
      BY <2>3 DEF Spend, At, RequestInv
    <3>2. ASSUME NEW l \in Links, passed[l] = 1, now < l
          PROVE  \E s \in Swept : s.link = l /\ s.until >= l
      BY <3>2 DEF Swept
    <3>3. CASE UNCHANGED passed
      BY <3>1, <3>2, <3>3
    <3>4. CASE /\ \A s \in Swept : s.link # link
               /\ now < link /\ passed' = [passed EXCEPT ![link] = @ + 1]
               /\ Remembered(link) \in spent'
      <4>1. passed[link] = 0
        BY <3>1, <3>2, <3>4
      <4>2. Remembered(link).link = link /\ Remembered(link).until >= link
        BY <3>1 DEF Remembered
      <4>. QED  BY <3>1, <3>2, <3>4, <4>1, <4>2
    <3>. QED  BY <2>3, <3>3, <3>4 DEF Spend
  <2>. QED  BY <2>1, <2>2, <2>3, Frames
<1>. QED  BY <1>3, <1>4, <1>5

\* A reset link lets one request through in the time it is good, as long as the server
\* is not restarted: however requests overlap between complete's look at the link and
\* Spend, and however the clock moves between them.
THEOREM EveryLinkOnce == Spec => []LinkWorksOnce
<1>1. Init => TypeOK /\ LimiterInv /\ RequestInv /\ LinkInv
  BY TypeInit, LinkInit
<1>2. TypeOK /\ LimiterInv /\ RequestInv /\ LinkInv /\ [Next]_vars
        => (TypeOK /\ LimiterInv /\ RequestInv /\ LinkInv)'
  BY TypeStep, LinkStep
<1>3. LinkInv => LinkWorksOnce
  BY DEF LinkInv, LinkWorksOnce
<1>. QED  BY <1>1, <1>2, <1>3, PTL DEF Spec

-----------------------------------------------------------------------------
(* The session. *)

LEMMA SessionInit == Init => SessionInv
  BY Durations DEF Init, SessionInv, Idle

LEMMA SessionShapes ==
    ASSUME TypeOK, session # NoSession
    PROVE  session \in [id : 1..MaxSessions, seen : 0..MaxTime,
                        expires : 0..(MaxTime + AbsoluteTimeout)]
  BY DEF TypeOK, SessionRows

\* Only the last step of a new password moves the cutoff, and it ends the session.
LEMMA CutoffStep ==
    ASSUME TypeOK, [Next]_vars, cutoff' # cutoff
    PROVE  \E q \in Requests : /\ EndSessions(q)
                               /\ cutoff' = reqs[q].before /\ cutoff' > cutoff
<1>1. PICK q \in Requests : Spend(q) \/ SetPassword(q) \/ EndSessions(q)
  BY DEF Next, LoginStep, Allow, ReadHash, RecordFailure, RecordSuccess, Rehash, StartSession,
         SessionStep, Authenticate, Discard, Touch, Logout, PasswordStep, ChangePassword,
         ReplacePassword, Complete, Abort, Issue, Restart, Tick, vars
<1>2. ~Spend(q)
  BY DEF Spend, At, Onward, Then
<1>3. ~SetPassword(q)
  <2>1. SUFFICES ASSUME SetPassword(q) PROVE FALSE
    OBVIOUS
  <2>2. [reqs[q] EXCEPT !.before = minted].pc = "write"
    BY <2>1, PasswordShape DEF SetPassword, At, TypeOK, PasswordPlaces
  <2>. QED  BY <2>1, <2>2 DEF SetPassword, Onward, Then
<1>. QED  BY <1>1, <1>2, <1>3 DEF EndSessions, Onward

\* What happens to the session.
Minted == \E q \in Requests : StartSession(q)
Touched ==
    /\ session # NoSession /\ minted' = minted
    /\ \E at \in 0..MaxTime :
         /\ session.seen < at - TouchThrottle
         /\ session' = [id |-> session.id, seen |-> at, expires |-> session.expires]
Ended ==
    /\ session' = NoSession /\ minted' = minted
    /\ \E q \in Requests :
         \/ reqs[q].pc \in {"discard", "logout"} /\ reqs[q].id = session.id
         \/ reqs[q].pc = "end"

LEMMA SessionChanges ==
    ASSUME TypeOK, [Next]_vars
    PROVE  Minted \/ Touched \/ Ended \/ UNCHANGED <<session, minted>>
<1>1. ASSUME NEW q \in Requests, Discard(q) \/ Logout(q)
      PROVE  Ended \/ UNCHANGED <<session, minted>>
  BY <1>1 DEF Discard, Logout, At, Without, Ended
<1>2. ASSUME NEW q \in Requests, Touch(q)
      PROVE  Touched \/ UNCHANGED <<session, minted>>
  <2>1. minted' = minted /\ reqs[q].at \in 0..MaxTime
    BY <1>2, SessionShape DEF Touch, At, TypeOK, SessionPlaces
  <2>2. CASE /\ session # NoSession /\ session.seen < reqs[q].at - TouchThrottle
             /\ session' = [session EXCEPT !.seen = reqs[q].at]
    <3>1. session' = [id |-> session.id, seen |-> reqs[q].at, expires |-> session.expires]
      BY <2>2, SessionShapes
    <3>. QED  BY <2>1, <2>2, <3>1 DEF Touched
  <2>. QED  BY <1>2, <2>1, <2>2 DEF Touch
<1>3. ASSUME NEW q \in Requests, EndSessions(q)
      PROVE  Ended
  BY <1>3 DEF EndSessions, At, Ended
<1>4. ASSUME NEW q \in Requests, LoginStep(q)
      PROVE  Minted \/ UNCHANGED <<session, minted>>
  BY <1>4 DEF LoginStep, Allow, ReadHash, RecordFailure, RecordSuccess, Rehash, Minted, stored
<1>5. ASSUME NEW q \in Requests, PasswordStep(q)
      PROVE  EndSessions(q) \/ UNCHANGED <<session, minted>>
  BY <1>5 DEF PasswordStep, ChangePassword, ReplacePassword, Complete, Spend, SetPassword,
              stored
<1>. QED
  BY <1>1, <1>2, <1>3, <1>4, <1>5
  DEF Next, SessionStep, Authenticate, Abort, Issue, Restart, Tick, vars, stored

LEMMA SessionsStep ==
    ASSUME TypeOK, RequestInv, SessionInv, [Next]_vars
    PROVE  SessionInv'
<1>1. /\ minted \in Nat /\ cutoff \in Nat /\ cutoff <= minted
      /\ session # NoSession =>
           session.id \in Nat \ {0} /\ cutoff < session.id /\ session.id <= minted
  BY SessionShapes, Durations DEF TypeOK, SessionInv
<1>2. ASSUME NEW q \in Requests, reqs[q].pc \in PasswordPlaces
      PROVE  reqs[q].before \in Nat /\ reqs[q].before <= minted
  <2>1. reqs[q].before \in 0..MaxSessions
    BY <1>2, PasswordShape DEF TypeOK
  <2>2. reqs[q].before <= minted
    BY <1>2 DEF SessionInv, PasswordPlaces
  <2>. QED  BY <2>1, <2>2, Durations
<1>3. minted' = minted \/ minted' = minted + 1
  BY SessionChanges DEF Minted, StartSession, Touched, Ended
<1>4. \A q \in Requests : reqs'[q].pc \in PasswordPlaces => reqs'[q].before <= minted'
  <2>1. ASSUME NEW p \in Requests,
               LoginStep(p) \/ SessionStep(p) \/ PasswordStep(p) \/ Abort(p)
        PROVE  \A q \in Requests : reqs'[q].pc \in PasswordPlaces => reqs'[q].before <= minted'
    <3>1. PICK r \in RequestStates : Successor(p, r)
      BY <2>1, RequestStep
    <3>2. r.pc \in PasswordPlaces => r.before <= minted /\ r.before \in Nat
      BY <3>1, <1>1, <1>2 DEF Successor
    <3>3. ASSUME NEW q \in Requests, reqs'[q].pc \in PasswordPlaces
          PROVE  reqs'[q].before \in Nat /\ reqs'[q].before <= minted
      BY <3>1, <3>2, <3>3, <1>2 DEF Successor, TypeOK
    <3>. QED  BY <3>3, <1>1, <1>3
  <2>2. CASE Restart
    BY <2>2 DEF Restart, Idle, PasswordPlaces
  <2>3. CASE UNCHANGED reqs
    BY <2>3, <1>1, <1>2, <1>3
  <2>. QED  BY <2>1, <2>2, <2>3 DEF Next, Issue, Tick, vars
<1>5. CASE cutoff' # cutoff
  <2>1. PICK q \in Requests : EndSessions(q) /\ cutoff' = reqs[q].before
    BY <1>5, CutoffStep
  <2>2. session' = NoSession /\ minted' = minted /\ cutoff' <= minted'
    BY <2>1, <1>2 DEF EndSessions, At, PasswordPlaces
  <2>. QED  BY <2>2, <1>4 DEF SessionInv, PasswordPlaces
<1>6. CASE cutoff' = cutoff
  <2>1. /\ session' # NoSession => cutoff < session'.id /\ session'.id <= minted'
        /\ cutoff <= minted'
    <3>1. CASE Minted
      BY <3>1, <1>1 DEF Minted, StartSession
    <3>2. CASE Touched
      BY <3>2, <1>1 DEF Touched
    <3>3. CASE Ended
      BY <3>3, <1>1 DEF Ended
    <3>. QED  BY <3>1, <3>2, <3>3, <1>1, SessionChanges
  <2>. QED  BY <2>1, <1>4, <1>6 DEF SessionInv, PasswordPlaces
<1>. QED  BY <1>5, <1>6

\* What SessionHistory says of one step.
LEMMA SessionHistoryStep ==
    ASSUME TypeOK, SessionInv, SessionInv', [Next]_vars
    PROVE  /\ session # NoSession /\ session' = NoSession =>
                 \E q \in Requests : \/ /\ reqs[q].pc \in {"discard", "logout"}
                                        /\ reqs[q].id = session.id
                                     \/ reqs[q].pc = "end"
           /\ session # NoSession /\ session' # NoSession /\ session'.id = session.id =>
                 session'.seen >= session.seen /\ session'.expires = session.expires
           /\ session' # NoSession => session'.id > cutoff'
<1>1. session # NoSession =>
        /\ session.id \in Nat \ {0} /\ session.id <= minted
        /\ session.seen \in Nat
  BY SessionShapes, Durations DEF SessionInv
<1>2. minted \in Nat
  BY Durations DEF TypeOK
<1>3. CASE Minted
  BY <1>1, <1>2, <1>3 DEF Minted, StartSession, NoSession, SessionInv
<1>4. CASE Touched
  BY <1>1, <1>2, <1>4, Durations DEF Touched, NoSession, SessionInv
<1>5. CASE Ended
  BY <1>5 DEF Ended
<1>6. CASE UNCHANGED <<session, minted>>
  BY <1>1, <1>6 DEF SessionInv
<1>. QED  BY <1>3, <1>4, <1>5, <1>6, SessionChanges

\* A session ends by a login, a request that names it or a replaced password only, is
\* never seen earlier than before, and is gone when a replaced password is answered,
\* whatever logins and touches run meanwhile.
THEOREM SessionsEndForCause == Spec => SessionHistory
<1>1. Init => TypeOK /\ LimiterInv /\ RequestInv /\ SessionInv
  BY TypeInit, SessionInit
<1>2. TypeOK /\ LimiterInv /\ RequestInv /\ SessionInv /\ [Next]_vars
        => (TypeOK /\ LimiterInv /\ RequestInv /\ SessionInv)'
  BY TypeStep, SessionsStep
<1>3. TypeOK /\ SessionInv /\ SessionInv' /\ [Next]_vars =>
        [/\ session # NoSession /\ session' = NoSession =>
               \E q \in Requests : \/ /\ reqs[q].pc \in {"discard", "logout"}
                                      /\ reqs[q].id = session.id
                                   \/ reqs[q].pc = "end"
         /\ session # NoSession /\ session' # NoSession /\ session'.id = session.id =>
               session'.seen >= session.seen /\ session'.expires = session.expires
         /\ session' # NoSession => session'.id > cutoff']_vars
  BY SessionHistoryStep
<1>. QED  BY <1>1, <1>2, <1>3, PTL DEF Spec, SessionHistory
=============================================================================
