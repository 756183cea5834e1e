------------------------------ MODULE Sessions ------------------------------
(***************************************************************************)
(* How one account gets in: its password, its one browser session, the     *)
(* reset links mailed for it and the counters of failed logins.            *)
(*                                                                         *)
(* A request is a goroutine, and a step is one statement of it, one of the *)
(* critical sections of the in-memory stores, or what lies between two of  *)
(* these.  Whose cookie a browser keeps does not matter: any session ever  *)
(* started may still be shown to the server.                               *)
(***************************************************************************)
EXTENDS Integers, FiniteSets

CONSTANTS
    Requests,          \* requests served at once
    IdleTimeout, AbsoluteTimeout, TouchThrottle, ResetLifetime, Window,
    PerName, PerAddress,             \* failures the limiter allows; 0 would be no limit
    MaxTime, MaxSessions, MaxPasswords, MaxLinks

ASSUME DurationAssumption ==
    /\ {IdleTimeout, TouchThrottle, MaxTime, MaxSessions} \subseteq Nat
    /\ {AbsoluteTimeout, ResetLifetime, Window, PerName, PerAddress, MaxPasswords, MaxLinks}
          \subseteq Nat \ {0}
ASSUME RequestAssumption == IsFiniteSet(Requests)

\* No row and no counter: no session is numbered 0, and no counter counts to 0.
NoSession == [id |-> 0, seen |-> 0, expires |-> 0]
NoCounter == [failures |-> 0, expires |-> 0]

VARIABLES
    now,
    password,    \* app_user.password_hash, by the number of the password
    weak,        \* ... made with weaker parameters than the current ones
    session,     \* the row of the account
    minted,      \* sessions started so far
    links,       \* reset links mailed, each by the time it stops working
    spent,       \* UsedResets.spent
    names, addresses,   \* LoginLimiter's counters for the account and its client
    reqs,        \* the requests, by slot
    \* Not in the code, for the properties:
    passed,      \* how many requests a link let pass in its time, since the last start
    cutoff       \* sessions that a reset password has ended: up to this one

stored == <<password, weak, session, minted>>
limiter == <<names, addresses>>
resets == <<links, spent, passed>>
vars == <<now, stored, limiter, resets, reqs, cutoff>>

Idle == [pc |-> "idle"]
Start(q, r) == reqs[q] = Idle /\ reqs' = [reqs EXCEPT ![q] = r]
At(q, pc) == reqs[q].pc = pc
Goto(q, pc) == reqs' = [reqs EXCEPT ![q].pc = pc]
Over(q) == reqs' = [reqs EXCEPT ![q] = Idle]

-----------------------------------------------------------------------------
(* Logging in. *)

\* A window that has elapsed is dropped.
Current(counter) == IF counter # NoCounter /\ now >= counter.expires THEN NoCounter ELSE counter
Bumped(counter) ==
    IF Current(counter) = NoCounter THEN [failures |-> 1, expires |-> now + Window]
    ELSE [counter EXCEPT !.failures = @ + 1]
\* Slip: one more than the limit.
BlockedLate(counter, limit) == Current(counter) # NoCounter /\ counter.failures > limit
Blocked(counter, limit) == Current(counter) # NoCounter /\ counter.failures >= limit

\* An attempt with some password, which 0 never is.
Allow(q, typed) ==
    /\ reqs[q] = Idle
    /\ names' = Current(names) /\ addresses' = Current(addresses)
    /\ \/ (Blocked(names, PerName) \/ Blocked(addresses, PerAddress)) /\ UNCHANGED reqs
       \/ /\ ~Blocked(names, PerName) /\ ~Blocked(addresses, PerAddress)
          /\ Start(q, [pc |-> "allowed", typed |-> typed, upgrade |-> FALSE])
    /\ UNCHANGED <<now, stored, resets, cutoff>>

\* PasswordHashByName and Verify.
ReadHash(q) ==
    LET typed == reqs[q].typed
    IN  /\ At(q, "allowed")
        /\ reqs' = [reqs EXCEPT ![q] =
                      [pc |-> IF typed = password THEN "right" ELSE "wrong",
                       typed |-> typed, upgrade |-> weak /\ typed = password]]
        /\ UNCHANGED <<now, stored, limiter, resets, cutoff>>

RecordFailure(q) ==
    /\ At(q, "wrong")
    /\ names' = Bumped(names) /\ addresses' = Bumped(addresses)
    /\ Over(q)
    /\ UNCHANGED <<now, stored, resets, cutoff>>

\* The name is forgiven, the address is not.
RecordSuccess(q) ==
    /\ At(q, "right")
    /\ names' = NoCounter
    /\ Goto(q, IF reqs[q].upgrade THEN "rehash" ELSE "start")
    /\ UNCHANGED <<now, stored, addresses, resets, cutoff>>

\* rehashIfNeeded: the password that was typed, whatever is stored by now.  A
\* failure is only logged.
Rehash(q) ==
    /\ At(q, "rehash")
    /\ \/ password' = reqs[q].typed /\ weak' = FALSE
       \/ UNCHANGED <<password, weak>>
    /\ Goto(q, "start")
    /\ UNCHANGED <<now, session, minted, limiter, resets, cutoff>>

\* ReplaceSession: the new session takes over the row.
StartSession(q) ==
    /\ At(q, "start") /\ minted < MaxSessions
    /\ minted' = minted + 1
    /\ session' = [id |-> minted + 1, seen |-> now, expires |-> now + AbsoluteTimeout]
    /\ Over(q)
    /\ UNCHANGED <<now, password, weak, limiter, resets, cutoff>>

-----------------------------------------------------------------------------
(* Requests with a session. *)

Expired == now >= session.expires
Untouched == now - session.seen > IdleTimeout

\* fromSession: the row and the clock are read once, and what follows is done
\* by the session's identifier.
Authenticate(q, id, wants) ==
    /\ session # NoSession /\ session.id = id
    /\ Start(q, [pc |-> IF Expired \/ Untouched THEN "discard" ELSE "touch",
                 id |-> id, at |-> now, wants |-> wants])
    /\ UNCHANGED <<now, stored, limiter, resets, cutoff>>

\* Slip: the sessions of the account are deleted, not the one that was read.
WithoutAny(id) == NoSession
\* DELETE FROM session WHERE id = ...
Without(id) == IF session # NoSession /\ session.id = id THEN NoSession ELSE session
Discard(q) ==
    /\ At(q, "discard")
    /\ session' = Without(reqs[q].id)
    /\ Over(q)
    /\ UNCHANGED <<now, password, weak, minted, limiter, resets, cutoff>>

\* TouchSession, whose WHERE clause decides; when it fails, the request goes on.
Touch(q) ==
    LET r == reqs[q]
    IN  /\ At(q, "touch")
        /\ \/ /\ session # NoSession /\ session.id = r.id /\ session.seen < r.at - TouchThrottle
              /\ session' = [session EXCEPT !.seen = r.at]
           \/ UNCHANGED session
        /\ \/ r.wants = "visit" /\ Over(q)
           \/ r.wants # "visit" /\ Goto(q, r.wants)
        /\ UNCHANGED <<now, password, weak, minted, limiter, resets, cutoff>>

Logout(q) ==
    /\ At(q, "logout")
    /\ session' = Without(reqs[q].id)
    /\ Over(q)
    /\ UNCHANGED <<now, password, weak, minted, limiter, resets, cutoff>>

-----------------------------------------------------------------------------
(* New passwords: one's own, by an administrator, by a reset link. *)

Writing(pc, own, link) == [pc |-> pc, own |-> own, link |-> link, before |-> 0]

\* Slip: the sessions are ended before the password is written.
ThenSwapped(pc) ==
    IF pc = "spend" THEN "end" ELSE IF pc = "end" THEN "write" ELSE "done"
\* The order of complete and of an administrator's patch.
Then(pc) == IF pc = "spend" THEN "write" ELSE IF pc = "write" THEN "end" ELSE "done"
Onward(q, r) ==
    /\ reqs' = [reqs EXCEPT ![q] = IF Then(r.pc) = "done" THEN Idle
                                   ELSE [r EXCEPT !.pc = Then(r.pc)]]
    /\ cutoff' = IF Then(r.pc) = "done" /\ r.before > cutoff THEN r.before ELSE cutoff

\* One's own: the current password has been given, and the sessions stay.
ChangePassword(q) ==
    /\ At(q, "change")
    /\ reqs' = [reqs EXCEPT ![q] = Writing("write", TRUE, 0)]
    /\ UNCHANGED <<now, stored, limiter, resets, cutoff>>

\* An administrator's.
ReplacePassword(q) ==
    /\ Start(q, Writing(Then("spend"), FALSE, 0))
    /\ UNCHANGED <<now, stored, limiter, resets, cutoff>>

\* POST /auth/password-reset.  Two links of one second are one link.
Issue ==
    /\ links' = links \cup {now + ResetLifetime} /\ Cardinality(links') <= MaxLinks
    /\ UNCHANGED <<now, stored, limiter, spent, passed, reqs, cutoff>>

\* complete: the link is ours, has not expired, and the password is good.
Complete(q, link) ==
    /\ now < link
    /\ Start(q, Writing("spend", FALSE, link))
    /\ UNCHANGED <<now, stored, limiter, resets, cutoff>>

\* Slip: remembered until it was spent.
RememberedBriefly(link) == [link |-> link, until |-> now]
Remembered(link) == [link |-> link, until |-> now + ResetLifetime]
Swept == {s \in spent : now < s.until}
\* UsedResets.Spend, which reads the clock again.
Spend(q) ==
    LET link == reqs[q].link
    IN  /\ At(q, "spend")
        /\ \/ /\ \E s \in Swept : s.link = link
              /\ spent' = Swept /\ Over(q) /\ UNCHANGED <<passed, cutoff>>
           \/ /\ \A s \in Swept : s.link # link
              /\ spent' = Swept \cup {Remembered(link)}
              /\ passed' = IF now < link THEN [passed EXCEPT ![link] = @ + 1] ELSE passed
              /\ Onward(q, reqs[q])
        /\ UNCHANGED <<now, stored, limiter, links>>

\* UpdateUser, with another password than the current one.
SetPassword(q) ==
    LET r == reqs[q]
    IN  /\ At(q, "write") /\ password < MaxPasswords
        /\ password' = password + 1 /\ weak' = FALSE
        /\ \/ r.own /\ Over(q) /\ UNCHANGED cutoff
           \/ ~r.own /\ Onward(q, [r EXCEPT !.before = minted])
        /\ UNCHANGED <<now, session, minted, limiter, resets>>

\* DeleteSessionsForUser.
EndSessions(q) ==
    /\ At(q, "end")
    /\ session' = NoSession
    /\ Onward(q, reqs[q])
    /\ UNCHANGED <<now, password, weak, minted, limiter, resets>>

-----------------------------------------------------------------------------
\* A statement fails, or the request's context ends.  What is kept in memory does
\* not fail, and neither an upgrade nor a touch that fails ends the request.
Abort(q) ==
    /\ reqs[q].pc \in {"allowed", "start", "discard", "logout", "change", "write", "end"}
    /\ Over(q)
    /\ UNCHANGED <<now, stored, limiter, resets, cutoff>>

\* The server is restarted: what it had in memory is gone.
Restart ==
    /\ spent' = {} /\ names' = NoCounter /\ addresses' = NoCounter
    /\ reqs' = [q \in Requests |-> Idle]
    /\ passed' = [link \in DOMAIN passed |-> 0]
    /\ UNCHANGED <<now, stored, links, cutoff>>

Tick == now < MaxTime /\ now' = now + 1
        /\ UNCHANGED <<stored, limiter, resets, reqs, cutoff>>

Links == ResetLifetime..(MaxTime + ResetLifetime)
Init ==
    /\ now = 0
    /\ password = 1 /\ weak \in BOOLEAN
    /\ session = NoSession /\ minted = 0
    /\ links = {} /\ spent = {}
    /\ names = NoCounter /\ addresses = NoCounter
    /\ reqs = [q \in Requests |-> Idle]
    /\ passed = [link \in Links |-> 0] /\ cutoff = 0

LoginStep(q) == \/ \E typed \in 0..password : Allow(q, typed)
                \/ ReadHash(q) \/ RecordFailure(q) \/ RecordSuccess(q)
                \/ Rehash(q) \/ StartSession(q)
SessionStep(q) == \/ \E id \in 1..minted, wants \in {"visit", "logout", "change"} :
                        Authenticate(q, id, wants)
                  \/ Discard(q) \/ Touch(q) \/ Logout(q)
PasswordStep(q) == \/ ChangePassword(q) \/ ReplacePassword(q)
                   \/ \E link \in links : Complete(q, link)
                   \/ Spend(q) \/ SetPassword(q) \/ EndSessions(q)
Next == \/ \E q \in Requests : LoginStep(q) \/ SessionStep(q) \/ PasswordStep(q) \/ Abort(q)
        \/ Issue \/ Restart \/ Tick
Spec == Init /\ [][Next]_vars

-----------------------------------------------------------------------------
(* Properties. *)

\* What is let through before the failures under way are counted adds to the
\* limit at most the requests there are.
Counters(limit) ==
    {NoCounter} \cup [failures : 1..(limit - 1 + Cardinality(Requests)),
                 expires : 0..(MaxTime + Window)]
SessionRows == {NoSession} \cup [id : 1..MaxSessions, seen : 0..MaxTime,
                            expires : 0..(MaxTime + AbsoluteTimeout)]
RequestStates ==
    {Idle}
    \cup [pc : {"allowed", "right", "wrong", "rehash", "start"}, typed : 0..MaxPasswords,
          upgrade : BOOLEAN]
    \cup [pc : {"discard", "touch", "logout", "change"}, id : 1..MaxSessions,
          at : 0..MaxTime, wants : {"visit", "logout", "change"}]
    \cup [pc : {"spend", "write", "end"}, own : BOOLEAN, link : {0} \cup Links,
          before : 0..MaxSessions]

\* Every column and slot is well typed, and the limiter's counters never pass
\* the limit by more than the requests under way at once.
TypeOK ==
    /\ now \in 0..MaxTime
    /\ password \in 1..MaxPasswords /\ weak \in BOOLEAN
    /\ session \in SessionRows /\ minted \in 0..MaxSessions
    /\ links \subseteq Links
    /\ spent \subseteq [link : Links, until : Links]
    /\ names \in Counters(PerName) /\ addresses \in Counters(PerAddress)
    /\ reqs \in [Requests -> RequestStates]
    /\ passed \in [Links -> Nat] /\ cutoff \in 0..MaxSessions

\* "What is stored, here in memory, is which tokens have already been used, so
\* that a link works once" before it expires: however requests with it overlap, and
\* as long as the server is not restarted.
LinkWorksOnce == \A link \in Links : passed[link] <= 1

\* A session ends with a login, with a request that names it or with a password
\* that was replaced; a request that was decided on an older session does not
\* end it.  The time it was last seen never goes back.  "Every session of that
\* account ends": of those from before the new password none is left when the
\* request has been answered.
SessionHistory ==
    [][/\ session # NoSession /\ session' = NoSession =>
             \E q \in Requests : \/ /\ reqs[q].pc \in {"discard", "logout"}
                                    /\ reqs[q].id = session.id
                                 \/ reqs[q].pc = "end"
       /\ session # NoSession /\ session' # NoSession /\ session'.id = session.id =>
             session'.seen >= session.seen /\ session'.expires = session.expires
       /\ session' # NoSession => session'.id > cutoff']_vars
=============================================================================
