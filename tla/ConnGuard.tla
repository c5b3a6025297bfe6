----------------------------- MODULE ConnGuard -----------------------------
(***************************************************************************)
(* The connection guard (src/pkg/security/connguard.go) with the handlers  *)
(* that use it (handleClient in src/cmd/server/main.go): the limits on the *)
(* number and the frequency of the connections of an address, and the      *)
(* temporary bans.                                                         *)
(*                                                                         *)
(* Every step is one critical section of g.mu, at the time `now'; a        *)
(* handler that was admitted may be anywhere between two of them while the *)
(* address it came from is banned, forgiven or connects again.  Abstracted:*)
(* the syntax of addresses and of the whitelist, log lines, the reason of  *)
(* a ban.  The specification's own names begin with Guard, so that a proof *)
(* module can extend this module next to ClientSession.                    *)
(***************************************************************************)
EXTENDS Integers, FiniteSets

CONSTANTS
  IPs,
  Whitelist,     \* the addresses inside a whitelisted network
  Loopback,      \* 127.0.0.1, ::1, localhost
  Handlers,      \* goroutines running handleClient
  maxConn, minInterval, banDuration, banThreshold,
  MaxTime,       \* bound on the clock of a behaviour
  Never,         \* no time: the address is not in the map
  NoIP           \* the handler has no connection

ASSUME AddressAssumption ==
  Whitelist \subseteq IPs /\ Loopback \subseteq IPs /\ NoIP \notin IPs
ASSUME HandlerAssumption == IsFiniteSet(Handlers)
ASSUME LimitAssumption ==
  /\ maxConn \in Nat
  /\ minInterval \in Nat
  /\ banDuration \in Nat
  /\ banThreshold \in Nat \ {0}
ASSUME TimeAssumption == MaxTime \in Nat /\ Never \notin Nat

\* The addresses that every rule applies to.
Guarded == IPs \ (Whitelist \cup Loopback)

VARIABLES
  now,
  connCount,     \* address -> open connections
  lastConn,      \* address -> time of the last admitted connection
  blacklist,     \* address -> time of the ban
  misbehavior,   \* address -> offences since the last ban or login
  at,            \* handler -> "free", "login", "served" or "leaving"
  ip,            \* handler -> address of its connection, NoIP if it has none
  lastBan        \* history: address -> time of the last ban

guard     == <<connCount, lastConn, blacklist, misbehavior>>
handlers  == <<at, ip>>
guardVars == <<now, guard, handlers, lastBan>>

GuardInit ==
  /\ now = 0
  /\ connCount = [i \in IPs |-> 0]
  /\ lastConn = [i \in IPs |-> Never]
  /\ blacklist = [i \in IPs |-> Never]
  /\ misbehavior = [i \in IPs |-> 0]
  /\ at = [h \in Handlers |-> "free"]
  /\ ip = [h \in Handlers |-> NoIP]
  /\ lastBan = [i \in IPs |-> Never]

-----------------------------------------------------------------------------
Since(t) == now - t

\* Mutant of BanExpired: entries are dropped at the first opportunity.
BanExpiredAtOnce(i) == blacklist[i] # Never

\* The ban of i is over, although its entry is still in the map.
BanExpired(i) == blacklist[i] # Never /\ Since(blacklist[i]) >= banDuration

\* IsBanned
IsBanned(i) == blacklist[i] # Never /\ ~BanExpired(i)

TooSoon(i) == lastConn[i] # Never /\ Since(lastConn[i]) < minInterval

\* Mutant of TooMany: off by one.
TooManyOffByOne(i) == connCount[i] > maxConn

TooMany(i) == connCount[i] >= maxConn

\* ban, with `old' the blacklist as the caller has left it
ban(i, old) ==
  /\ blacklist' = [old EXCEPT ![i] = now]
  /\ lastBan' = [lastBan EXCEPT ![i] = now]

\* One offence of i: the threshold bans it and starts the count again.
Offence(i, old) ==
  LET n == misbehavior[i] + 1 IN
  /\ IF n >= banThreshold
     THEN /\ ban(i, old)
          /\ misbehavior' = [misbehavior EXCEPT ![i] = 0]
     ELSE /\ blacklist' = old
          /\ lastBan' = lastBan
          /\ misbehavior' = [misbehavior EXCEPT ![i] = n]

\* Mutant of Counts: whitelisted connections are counted as well.
CountsAll(i) == i \in IPs

\* Whether Check books a connection from i.
Counts(i) == i \notin Whitelist

\* Check lets it in: whitelisted, loopback, or within the limits.
CheckPasses(h, i) ==
  /\ at[h] = "free"
  /\ at' = [at EXCEPT ![h] = "login"]
  /\ ip' = [ip EXCEPT ![h] = i]
  /\ i \in Guarded => ~IsBanned(i) /\ ~TooSoon(i) /\ ~TooMany(i)
  /\ connCount' = IF Counts(i) THEN [connCount EXCEPT ![i] = connCount[i] + 1] ELSE connCount
  /\ lastConn' = IF Counts(i) THEN [lastConn EXCEPT ![i] = now] ELSE lastConn
  /\ blacklist' = IF i \in Guarded THEN [blacklist EXCEPT ![i] = Never] ELSE blacklist
  /\ UNCHANGED <<now, misbehavior, lastBan>>

\* Check refuses it for its frequency or its number, which is an offence.
\* (Refused by a ban, it changes nothing.)
CheckRefuses(h, i) ==
  /\ at[h] = "free"
  /\ i \in Guarded
  /\ ~IsBanned(i)
  /\ TooSoon(i) \/ TooMany(i)
  /\ Offence(i, [blacklist EXCEPT ![i] = Never])
  /\ UNCHANGED <<now, connCount, lastConn, handlers>>

\* handleClient goes from one step to the next.
Moves(h, from, to) ==
  /\ at[h] = from
  /\ at' = [at EXCEPT ![h] = to]
  /\ UNCHANGED <<now, ip, connCount, lastConn>>

\* BanForBadBehavior: no valid message in 10 s, or not a Login.
BadBehavior(h) ==
  /\ Moves(h, "login", "leaving")
  /\ IF ip[h] \in Whitelist
     THEN UNCHANGED <<blacklist, misbehavior, lastBan>>
     ELSE Offence(ip[h], blacklist)

\* EOF before the login, a Login that cannot be parsed, or a wrong token.
LeavesQuietly(h) ==
  /\ Moves(h, "login", "leaving")
  /\ UNCHANGED <<blacklist, misbehavior, lastBan>>

\* ClearMisbehavior
LoginSucceeds(h) ==
  /\ Moves(h, "login", "served")
  /\ misbehavior' = [misbehavior EXCEPT ![ip[h]] = 0]
  /\ UNCHANGED <<blacklist, lastBan>>

ConnectionEnds(h) ==
  /\ Moves(h, "served", "leaving")
  /\ UNCHANGED <<blacklist, misbehavior, lastBan>>

\* Mutant of Released: without the test for zero.
ReleasedUnguarded(i) == [connCount EXCEPT ![i] = connCount[i] - 1]

Released(i) ==
  IF connCount[i] > 0 THEN [connCount EXCEPT ![i] = connCount[i] - 1] ELSE connCount

\* The deferred Release, for whitelisted addresses too.
Release(h) ==
  /\ at[h] = "leaving"
  /\ at' = [at EXCEPT ![h] = "free"]
  /\ ip' = [ip EXCEPT ![h] = NoIP]
  /\ connCount' = Released(ip[h])
  /\ UNCHANGED <<now, lastConn, blacklist, misbehavior, lastBan>>

\* BanIP
BanIP(i) ==
  /\ i \notin Whitelist
  /\ ban(i, blacklist)
  /\ UNCHANGED <<now, connCount, lastConn, misbehavior, handlers>>

\* GetStats drops the bans that are over.
GetStats ==
  /\ blacklist' = [i \in IPs |-> IF BanExpired(i) THEN Never ELSE blacklist[i]]
  /\ UNCHANGED <<now, connCount, lastConn, misbehavior, handlers, lastBan>>

Tick ==
  /\ now < MaxTime
  /\ now' = now + 1
  /\ UNCHANGED <<guard, handlers, lastBan>>

HandlerStep(h) ==
  \/ \E i \in IPs : CheckPasses(h, i) \/ CheckRefuses(h, i)
  \/ BadBehavior(h) \/ LeavesQuietly(h) \/ LoginSucceeds(h)
  \/ ConnectionEnds(h) \/ Release(h)

GuardNext ==
  \/ \E h \in Handlers : HandlerStep(h)
  \/ \E i \in IPs : BanIP(i)
  \/ GetStats
  \/ Tick

GuardSpec == GuardInit /\ [][GuardNext]_guardVars

-----------------------------------------------------------------------------
(* Properties.                                                             *)

Times == Nat \cup {Never}

\* The type of every variable; no count is negative and no offender is at
\* the threshold without having been banned.
GuardTypeOK ==
  /\ now \in Nat
  /\ connCount \in [IPs -> Nat]
  /\ lastConn \in [IPs -> Times]
  /\ blacklist \in [IPs -> Times]
  /\ misbehavior \in [IPs -> 0 .. banThreshold - 1]
  /\ at \in [Handlers -> {"free", "login", "served", "leaving"}]
  /\ ip \in [Handlers -> IPs \cup {NoIP}]
  /\ lastBan \in [IPs -> Times]

\* The handlers of connections from i that have passed Check and have not
\* been released.
Live(i) == {h \in Handlers : ip[h] = i}

\* Check and Release are paired: the count of an address is the number of
\* its connections that are being handled, and nothing is ever booked for a
\* whitelisted one, whose connections are released without being counted.
CountExact ==
  \A i \in IPs :
    connCount[i] = IF i \in Whitelist THEN 0 ELSE Cardinality(Live(i))

\* An address never has more than maxConn connections (README 181), however
\* many arrive at the same time.
LimitHolds ==
  \A i \in Guarded : Cardinality(Live(i)) <= maxConn

\* Nobody is let in during a ban: banDuration has passed since the last time
\* the address was banned, whoever has removed the entry in between.
AdmissionAfterBan ==
  \A h \in Handlers :
    (at[h] = "free" /\ at'[h] = "login" /\ ip'[h] \in Guarded)
      => lastBan[ip'[h]] = Never \/ now - lastBan[ip'[h]] >= banDuration

BansAreServed == [][AdmissionAfterBan]_guardVars
=============================================================================
