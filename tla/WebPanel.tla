------------------------------ MODULE WebPanel ------------------------------
(***************************************************************************)
(* The login of the web panel: sessions, lockout, the administrator's      *)
(* password and the settings file (src/pkg/web/server.go and               *)
(* src/pkg/web/security.go).                                               *)
(*                                                                         *)
(* Every HTTP request is a goroutine; it takes one step per critical       *)
(* section, per access to the password (two fields that no lock protects)  *)
(* and per call on the file system.  Time is a clock that may tick between *)
(* any two steps.  A hash is the pair of the password and the salt it was  *)
(* made from; salts are numbered in the order in which they are drawn.     *)
(* Abstracted: cookies, headers and CSRF tokens (a request with a wrong    *)
(* one ends after the renewal of its session, like any other that is       *)
(* refused), JSON, the log, the read-only handlers.                        *)
(***************************************************************************)
EXTENDS Naturals, FiniteSets

CONSTANTS
  IPs, Requests, SessionIDs, Passwords,
  ConfigPassword,   \* admin_password of the configuration
  Settings,         \* security settings that may be posted
  DefaultSettings,  \* defaultSecuritySettings
  MaxMinutes,       \* 1440, the largest timeout and lock
  MaxAttempts,      \* 100, the largest rate limit
  Renewal,          \* 30 minutes, by which a request renews its session
  None,             \* nothing there
  Torn,             \* a file that cannot be read
  MaxTime, MaxSalts, MaxCrashes, MaxArrivals   \* bounds

SettingsType == [timeout : Nat, max : Nat, lock : Nat]

ASSUME PasswordAssumption == ConfigPassword \in Passwords
ASSUME SettingsAssumption ==
  /\ Settings \subseteq SettingsType
  /\ MaxMinutes \in Nat \ {0} /\ MaxAttempts \in Nat \ {0}
  /\ DefaultSettings \in [timeout : 1 .. MaxMinutes, max : 1 .. MaxAttempts, lock : 1 .. MaxMinutes]
ASSUME TimeAssumption == Renewal \in Nat /\ MaxTime \in Nat
\* The configured password has drawn one salt.
ASSUME BoundAssumption == MaxSalts \in Nat \ {0} /\ MaxCrashes \in Nat
ASSUME RequestsAssumption == IsFiniteSet(Requests)
ASSUME NoneAssumption == None # Torn /\ None \notin Nat /\ None \notin [count : Nat, lockUntil : Nat]

VARIABLES
  now,
  passwordSalt, passwordHash,
  security,
  file, tmp,       \* web_settings.json and its .tmp: None, Torn, or what was saved
  sessions,        \* session -> expireTime, or None
  failedLogins,    \* address -> [count, lockUntil], or None
  cleaning,        \* the `now' of a run of cleanupSessions in progress, or None
  req,             \* request -> where it is and what it has read
  arrivals, salts, crashes,   \* requests so far, salts drawn, processes that died
  lock,            \* history: address -> latest end of a lock it was given
  eased,           \* history: addresses during whose lock settings with a shorter one were posted
  epoch,           \* history: writes of passwordHash
  cleared,         \* history: epoch of the last change that cleared the sessions
  born,            \* history: session -> epoch of the hash its password was compared with
  raced,           \* history: sessions that were about to be written when they were cleared
  overlap,         \* history: two writers of password or settings were under way at once
  promised,        \* history: hash of the last change that was answered with success, or None
  unsaved          \* history: a change of the password was answered with an error

password == <<passwordSalt, passwordHash, salts, epoch>>
disk     == <<file, tmp>>
logins   == <<failedLogins, lock, eased>>
session  == <<sessions, born, raced, cleared, promised>>
vars     == <<now, password, security, disk, logins, session, cleaning, req, arrivals, crashes,
              overlap, unsaved>>

Idle == [at |-> "idle"]

hashPasswordWithSalt(p, salt) == <<p, salt>>

Init ==
  /\ now = 0
  /\ passwordSalt = 1
  /\ passwordHash = hashPasswordWithSalt(ConfigPassword, 1)
  /\ salts = 1
  /\ security = DefaultSettings
  /\ file = None
  /\ tmp = None
  /\ sessions = [s \in SessionIDs |-> None]
  /\ failedLogins = [i \in IPs |-> None]
  /\ cleaning = None
  /\ req = [r \in Requests |-> Idle]
  /\ crashes = 0
  /\ arrivals = 0
  /\ lock = [i \in IPs |-> 0]
  /\ eased = {}
  /\ epoch = 0
  /\ cleared = 0
  /\ born = [s \in SessionIDs |-> None]
  /\ raced = {}
  /\ promised = None
  /\ overlap = FALSE
  /\ unsaved = FALSE

-----------------------------------------------------------------------------
\* Requests that have begun to write the password or to save the settings.
Writers(requests) ==
  {r \in Requests : requests[r].at \in
     {"newHash", "readSettings", "readHash", "readSalt", "open", "write", "rename", "clear"}}

\* Request r goes on with the state `to'.
Goes(r, from, to) ==
  /\ req[r].at = from
  /\ req' = [req EXCEPT ![r] = to]
  /\ arrivals' = arrivals + (IF from = "idle" THEN 1 ELSE 0)
  /\ arrivals' <= MaxArrivals
  /\ overlap' = (overlap \/ Cardinality(Writers(req')) > 1)

(* handleLogin.                                                            *)

\* isIPLocked
isIPLocked(i) == failedLogins[i] # None /\ now < failedLogins[i].lockUntil

\* A locked address is turned away, which changes nothing.
LoginArrives(r, i, p) ==
  /\ ~isIPLocked(i)
  /\ Goes(r, "idle", [at |-> "loginSalt", ip |-> i, pw |-> p])
  /\ UNCHANGED <<now, password, security, disk, logins, session, cleaning, crashes, unsaved>>

LoginReadsSalt(r) ==
  /\ Goes(r, "loginSalt", [at |-> "loginHash", ip |-> req[r].ip,
                           hash |-> hashPasswordWithSalt(req[r].pw, passwordSalt)])
  /\ UNCHANGED <<now, password, security, disk, logins, session, cleaning, crashes, unsaved>>

\* The comparison; the session id that a success will draw is fixed here.
LoginCompares(r) ==
  /\ req[r].at = "loginHash"
  /\ IF req[r].hash = passwordHash
     THEN \E s \in {x \in SessionIDs : born[x] = None} :
            /\ born' = [born EXCEPT ![s] = epoch]
            /\ Goes(r, "loginHash", [at |-> "success", ip |-> req[r].ip, sid |-> s])
     ELSE /\ Goes(r, "loginHash", [at |-> "failure", ip |-> req[r].ip])
          /\ UNCHANGED born
  /\ UNCHANGED <<now, password, security, disk, logins, sessions, raced, cleared, promised,
                 cleaning, crashes, unsaved>>

\* recordFailedLogin, under loginMu.  A login that was let in before the lock
\* began and fails during it gives a new end, from the settings in force.
recordFailedLogin(r) ==
  /\ Goes(r, "failure", Idle)
  /\ LET i == req[r].ip
         old == IF failedLogins[i] = None THEN [count |-> 0, lockUntil |-> 0] ELSE failedLogins[i]
         until == now + security.lock
     IN IF old.count + 1 >= security.max
        THEN /\ failedLogins' = [failedLogins EXCEPT ![i] = [count |-> 0, lockUntil |-> until]]
             /\ lock' = [lock EXCEPT ![i] = IF until >= @ THEN until ELSE @]
             /\ eased' = IF until >= lock[i] THEN eased \ {i} ELSE eased
        ELSE /\ failedLogins' = [failedLogins EXCEPT ![i] = [old EXCEPT !.count = @ + 1]]
             /\ UNCHANGED <<lock, eased>>
  /\ UNCHANGED <<now, password, security, disk, session, cleaning, crashes, unsaved>>

Forgive(i) ==
  /\ failedLogins' = [failedLogins EXCEPT ![i] = None]
  /\ lock' = [lock EXCEPT ![i] = 0]
  /\ eased' = eased \ {i}

\* recordSuccessfulLogin: whatever has happened to the address meanwhile.
recordSuccessfulLogin(r) ==
  /\ Goes(r, "success", [at |-> "insert", sid |-> req[r].sid])
  /\ Forgive(req[r].ip)
  /\ UNCHANGED <<now, password, security, disk, session, cleaning, crashes, unsaved>>

InsertSession(r) ==
  /\ Goes(r, "insert", Idle)
  /\ sessions' = [sessions EXCEPT ![req[r].sid] = now + security.timeout]
  /\ UNCHANGED <<now, password, security, disk, logins, born, raced, cleared, promised,
                 cleaning, crashes, unsaved>>

-----------------------------------------------------------------------------
(* authMiddleware, and the handlers behind it.                             *)

Expired(s, t) == sessions[s] # None /\ t > sessions[s]

\* The session is read under the read lock; a request without one ends.
RequestArrives(r, s) ==
  /\ sessions[s] # None
  /\ Goes(r, "idle", [at |-> IF Expired(s, now) THEN "expired" ELSE "renew", sid |-> s])
  /\ UNCHANGED <<now, password, security, disk, logins, session, cleaning, crashes, unsaved>>

DropExpired(r) ==
  /\ Goes(r, "expired", Idle)
  /\ sessions' = [sessions EXCEPT ![req[r].sid] = None]
  /\ UNCHANGED <<now, password, security, disk, logins, born, raced, cleared, promised,
                 cleaning, crashes, unsaved>>

\* Written back under the lock, without a second look.
Renew(r) ==
  /\ Goes(r, "renew", [at |-> "handle", sid |-> req[r].sid])
  /\ sessions' = [sessions EXCEPT ![req[r].sid] = now + Renewal]
  /\ UNCHANGED <<now, password, security, disk, logins, born, raced, cleared, promised,
                 cleaning, crashes, unsaved>>

\* Reads, wrong CSRF token, input that is refused.
HandleOther(r) ==
  /\ Goes(r, "handle", Idle)
  /\ UNCHANGED <<now, password, security, disk, logins, session, cleaning, crashes, unsaved>>

handleLogout(r) ==
  /\ Goes(r, "handle", Idle)
  /\ sessions' = [sessions EXCEPT ![req[r].sid] = None]
  /\ UNCHANGED <<now, password, security, disk, logins, born, raced, cleared, promised,
                 cleaning, crashes, unsaved>>

handleSecurityUnlock(r, i) ==
  /\ Goes(r, "handle", Idle)
  /\ Forgive(i)
  /\ UNCHANGED <<now, password, security, disk, session, cleaning, crashes, unsaved>>

\* Mutant of Clamp: zero is let through.
ClampAbove(n, hi) == IF n > hi THEN hi ELSE n

Clamp(n, hi) == IF n < 1 THEN 1 ELSE IF n > hi THEN hi ELSE n

Clamped(sec) == [timeout |-> Clamp(sec.timeout, MaxMinutes), max |-> Clamp(sec.max, MaxAttempts),
                 lock |-> Clamp(sec.lock, MaxMinutes)]

\* POST /api/security: set under secMu, then saved with the password as it is
\* found in memory.
handleSecurity(r, sec) ==
  /\ Goes(r, "handle", [at |-> "readHash", sec |-> Clamped(sec)])
  /\ security' = Clamped(sec)
  /\ eased' = IF Clamped(sec).lock < security.lock THEN eased \cup {i \in IPs : now < lock[i]}
              ELSE eased
  /\ UNCHANGED <<now, password, disk, failedLogins, lock, session, cleaning, crashes, unsaved>>

SecurityReadsHash(r) ==
  /\ Goes(r, "readHash", [at |-> "readSalt", sec |-> req[r].sec,
                          hash |-> passwordHash])
  /\ UNCHANGED <<now, password, security, disk, logins, session, cleaning, crashes, unsaved>>

\* `change' is the epoch of a change of the password, 0 for the settings.
Saving(change, sec, hash, salt) ==
  [at |-> "open", change |-> change, data |-> [sec |-> sec, hash |-> hash, salt |-> salt]]

SecurityReadsSalt(r) ==
  /\ Goes(r, "readSalt", Saving(0, req[r].sec, req[r].hash, passwordSalt))
  /\ UNCHANGED <<now, password, security, disk, logins, session, cleaning, crashes, unsaved>>

\* handleChangePassword: the current password is verified like a login's ...
handleChangePassword(r, p) ==
  /\ Goes(r, "handle", [at |-> "verify", pw |-> p,
                        hash |-> hashPasswordWithSalt(p, passwordSalt)])
  /\ UNCHANGED <<now, password, security, disk, logins, session, cleaning, crashes, unsaved>>

ChangeCompares(r, new) ==
  /\ req[r].at = "verify"
  /\ IF req[r].hash = passwordHash /\ new # req[r].pw
     THEN Goes(r, "verify", [at |-> "newSalt", pw |-> new])
     ELSE Goes(r, "verify", Idle)
  /\ UNCHANGED <<now, password, security, disk, logins, session, cleaning, crashes, unsaved>>

\* ... the two fields are written one after the other ...
WriteSalt(r) ==
  /\ salts < MaxSalts
  /\ salts' = salts + 1
  /\ passwordSalt' = salts'
  /\ Goes(r, "newSalt", [at |-> "newHash", hash |-> hashPasswordWithSalt(req[r].pw, salts')])
  /\ UNCHANGED <<now, passwordHash, epoch, security, disk, logins, session, cleaning, crashes,
                 unsaved>>

WriteHash(r) ==
  /\ epoch' = epoch + 1
  /\ Goes(r, "newHash", [at |-> "readSettings", hash |-> req[r].hash, epoch |-> epoch'])
  /\ passwordHash' = req[r].hash
  /\ UNCHANGED <<now, passwordSalt, salts, security, disk, logins, session, cleaning, crashes,
                 unsaved>>

\* ... and saved with the settings.
ChangeReadsSettings(r) ==
  /\ Goes(r, "readSettings", Saving(req[r].epoch, security, req[r].hash, req[r].hash[2]))
  /\ UNCHANGED <<now, password, security, disk, logins, session, cleaning, crashes, unsaved>>

-----------------------------------------------------------------------------
(* saveSettings: WriteFile on the one .tmp, then Rename.  A writer keeps   *)
(* its inode, whatever name that has meanwhile: `fd'.                      *)

\* Mutant of OpenTmp: the settings file is written in place.
OpenInPlace(r) ==
  /\ Goes(r, "open", [at |-> "write", change |-> req[r].change, data |-> req[r].data,
                      fd |-> "file"])
  /\ file' = Torn
  /\ UNCHANGED <<now, password, security, tmp, logins, session, cleaning, crashes, unsaved>>

OpenTmp(r) ==
  /\ Goes(r, "open", [at |-> "write", change |-> req[r].change, data |-> req[r].data, fd |-> "tmp"])
  /\ tmp' = Torn
  /\ UNCHANGED <<now, password, security, file, logins, session, cleaning, crashes, unsaved>>

\* Two writers of one inode may leave bytes of both.
Written(old, data) == IF old = Torn THEN {data} ELSE {data, Torn}

WriteTmp(r) ==
  /\ Goes(r, "write", [at |-> "rename", change |-> req[r].change, data |-> req[r].data])
  /\ tmp' \in IF req[r].fd = "tmp" THEN Written(tmp, req[r].data) ELSE {tmp}
  /\ file' \in IF req[r].fd = "file" THEN Written(file, req[r].data) ELSE {file}
  /\ UNCHANGED <<now, password, security, logins, session, cleaning, crashes, unsaved>>

\* The disk is full: the error is returned, sessions and memory stay.
SaveFails(r) ==
  /\ Goes(r, "write", Idle)
  /\ unsaved' = (unsaved \/ req[r].change # 0)
  /\ UNCHANGED <<now, password, security, disk, logins, session, cleaning, crashes>>

\* What follows a save: a change of the password clears the sessions.
Renamed(r) ==
  IF req[r].change = 0 THEN Idle
  ELSE [at |-> "clear", epoch |-> req[r].change, hash |-> req[r].data.hash]

\* Who has the .tmp open has the settings file open from now on.
Rename(r) ==
  /\ req[r].at = "rename"
  /\ tmp # None
  /\ file' = tmp
  /\ tmp' = None
  /\ req' = [q \in Requests |->
               IF q = r THEN Renamed(r)
               ELSE IF req[q].at # "write" THEN req[q]
               ELSE [req[q] EXCEPT !.fd = IF @ = "tmp" THEN "file" ELSE "gone"]]
  /\ unsaved' = (unsaved /\ req[r].data.hash # passwordHash)
  /\ UNCHANGED <<arrivals, now, password, security, logins, session, cleaning, crashes, overlap>>

\* Another request has renamed the .tmp: an error, although all is saved.
RenameFails(r) ==
  /\ tmp = None
  /\ Goes(r, "rename", Idle)
  /\ unsaved' = (unsaved \/ req[r].change # 0)
  /\ UNCHANGED <<now, password, security, disk, logins, session, cleaning, crashes>>

\* Requests that will write a session without looking at the map again.
AboutToWrite == {r \in Requests : req[r].at \in {"renew", "success", "insert"}}

\* Mutant of Emptied: like the cleanup.
EmptiedOfExpired == [s \in SessionIDs |-> IF Expired(s, now) THEN None ELSE sessions[s]]

Emptied == [s \in SessionIDs |-> None]

ClearSessions(r) ==
  /\ Goes(r, "clear", Idle)
  /\ sessions' = Emptied
  /\ cleared' = IF req[r].epoch > cleared THEN req[r].epoch ELSE cleared
  /\ raced' = raced \cup {req[q].sid : q \in AboutToWrite}
  /\ promised' = req[r].hash
  /\ UNCHANGED <<now, password, security, disk, logins, born, cleaning, crashes, unsaved>>

-----------------------------------------------------------------------------
(* cleanupSessions, every five minutes, with one reading of the clock.     *)

CleanSessions ==
  /\ cleaning = None
  /\ cleaning' = now
  /\ sessions' = [s \in SessionIDs |-> IF Expired(s, now) THEN None ELSE sessions[s]]
  /\ UNCHANGED <<arrivals, now, password, security, disk, logins, born, raced, cleared,
                 promised, req, crashes, overlap, unsaved>>

\* Mutant of Stale: only the count is looked at.
StaleByCount(i) == failedLogins[i].count = 0

Stale(i) == cleaning > failedLogins[i].lockUntil /\ failedLogins[i].count = 0

CleanLogins ==
  /\ cleaning # None
  /\ cleaning' = None
  /\ failedLogins' = [i \in IPs |-> IF failedLogins[i] # None /\ Stale(i) THEN None
                                    ELSE failedLogins[i]]
  /\ UNCHANGED <<arrivals, now, password, security, disk, lock, eased, session, req, crashes,
                 overlap, unsaved>>

Tick ==
  /\ now < MaxTime
  /\ now' = now + 1
  /\ UNCHANGED <<arrivals, password, security, disk, logins, session, cleaning, req, crashes,
                 overlap, unsaved>>

Saved == file \notin {None, Torn}

\* NewWebServer after a crash: what the file holds, if it can be read;
\* otherwise the defaults and the configured password under a new salt.
Restart ==
  /\ crashes < MaxCrashes
  /\ crashes' = crashes + 1
  /\ IF Saved
     THEN /\ security' = file.sec
          /\ passwordHash' = file.hash
          /\ passwordSalt' = file.salt
          /\ UNCHANGED salts
     ELSE /\ security' = DefaultSettings
          /\ salts' = salts + 1
          /\ passwordSalt' = salts'
          /\ passwordHash' = hashPasswordWithSalt(ConfigPassword, salts')
  /\ sessions' = [s \in SessionIDs |-> None]
  /\ failedLogins' = [i \in IPs |-> None]
  /\ lock' = [i \in IPs |-> 0]
  /\ eased' = {}
  /\ cleaning' = None
  /\ req' = [r \in Requests |-> Idle]
  /\ unsaved' = FALSE
  /\ UNCHANGED <<arrivals, now, epoch, disk, born, raced, cleared, promised, overlap>>

LoginStep(r) ==
  \/ \E i \in IPs, p \in Passwords : LoginArrives(r, i, p)
  \/ LoginReadsSalt(r) \/ LoginCompares(r)
  \/ recordFailedLogin(r) \/ recordSuccessfulLogin(r) \/ InsertSession(r)

RequestStep(r) ==
  \/ \E s \in SessionIDs : RequestArrives(r, s)
  \/ DropExpired(r) \/ Renew(r) \/ HandleOther(r) \/ handleLogout(r)
  \/ \E i \in IPs : handleSecurityUnlock(r, i)
  \/ \E sec \in Settings : handleSecurity(r, sec)
  \/ \E p \in Passwords : handleChangePassword(r, p) \/ ChangeCompares(r, p)
  \/ SecurityReadsHash(r) \/ SecurityReadsSalt(r)
  \/ WriteSalt(r) \/ WriteHash(r) \/ ChangeReadsSettings(r)
  \/ OpenTmp(r) \/ WriteTmp(r) \/ SaveFails(r) \/ Rename(r) \/ RenameFails(r)
  \/ ClearSessions(r)

Next ==
  \/ \E r \in Requests : LoginStep(r) \/ RequestStep(r)
  \/ CleanSessions \/ CleanLogins
  \/ Tick
  \/ Restart

Spec == Init /\ [][Next]_vars

-----------------------------------------------------------------------------
(* Properties.                                                             *)

Salts == 1 .. MaxSalts + MaxCrashes
Hashes == Passwords \X Salts
Applied == [timeout : 1 .. MaxMinutes, max : 1 .. MaxAttempts, lock : 1 .. MaxMinutes]
Savable == [sec : Applied, hash : Hashes, salt : Salts]
Contents == Savable \cup {Torn, None}

ASSUME ContentsAssumption == Torn \notin Savable /\ None \notin Savable /\ None \notin Hashes

\* The type of the state: the settings in force are within their bounds,
\* whatever was posted or found in the file, and the failures counted for an
\* address stay below the largest limit that can be set.  (They may reach the
\* limit in force when that was lowered after they were counted.)
TypeOK ==
  /\ now \in 0 .. MaxTime
  /\ passwordSalt \in Salts
  /\ passwordHash \in Hashes
  /\ security \in Applied
  /\ file \in Contents
  /\ tmp \in Contents
  /\ sessions \in [SessionIDs -> Nat \cup {None}]
  /\ failedLogins \in [IPs -> [count : 0 .. MaxAttempts - 1, lockUntil : Nat] \cup {None}]
  /\ cleaning \in 0 .. MaxTime \cup {None}
  /\ lock \in [IPs -> Nat]
  /\ eased \subseteq IPs
  /\ cleared \in 0 .. epoch
  /\ born \in [SessionIDs -> Nat \cup {None}]
  /\ raced \subseteq SessionIDs
  /\ promised \in Hashes \cup {None}
  /\ overlap \in BOOLEAN /\ unsaved \in BOOLEAN

\* A lock is served: no login of the address is examined before its end,
\* although cleanup, later failures and other settings rewrite its entry,
\* unless a login that was already being examined succeeds, an administrator
\* unlocks the address, the server starts again, or settings with a shorter
\* lock are posted while it is running.
LocksServed ==
  [][\A r \in Requests :
       /\ req[r].at = "idle"
       /\ req'[r].at = "loginSalt"
       /\ req'[r].ip \notin eased
       => now >= lock[req'[r].ip]]_vars

\* "locked for 15 minutes after 5 failures" (server.go 377): a lock keeps the
\* end it was given, also when settings with a shorter one are posted, which
\* are not about locks that are running.
LocksKeepTheirEnd ==
  [][\A r \in Requests :
       req[r].at = "idle" /\ req'[r].at = "loginSalt" => now >= lock[req'[r].ip]]_vars

\* After a change of the password a session that was opened with an earlier
\* one is alive only if a request was about to write it at the very moment
\* the sessions were cleared.
OldSessionsRaced ==
  \A s \in SessionIDs : sessions[s] # None /\ born[s] < cleared => s \in raced

Quiet == Writers(req) = {}

\* As long as two writers do not overlap, password and settings file stay
\* whole, whatever fails and whenever the process dies: hash and salt belong
\* together in memory and in the file, the file can be read, and a restart
\* finds the password in force, unless the disk has refused it.
PasswordIntact ==
  ~overlap =>
    /\ file # Torn
    /\ Saved => file.hash[2] = file.salt
    /\ Quiet => passwordHash[2] = passwordSalt
    /\ Quiet /\ ~unsaved /\ Saved => file.hash = passwordHash /\ file.salt = passwordSalt
    /\ Quiet /\ ~unsaved /\ ~Saved => passwordHash[1] = ConfigPassword
    /\ Quiet /\ promised # None => Saved

\* "clear all sessions (force a new login)" (security.go 321): no session
\* that an earlier password has opened is left.
SessionsCleared ==
  \A s \in SessionIDs : sessions[s] # None => born[s] >= cleared

\* "a changed password stays in force after a restart" (server.go 193): when
\* all writers are done, the file holds the password whose change was last
\* answered with success, unless a later one was answered with an error.
PasswordSurvivesRestart ==
  Quiet /\ ~unsaved /\ promised # None => Saved /\ file.hash[1] = promised[1]
=============================================================================
