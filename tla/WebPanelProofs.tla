--------------------------- MODULE WebPanelProofs ---------------------------
(***************************************************************************)
(* Proofs about WebPanel for every number of requests, sessions, addresses *)
(* and passwords, every setting and every number of crashes.               *)
(***************************************************************************)
EXTENDS WebPanel, FiniteSetTheorems, TLAPS

\* What a request holds at each of its steps, after so many changes of the
\* password.
ReqOK(v, changes) ==
  /\ v.at \in {"idle", "loginSalt", "loginHash", "success", "failure", "insert", "expired",
               "renew", "handle", "readHash", "readSalt", "open", "write", "rename", "verify",
               "newSalt", "newHash", "readSettings", "clear"}
  /\ v.at \in {"loginSalt", "loginHash", "success", "failure"} => v.ip \in IPs
  /\ v.at \in {"loginSalt", "verify", "newSalt"} => v.pw \in Passwords
  /\ v.at \in {"loginHash", "readSalt", "verify", "newHash", "readSettings", "clear"}
       => v.hash \in Hashes
  /\ v.at \in {"success", "insert", "expired", "renew", "handle"} => v.sid \in SessionIDs
  /\ v.at \in {"readHash", "readSalt"} => v.sec \in Applied
  /\ v.at \in {"open", "write", "rename"} => v.data \in Savable /\ v.change \in 0 .. changes
  /\ v.at = "write" => v.fd \in {"tmp", "file", "gone"}
  /\ v.at \in {"readSettings", "clear"} => v.epoch \in 1 .. changes

TypeInv ==
  /\ TypeOK
  /\ DOMAIN req = Requests
  /\ \A r \in Requests : ReqOK(req[r], epoch)
  /\ epoch \in Nat
  /\ crashes \in 0 .. MaxCrashes
  /\ salts \in 1 .. MaxSalts + crashes

\* A lock that is not over is the one recorded in failedLogins, and a failure
\* under the settings in force would not end before it, unless settings with
\* a shorter lock have come meanwhile.
LockInv ==
  /\ \A i \in IPs \ eased :
       now < lock[i] => /\ failedLogins[i] # None
                        /\ failedLogins[i].lockUntil = lock[i]
                        /\ lock[i] <= now + security.lock
  /\ cleaning # None => cleaning <= now

\* Whoever will write a session of an earlier password without a look at the
\* map was about to do so when the sessions were cleared.
SessionInv ==
  /\ OldSessionsRaced
  /\ \A s \in SessionIDs : sessions[s] # None => born[s] # None
  /\ \A r \in Requests :
       /\ req[r].at \in {"renew", "success", "insert"} => born[req[r].sid] # None
       /\ req[r].at \in {"renew", "success", "insert"} /\ born[req[r].sid] < cleared
            => req[r].sid \in raced

\* A change of the password is in memory and not yet in the file.
Ahead(r) ==
  \/ req[r].at = "readSettings"
  \/ req[r].at \in {"open", "write", "rename"} /\ req[r].change # 0

WriterSteps ==
  {"newHash", "readSettings", "readHash", "readSalt", "open", "write", "rename", "clear"}
IsWriter(r) == req[r].at \in WriterSteps

\* What the one writer has done so far.
WriterInv(r) ==
  /\ req[r].at = "newHash" => req[r].hash[2] = passwordSalt
  /\ req[r].at \in {"readSettings", "readSalt"} => req[r].hash = passwordHash
  /\ req[r].at \in {"open", "write", "rename"}
       => req[r].data.hash = passwordHash /\ req[r].data.salt = passwordSalt
  /\ req[r].at = "write" => req[r].fd = "tmp" /\ tmp = Torn
  /\ req[r].at = "rename" => tmp = req[r].data
  /\ req[r].at = "clear" => Saved

\* What holds of the file at every step of an undisturbed writer.
FileInv ==
  /\ file # Torn
  /\ Saved => file.hash[2] = file.salt
  /\ promised # None => Saved
  /\ (\A r \in Requests : req[r].at # "newHash") => passwordHash[2] = passwordSalt
  /\ (\A r \in Requests : ~Ahead(r)) /\ ~unsaved
       => IF Saved THEN file.hash = passwordHash ELSE passwordHash[1] = ConfigPassword

SaveInv ==
  ~overlap => /\ \A q, r \in Requests : IsWriter(q) /\ IsWriter(r) => q = r
              /\ \A r \in Requests : WriterInv(r)
              /\ FileInv

IInv == TypeInv /\ LockInv /\ SessionInv /\ SaveInv

-----------------------------------------------------------------------------
(* A request that goes on.                                                 *)

LEMMA ReqOKLater ==
  ASSUME NEW v, NEW m \in Nat, NEW n \in Nat, m <= n, ReqOK(v, m)
  PROVE  ReqOK(v, n)
BY DEF ReqOK

LEMMA GoesFacts ==
  ASSUME TypeInv, NEW r \in Requests, NEW from, NEW to, Goes(r, from, to)
  PROVE  /\ req[r].at = from
         /\ DOMAIN req' = Requests
         /\ req'[r] = to
         /\ \A q \in Requests : q # r => req'[q] = req[q]
         /\ overlap' \in BOOLEAN
         /\ overlap => overlap'
         /\ ~overlap' => ~(Cardinality(Writers(req')) > 1)
BY DEF Goes, TypeInv, TypeOK

LEMMA GoesType ==
  ASSUME TypeInv, NEW r \in Requests, NEW from, NEW to, Goes(r, from, to),
         epoch' \in Nat, epoch <= epoch', ReqOK(to, epoch')
  PROVE  /\ DOMAIN req' = Requests
         /\ \A q \in Requests : ReqOK(req'[q], epoch')
         /\ overlap' \in BOOLEAN
<1>1. \A q \in Requests : ReqOK(req[q], epoch')
  BY ReqOKLater DEF TypeInv
<1> QED BY <1>1, GoesFacts

\* A step on requests alone keeps the types of all the rest.
LEMMA RestType ==
  ASSUME TypeInv, DOMAIN req' = Requests, \A q \in Requests : ReqOK(req'[q], epoch'),
         overlap' \in BOOLEAN,
         UNCHANGED <<now, password, security, disk, logins, session, cleaning, crashes, unsaved>>
  PROVE  TypeInv'
BY DEF TypeInv, TypeOK, password, disk, logins, session

LEMMA HashType ==
  ASSUME NEW p \in Passwords, NEW s \in Salts
  PROVE  hashPasswordWithSalt(p, s) \in Hashes /\ hashPasswordWithSalt(p, s)[2] = s
BY DEF hashPasswordWithSalt, Hashes

LEMMA SavingType ==
  ASSUME NEW n \in Nat, NEW change \in 0 .. n, NEW sec \in Applied, NEW hash \in Hashes,
         NEW salt \in Salts
  PROVE  ReqOK(Saving(change, sec, hash, salt), n)
BY DEF ReqOK, Saving, Savable

LEMMA ClampedType ==
  ASSUME NEW sec \in Settings
  PROVE  Clamped(sec) \in Applied
<1>1. sec.timeout \in Nat /\ sec.max \in Nat /\ sec.lock \in Nat
  BY SettingsAssumption DEF SettingsType
<1>2. /\ Clamp(sec.timeout, MaxMinutes) \in 1 .. MaxMinutes
      /\ Clamp(sec.max, MaxAttempts) \in 1 .. MaxAttempts
      /\ Clamp(sec.lock, MaxMinutes) \in 1 .. MaxMinutes
  BY <1>1, SettingsAssumption DEF Clamp
<1> QED BY <1>2 DEF Clamped, Applied

\* The steps that read, and change nothing but their request.
LEMMA ReadsType ==
  ASSUME TypeInv, NEW r \in Requests,
         \/ \E i \in IPs, p \in Passwords : LoginArrives(r, i, p)
         \/ LoginReadsSalt(r)
         \/ \E s \in SessionIDs : RequestArrives(r, s)
         \/ HandleOther(r)
         \/ SecurityReadsHash(r) \/ SecurityReadsSalt(r)
         \/ \E p \in Passwords : handleChangePassword(r, p) \/ ChangeCompares(r, p)
         \/ ChangeReadsSettings(r)
  PROVE  TypeInv'
<1>0. /\ ReqOK(req[r], epoch) /\ epoch \in Nat
      /\ passwordSalt \in Salts /\ passwordHash \in Hashes /\ security \in Applied
  BY DEF TypeInv, TypeOK
<1>1. UNCHANGED <<now, password, security, disk, logins, session, cleaning, crashes, unsaved>>
  BY DEF LoginArrives, LoginReadsSalt, RequestArrives, HandleOther, SecurityReadsHash,
     SecurityReadsSalt, handleChangePassword, ChangeCompares, ChangeReadsSettings
<1>2. epoch' = epoch
  BY <1>1 DEF password
<1>3. ASSUME NEW from, NEW to, Goes(r, from, to), ReqOK(to, epoch) PROVE TypeInv'
  BY <1>0, <1>1, <1>2, <1>3, GoesType, RestType
<1>4. ReqOK(Idle, epoch)
  BY DEF Idle, ReqOK
<1>5. ASSUME NEW i \in IPs, NEW p \in Passwords, LoginArrives(r, i, p) PROVE TypeInv'
  <2>1. ReqOK([at |-> "loginSalt", ip |-> i, pw |-> p], epoch)
    BY DEF ReqOK
  <2> QED BY <1>3, <1>5, <2>1 DEF LoginArrives
<1>6. CASE LoginReadsSalt(r)
  <2> DEFINE to == [at |-> "loginHash", ip |-> req[r].ip,
                    hash |-> hashPasswordWithSalt(req[r].pw, passwordSalt)]
  <2>1. Goes(r, "loginSalt", to) /\ req[r].at = "loginSalt"
    BY <1>6, GoesFacts DEF LoginReadsSalt
  <2>2. req[r].ip \in IPs /\ hashPasswordWithSalt(req[r].pw, passwordSalt) \in Hashes
    BY <1>0, <2>1, HashType DEF ReqOK
  <2>3. ReqOK(to, epoch)
    BY <2>2 DEF ReqOK
  <2> QED BY <1>3, <2>1, <2>3
<1>7. ASSUME NEW s \in SessionIDs, RequestArrives(r, s) PROVE TypeInv'
  <2> DEFINE to == [at |-> IF Expired(s, now) THEN "expired" ELSE "renew", sid |-> s]
  <2>1. ReqOK(to, epoch)
    BY DEF ReqOK
  <2> QED BY <1>3, <1>7, <2>1 DEF RequestArrives
<1>8. CASE HandleOther(r)
  BY <1>3, <1>4, <1>8 DEF HandleOther
<1>9. CASE SecurityReadsHash(r)
  <2> DEFINE to == [at |-> "readSalt", sec |-> req[r].sec, hash |-> passwordHash]
  <2>1. Goes(r, "readHash", to) /\ req[r].at = "readHash"
    BY <1>9, GoesFacts DEF SecurityReadsHash
  <2>2. req[r].sec \in Applied
    BY <1>0, <2>1 DEF ReqOK
  <2>3. ReqOK(to, epoch)
    BY <1>0, <2>2 DEF ReqOK
  <2> QED BY <1>3, <2>1, <2>3
<1>10. CASE SecurityReadsSalt(r)
  <2> DEFINE to == Saving(0, req[r].sec, req[r].hash, passwordSalt)
  <2>1. Goes(r, "readSalt", to) /\ req[r].at = "readSalt"
    BY <1>10, GoesFacts DEF SecurityReadsSalt
  <2>2. req[r].sec \in Applied /\ req[r].hash \in Hashes /\ 0 \in 0 .. epoch
    BY <1>0, <2>1 DEF ReqOK
  <2>3. ReqOK(to, epoch)
    BY <1>0, <2>2, SavingType
  <2> QED BY <1>3, <2>1, <2>3
<1>11. ASSUME NEW p \in Passwords, handleChangePassword(r, p) PROVE TypeInv'
  <2> DEFINE to == [at |-> "verify", pw |-> p, hash |-> hashPasswordWithSalt(p, passwordSalt)]
  <2>1. hashPasswordWithSalt(p, passwordSalt) \in Hashes
    BY <1>0, HashType
  <2>2. ReqOK(to, epoch)
    BY <2>1 DEF ReqOK
  <2> QED BY <1>3, <1>11, <2>2 DEF handleChangePassword
<1>12. ASSUME NEW p \in Passwords, ChangeCompares(r, p) PROVE TypeInv'
  <2>1. ReqOK([at |-> "newSalt", pw |-> p], epoch)
    BY DEF ReqOK
  <2> QED BY <1>3, <1>4, <1>12, <2>1 DEF ChangeCompares
<1>13. CASE ChangeReadsSettings(r)
  <2> DEFINE to == Saving(req[r].epoch, security, req[r].hash, req[r].hash[2])
  <2>1. Goes(r, "readSettings", to) /\ req[r].at = "readSettings"
    BY <1>13, GoesFacts DEF ChangeReadsSettings
  <2>2. req[r].hash \in Hashes /\ req[r].epoch \in 1 .. epoch
    BY <1>0, <2>1 DEF ReqOK
  <2>3. req[r].hash[2] \in Salts
    BY <2>2 DEF Hashes
  <2>4. ReqOK(to, epoch)
    BY <1>0, <2>2, <2>3, SavingType
  <2> QED BY <1>3, <2>1, <2>4
<1> QED BY <1>5, <1>6, <1>7, <1>8, <1>9, <1>10, <1>11, <1>12, <1>13

\* The steps of a login that write.
LEMMA LoginsType ==
  ASSUME TypeInv, NEW r \in Requests,
         \/ LoginCompares(r) \/ recordFailedLogin(r) \/ recordSuccessfulLogin(r)
         \/ \E i \in IPs : handleSecurityUnlock(r, i)
  PROVE  TypeInv'
<1>0. TypeOK /\ ReqOK(req[r], epoch) /\ epoch \in Nat /\ ReqOK(Idle, epoch)
  BY DEF TypeInv, Idle, ReqOK
<1>1. CASE LoginCompares(r)
  <2>0. epoch' = epoch /\ req[r].at = "loginHash"
    BY <1>1 DEF LoginCompares, password
  <2>1. req[r].ip \in IPs
    BY <1>0, <2>0 DEF ReqOK
  <2>2. CASE req[r].hash = passwordHash
    <3>1. PICK s \in SessionIDs : /\ born' = [born EXCEPT ![s] = epoch]
                                  /\ Goes(r, "loginHash", [at |-> "success", ip |-> req[r].ip, sid |-> s])
      BY <1>1, <2>2 DEF LoginCompares
    <3>2. ReqOK([at |-> "success", ip |-> req[r].ip, sid |-> s], epoch)
      BY <2>1 DEF ReqOK
    <3>3. /\ DOMAIN req' = Requests /\ overlap' \in BOOLEAN
          /\ \A q \in Requests : ReqOK(req'[q], epoch')
      BY <1>0, <2>0, <3>1, <3>2, GoesType
    <3>4. born' \in [SessionIDs -> Nat \cup {None}]
      BY <1>0, <3>1 DEF TypeOK
    <3> QED BY <1>1, <3>3, <3>4 DEF LoginCompares, TypeInv, TypeOK, password, disk, logins
  <2>3. CASE req[r].hash # passwordHash
    <3>1. Goes(r, "loginHash", [at |-> "failure", ip |-> req[r].ip]) /\ UNCHANGED born
      BY <1>1, <2>3 DEF LoginCompares
    <3>2. ReqOK([at |-> "failure", ip |-> req[r].ip], epoch)
      BY <2>1 DEF ReqOK
    <3>3. /\ DOMAIN req' = Requests /\ overlap' \in BOOLEAN
          /\ \A q \in Requests : ReqOK(req'[q], epoch')
      BY <1>0, <2>0, <3>1, <3>2, GoesType
    <3> QED BY <1>1, <3>1, <3>3 DEF LoginCompares, TypeInv, TypeOK, password, disk, logins
  <2> QED BY <2>2, <2>3
<1>2. ASSUME NEW i \in IPs, Forgive(i) PROVE
        /\ failedLogins' \in [IPs -> [count : 0 .. MaxAttempts - 1, lockUntil : Nat] \cup {None}]
        /\ lock' \in [IPs -> Nat] /\ eased' \subseteq IPs
  BY <1>0, <1>2 DEF Forgive, TypeOK
<1>3. CASE recordSuccessfulLogin(r)
  <2>1. /\ Goes(r, "success", [at |-> "insert", sid |-> req[r].sid]) /\ epoch' = epoch
        /\ req[r].at = "success"
    BY <1>3, GoesFacts DEF recordSuccessfulLogin, password
  <2>2. req[r].ip \in IPs /\ req[r].sid \in SessionIDs
    BY <1>0, <2>1 DEF ReqOK
  <2>3. ReqOK([at |-> "insert", sid |-> req[r].sid], epoch)
    BY <2>2 DEF ReqOK
  <2>4. /\ DOMAIN req' = Requests /\ overlap' \in BOOLEAN
        /\ \A q \in Requests : ReqOK(req'[q], epoch')
    BY <1>0, <2>1, <2>3, GoesType
  <2> QED BY <1>2, <1>3, <2>2, <2>4
          DEF recordSuccessfulLogin, TypeInv, TypeOK, password, disk, session
<1>4. ASSUME NEW i \in IPs, handleSecurityUnlock(r, i) PROVE TypeInv'
  <2>1. Goes(r, "handle", Idle) /\ epoch' = epoch /\ Forgive(i)
    BY <1>4 DEF handleSecurityUnlock, password
  <2>2. /\ DOMAIN req' = Requests /\ overlap' \in BOOLEAN
        /\ \A q \in Requests : ReqOK(req'[q], epoch')
    BY <1>0, <2>1, GoesType
  <2> QED BY <1>2, <1>4, <2>1, <2>2
          DEF handleSecurityUnlock, TypeInv, TypeOK, password, disk, session
<1>5. CASE recordFailedLogin(r)
  <2>1. Goes(r, "failure", Idle) /\ epoch' = epoch /\ req[r].at = "failure"
    BY <1>5, GoesFacts DEF recordFailedLogin, password
  <2>2. /\ DOMAIN req' = Requests /\ overlap' \in BOOLEAN
        /\ \A q \in Requests : ReqOK(req'[q], epoch')
    BY <1>0, <2>1, GoesType
  <2>3. PICK i \in IPs : i = req[r].ip
    BY <1>0, <2>1 DEF ReqOK
  <2> DEFINE old == IF failedLogins[i] = None THEN [count |-> 0, lockUntil |-> 0]
                    ELSE failedLogins[i]
  <2>4. PICK o \in [count : 0 .. MaxAttempts - 1, lockUntil : Nat] : o = old
    <3>1. [count |-> 0, lockUntil |-> 0] \in [count : 0 .. MaxAttempts - 1, lockUntil : Nat]
      BY SettingsAssumption
    <3>2. failedLogins[i] # None
            => failedLogins[i] \in [count : 0 .. MaxAttempts - 1, lockUntil : Nat]
      BY <1>0 DEF TypeOK
    <3> QED BY <3>1, <3>2
  <2>5. security.max \in 1 .. MaxAttempts /\ security.lock \in Nat /\ now \in Nat
    BY <1>0, SettingsAssumption DEF TypeOK, Applied
  <2>6. \/ /\ failedLogins' = [failedLogins EXCEPT ![i] = [count |-> 0, lockUntil |-> now + security.lock]]
           /\ lock' \in {lock, [lock EXCEPT ![i] = now + security.lock]}
           /\ eased' \subseteq eased
        \/ /\ ~(o.count + 1 >= security.max)
           /\ failedLogins' = [failedLogins EXCEPT ![i] = [o EXCEPT !.count = @ + 1]]
           /\ UNCHANGED <<lock, eased>>
    <3>1. lock \in [IPs -> Nat] /\ lock = [lock EXCEPT ![i] = lock[i]]
      BY <1>0 DEF TypeOK
    <3> QED BY <1>5, <2>3, <2>4, <3>1 DEF recordFailedLogin
  <2>7. ~(o.count + 1 >= security.max)
          => [o EXCEPT !.count = @ + 1] \in [count : 0 .. MaxAttempts - 1, lockUntil : Nat]
    BY <2>5, SettingsAssumption
  <2>8. [count |-> 0, lockUntil |-> now + security.lock]
          \in [count : 0 .. MaxAttempts - 1, lockUntil : Nat]
    BY <2>5, SettingsAssumption
  <2>9. /\ failedLogins' \in [IPs -> [count : 0 .. MaxAttempts - 1, lockUntil : Nat] \cup {None}]
        /\ lock' \in [IPs -> Nat] /\ eased' \subseteq IPs
    BY <1>0, <2>5, <2>6, <2>7, <2>8 DEF TypeOK
  <2> QED BY <1>5, <2>2, <2>9 DEF recordFailedLogin, TypeInv, TypeOK, password, disk, session
<1> QED BY <1>1, <1>3, <1>4, <1>5

\* The steps that write or delete one session.
LEMMA SessionsType ==
  ASSUME TypeInv, NEW r \in Requests,
         InsertSession(r) \/ DropExpired(r) \/ Renew(r) \/ handleLogout(r)
  PROVE  TypeInv'
<1>0. TypeOK /\ ReqOK(req[r], epoch) /\ epoch \in Nat /\ ReqOK(Idle, epoch)
  BY DEF TypeInv, Idle, ReqOK
<1>1. epoch' = epoch
  BY DEF InsertSession, DropExpired, Renew, handleLogout, password
<1>2. PICK from \in {"insert", "expired", "renew", "handle"}, to \in {Idle, [at |-> "handle", sid |-> req[r].sid]} :
        Goes(r, from, to)
  BY DEF InsertSession, DropExpired, Renew, handleLogout
<1>3. req[r].sid \in SessionIDs
  BY <1>0, <1>2, GoesFacts DEF ReqOK
<1>4. ReqOK([at |-> "handle", sid |-> req[r].sid], epoch)
  BY <1>3 DEF ReqOK
<1>5. /\ DOMAIN req' = Requests /\ overlap' \in BOOLEAN
      /\ \A q \in Requests : ReqOK(req'[q], epoch')
  BY <1>0, <1>1, <1>2, <1>4, GoesType
<1>6. sessions' \in [SessionIDs -> Nat \cup {None}]
  <2>1. now + security.timeout \in Nat /\ now + Renewal \in Nat
    BY <1>0, SettingsAssumption, TimeAssumption DEF TypeOK, Applied
  <2>2. PICK x \in Nat \cup {None} : sessions' = [sessions EXCEPT ![req[r].sid] = x]
    BY <2>1 DEF InsertSession, DropExpired, Renew, handleLogout
  <2> QED BY <1>0, <2>2 DEF TypeOK
<1> QED BY <1>5, <1>6 DEF InsertSession, DropExpired, Renew, handleLogout, TypeInv, TypeOK,
           password, disk, logins

\* A change of the settings or of the password, up to the file.
LEMMA ChangesType ==
  ASSUME TypeInv, NEW r \in Requests,
         (\E sec \in Settings : handleSecurity(r, sec)) \/ WriteSalt(r) \/ WriteHash(r)
  PROVE  TypeInv'
<1>0. TypeOK /\ ReqOK(req[r], epoch) /\ epoch \in Nat
  BY DEF TypeInv
<1>1. ASSUME NEW sec \in Settings, handleSecurity(r, sec) PROVE TypeInv'
  <2>1. Clamped(sec) \in Applied
    BY ClampedType
  <2>2. ReqOK([at |-> "readHash", sec |-> Clamped(sec)], epoch)
    BY <2>1 DEF ReqOK
  <2>3. epoch' = epoch
    BY <1>1 DEF handleSecurity, password
  <2>4. /\ DOMAIN req' = Requests /\ overlap' \in BOOLEAN
        /\ \A q \in Requests : ReqOK(req'[q], epoch')
    BY <1>0, <1>1, <2>2, <2>3, GoesType DEF handleSecurity
  <2> QED BY <1>1, <2>1, <2>4 DEF handleSecurity, TypeInv, TypeOK, password, disk, logins, session
<1>2. CASE WriteSalt(r)
  <2>1. /\ salts' = salts + 1 /\ passwordSalt' = salts + 1 /\ epoch' = epoch /\ salts < MaxSalts
        /\ Goes(r, "newSalt", [at |-> "newHash", hash |-> hashPasswordWithSalt(req[r].pw, salts + 1)])
        /\ req[r].at = "newSalt" /\ UNCHANGED crashes
    BY <1>2, GoesFacts DEF WriteSalt
  <2>2. salts' \in Salts /\ salts' \in 1 .. MaxSalts + crashes'
    BY <2>1, BoundAssumption DEF TypeInv, Salts
  <2>3. hashPasswordWithSalt(req[r].pw, salts + 1) \in Hashes
    BY <1>0, <2>1, <2>2, HashType DEF ReqOK
  <2>4. ReqOK([at |-> "newHash", hash |-> hashPasswordWithSalt(req[r].pw, salts + 1)], epoch)
    BY <2>3 DEF ReqOK
  <2>5. /\ DOMAIN req' = Requests /\ overlap' \in BOOLEAN
        /\ \A q \in Requests : ReqOK(req'[q], epoch')
    BY <1>0, <2>1, <2>4, GoesType
  <2> QED BY <1>2, <2>1, <2>2, <2>5 DEF WriteSalt, TypeInv, TypeOK, disk, logins, session
<1>3. CASE WriteHash(r)
  <2>1. /\ epoch' = epoch + 1 /\ passwordHash' = req[r].hash /\ req[r].at = "newHash"
        /\ Goes(r, "newHash", [at |-> "readSettings", hash |-> req[r].hash, epoch |-> epoch + 1])
    BY <1>3, GoesFacts DEF WriteHash
  <2>2. req[r].hash \in Hashes
    BY <1>0, <2>1 DEF ReqOK
  <2>3. ReqOK([at |-> "readSettings", hash |-> req[r].hash, epoch |-> epoch + 1], epoch + 1)
    BY <1>0, <2>2 DEF ReqOK
  <2>4. /\ DOMAIN req' = Requests /\ overlap' \in BOOLEAN
        /\ \A q \in Requests : ReqOK(req'[q], epoch')
    BY <1>0, <2>1, <2>3, GoesType
  <2>5. cleared' \in 0 .. epoch'
    BY <1>0, <1>3, <2>1 DEF WriteHash, TypeOK, session
  <2> QED BY <1>0, <1>3, <2>1, <2>2, <2>4, <2>5 DEF WriteHash, TypeInv, TypeOK, disk, logins, session
<1> QED BY <1>1, <1>2, <1>3

\* saveSettings, and the sessions after it.
LEMMA SavesType ==
  ASSUME TypeInv, NEW r \in Requests,
         OpenTmp(r) \/ WriteTmp(r) \/ SaveFails(r) \/ RenameFails(r) \/ ClearSessions(r)
  PROVE  TypeInv'
<1>0. TypeOK /\ ReqOK(req[r], epoch) /\ epoch \in Nat /\ ReqOK(Idle, epoch)
  BY DEF TypeInv, Idle, ReqOK
<1>1. CASE OpenTmp(r)
  <2> DEFINE to == [at |-> "write", change |-> req[r].change, data |-> req[r].data, fd |-> "tmp"]
  <2>1. Goes(r, "open", to) /\ req[r].at = "open" /\ epoch' = epoch
    BY <1>1, GoesFacts DEF OpenTmp, password
  <2>2. ReqOK(to, epoch)
    BY <1>0, <2>1 DEF ReqOK
  <2>3. /\ DOMAIN req' = Requests /\ overlap' \in BOOLEAN
        /\ \A q \in Requests : ReqOK(req'[q], epoch')
    BY <1>0, <2>1, <2>2, GoesType
  <2> QED BY <1>1, <2>3 DEF OpenTmp, TypeInv, TypeOK, Contents, password, logins, session
<1>2. CASE WriteTmp(r)
  <2> DEFINE to == [at |-> "rename", change |-> req[r].change, data |-> req[r].data]
  <2>1. Goes(r, "write", to) /\ req[r].at = "write" /\ epoch' = epoch
    BY <1>2, GoesFacts DEF WriteTmp, password
  <2>2. ReqOK(to, epoch) /\ req[r].data \in Savable
    BY <1>0, <2>1 DEF ReqOK
  <2>3. /\ DOMAIN req' = Requests /\ overlap' \in BOOLEAN
        /\ \A q \in Requests : ReqOK(req'[q], epoch')
    BY <1>0, <2>1, <2>2, GoesType
  <2>4. tmp' \in Contents /\ file' \in Contents
    BY <1>0, <1>2, <2>2 DEF WriteTmp, Written, Contents, TypeOK
  <2> QED BY <1>2, <2>3, <2>4 DEF WriteTmp, TypeInv, TypeOK, password, logins, session
<1>3. CASE SaveFails(r) \/ RenameFails(r)
  <2>1. (Goes(r, "write", Idle) \/ Goes(r, "rename", Idle)) /\ epoch' = epoch
    BY <1>3 DEF SaveFails, RenameFails, password
  <2>2. /\ DOMAIN req' = Requests /\ overlap' \in BOOLEAN
        /\ \A q \in Requests : ReqOK(req'[q], epoch')
    BY <1>0, <2>1, GoesType
  <2>3. unsaved' \in BOOLEAN
    BY <1>3 DEF SaveFails, RenameFails
  <2> QED BY <1>3, <2>2, <2>3
          DEF SaveFails, RenameFails, TypeInv, TypeOK, password, disk, logins, session
<1>4. CASE ClearSessions(r)
  <2>1. Goes(r, "clear", Idle) /\ epoch' = epoch /\ req[r].at = "clear"
    BY <1>4, GoesFacts DEF ClearSessions, password
  <2>2. /\ DOMAIN req' = Requests /\ overlap' \in BOOLEAN
        /\ \A q \in Requests : ReqOK(req'[q], epoch')
    BY <1>0, <2>1, GoesType
  <2>3. req[r].hash \in Hashes /\ req[r].epoch \in 1 .. epoch
    BY <1>0, <2>1 DEF ReqOK
  <2>4. sessions' \in [SessionIDs -> Nat \cup {None}]
    BY <1>4 DEF ClearSessions, Emptied
  <2>5. cleared' \in 0 .. epoch' /\ promised' \in Hashes
    BY <1>0, <1>4, <2>1, <2>3 DEF ClearSessions, TypeOK
  <2>6. raced' \subseteq SessionIDs
    <3>1. \A q \in AboutToWrite : req[q].sid \in SessionIDs
      BY DEF AboutToWrite, TypeInv, ReqOK
    <3> QED BY <1>0, <1>4, <3>1 DEF ClearSessions, TypeOK
  <2> QED BY <1>4, <2>2, <2>4, <2>5, <2>6
          DEF ClearSessions, TypeInv, TypeOK, password, disk, logins
<1> QED BY <1>1, <1>2, <1>3, <1>4

\* What Rename does to the requests.
LEMMA RenameFacts ==
  ASSUME TypeInv, NEW r \in Requests, Rename(r)
  PROVE  /\ req[r].at = "rename" /\ tmp # None /\ file' = tmp /\ tmp' = None
         /\ DOMAIN req' = Requests /\ req'[r] = Renamed(r)
         /\ \A q \in Requests \ {r} : req[q].at # "write" => req'[q] = req[q]
         /\ \A q \in Requests \ {r} : req[q].at = "write"
              => \E d \in {"file", "gone"} : req'[q] = [req[q] EXCEPT !.fd = d]
         /\ overlap' = overlap
         /\ unsaved' = (unsaved /\ req[r].data.hash # passwordHash)
BY DEF Rename

LEMMA RenameType ==
  ASSUME TypeInv, NEW r \in Requests, Rename(r)
  PROVE  TypeInv'
<1>0. TypeOK /\ epoch \in Nat /\ epoch' = epoch
  BY DEF TypeInv, Rename, password
<1>1. ReqOK(req'[r], epoch)
  <2>1. ReqOK(req[r], epoch) /\ req[r].at = "rename"
    BY RenameFacts DEF TypeInv
  <2>2. req[r].data.hash \in Hashes /\ req[r].change \in 0 .. epoch
    BY <2>1 DEF ReqOK, Savable
  <2>3. ReqOK(Renamed(r), epoch)
    BY <2>2 DEF ReqOK, Renamed, Idle
  <2> QED BY <2>3, RenameFacts
<1>2. ASSUME NEW q \in Requests \ {r} PROVE ReqOK(req'[q], epoch)
  <2>1. ReqOK(req[q], epoch)
    BY DEF TypeInv
  <2>2. CASE req[q].at # "write"
    BY <2>1, <2>2, RenameFacts
  <2>3. CASE req[q].at = "write"
    <3>1. PICK d \in {"file", "gone"} : req'[q] = [req[q] EXCEPT !.fd = d]
      BY <2>3, RenameFacts
    <3>2. PICK v : v = req[q]
      OBVIOUS
    <3>3. ReqOK([v EXCEPT !.fd = d], epoch)
      BY <2>1, <2>3, <3>2 DEF ReqOK
    <3> QED BY <3>1, <3>2, <3>3
  <2> QED BY <2>2, <2>3
<1>3. file' \in Contents /\ tmp' \in Contents /\ unsaved' \in BOOLEAN
  BY <1>0, RenameFacts DEF TypeOK, Contents
<1>4. overlap' \in BOOLEAN /\ DOMAIN req' = Requests
  BY <1>0, RenameFacts DEF TypeOK
<1> QED BY <1>0, <1>1, <1>2, <1>3, <1>4 DEF Rename, TypeInv, TypeOK, password, logins, session

\* The cleanup, the clock and a restart.
LEMMA ProcessType ==
  ASSUME TypeInv, CleanSessions \/ CleanLogins \/ Tick \/ Restart
  PROVE  TypeInv'
<1>0. TypeOK
  BY DEF TypeInv
<1>1. CASE CleanSessions
  <2>1. sessions' \in [SessionIDs -> Nat \cup {None}]
    BY <1>0, <1>1 DEF CleanSessions, TypeOK
  <2> QED BY <1>1, <2>1 DEF CleanSessions, TypeInv, TypeOK, password, disk, logins
<1>2. CASE CleanLogins
  <2>1. failedLogins' \in [IPs -> [count : 0 .. MaxAttempts - 1, lockUntil : Nat] \cup {None}]
    BY <1>0, <1>2 DEF CleanLogins, TypeOK
  <2> QED BY <1>2, <2>1 DEF CleanLogins, TypeInv, TypeOK, password, disk, session
<1>3. CASE Tick
  <2>1. now' \in 0 .. MaxTime
    BY <1>0, <1>3, TimeAssumption DEF Tick, TypeOK
  <2> QED BY <1>3, <2>1 DEF Tick, TypeInv, TypeOK, password, disk, logins, session
<1>4. CASE Restart
  <2>1. crashes' \in 0 .. MaxCrashes /\ crashes' = crashes + 1
    BY <1>4, BoundAssumption DEF Restart, TypeInv
  <2>2. salts' \in 1 .. MaxSalts + crashes'
    BY <1>4, <2>1, BoundAssumption DEF Restart, TypeInv
  <2>3. salts' \in Salts
    BY <2>1, <2>2, BoundAssumption DEF Salts
  <2>4. security' \in Applied /\ passwordSalt' \in Salts /\ passwordHash' \in Hashes
    <3>1. CASE Saved
      <4>1. file \in Savable
        BY <1>0, <3>1 DEF TypeOK, Contents, Saved
      <4> QED BY <1>4, <3>1, <4>1 DEF Restart, Savable
    <3>2. CASE ~Saved
      BY <1>4, <2>3, <3>2, HashType, PasswordAssumption, SettingsAssumption DEF Restart, Applied
    <3> QED BY <3>1, <3>2
  <2>5. /\ sessions' \in [SessionIDs -> Nat \cup {None}]
        /\ failedLogins' \in [IPs -> [count : 0 .. MaxAttempts - 1, lockUntil : Nat] \cup {None}]
        /\ lock' \in [IPs -> Nat] /\ eased' \subseteq IPs
    BY <1>4 DEF Restart
  <2>6. DOMAIN req' = Requests /\ \A q \in Requests : ReqOK(req'[q], epoch')
    BY <1>4 DEF Restart, Idle, ReqOK
  <2> QED BY <1>4, <2>1, <2>2, <2>4, <2>5, <2>6 DEF Restart, TypeInv, TypeOK, disk
<1> QED BY <1>1, <1>2, <1>3, <1>4

LEMMA InitType ==
  Init => TypeInv
<1> SUFFICES ASSUME Init PROVE TypeInv
  OBVIOUS
<1>1. 1 \in Salts /\ salts \in 1 .. MaxSalts + crashes /\ crashes \in 0 .. MaxCrashes
  BY BoundAssumption DEF Init, Salts
<1>2. passwordHash \in Hashes
  BY <1>1, HashType, PasswordAssumption DEF Init
<1>3. security \in Applied /\ now \in 0 .. MaxTime
  BY SettingsAssumption, TimeAssumption DEF Init, Applied
<1>4. DOMAIN req = Requests /\ \A q \in Requests : ReqOK(req[q], epoch)
  BY DEF Init, Idle, ReqOK
<1>5. /\ sessions \in [SessionIDs -> Nat \cup {None}] /\ born \in [SessionIDs -> Nat \cup {None}]
      /\ failedLogins \in [IPs -> [count : 0 .. MaxAttempts - 1, lockUntil : Nat] \cup {None}]
      /\ lock \in [IPs -> Nat] /\ eased \subseteq IPs
  BY DEF Init
<1>6. /\ file \in Contents /\ tmp \in Contents /\ passwordSalt \in Salts
      /\ cleaning \in 0 .. MaxTime \cup {None}
      /\ raced \subseteq SessionIDs /\ promised \in Hashes \cup {None}
  BY <1>1 DEF Init, Contents
<1>7. epoch \in Nat /\ cleared \in 0 .. epoch
  BY DEF Init
<1>8. overlap \in BOOLEAN /\ unsaved \in BOOLEAN
  BY DEF Init
<1> QED BY <1>1, <1>2, <1>3, <1>4, <1>5, <1>6, <1>7, <1>8 DEF TypeInv, TypeOK

LEMMA NextType ==
  ASSUME TypeInv, [Next]_vars
  PROVE  TypeInv'
<1>1. CASE UNCHANGED vars
  BY <1>1 DEF vars, TypeInv, TypeOK, password, disk, logins, session
<1>2. CASE Next
  BY <1>2, ReadsType, LoginsType, SessionsType, ChangesType, SavesType, RenameType, ProcessType
     DEF Next, LoginStep, RequestStep
<1> QED BY <1>1, <1>2

-----------------------------------------------------------------------------
(* Locks.                                                                  *)

LEMMA NextLock ==
  ASSUME TypeInv, LockInv, [Next]_vars
  PROVE  LockInv'
<1>0. /\ TypeOK /\ now \in Nat /\ lock \in [IPs -> Nat] /\ DOMAIN failedLogins = IPs
      /\ security.lock \in Nat
  BY SettingsAssumption DEF TypeInv, TypeOK, Applied
<1>1. ASSUME UNCHANGED <<now, logins, cleaning, security>> PROVE LockInv'
  BY <1>1 DEF LockInv, logins
<1>2. ASSUME NEW i \in IPs, Forgive(i), UNCHANGED <<now, cleaning, security>> PROVE LockInv'
  <2>1. lock'[i] = 0 /\ \A j \in IPs \ {i} : /\ lock'[j] = lock[j] /\ failedLogins'[j] = failedLogins[j]
                                             /\ j \in eased' <=> j \in eased
    BY <1>0, <1>2 DEF Forgive
  <2> QED BY <1>0, <1>2, <2>1 DEF LockInv
<1>3. ASSUME NEW r \in Requests, recordFailedLogin(r) PROVE LockInv'
  <2>1. PICK i \in IPs : i = req[r].ip
    <3>1. req[r].at = "failure" /\ ReqOK(req[r], epoch)
      BY <1>3, GoesFacts DEF recordFailedLogin, TypeInv
    <3> QED BY <3>1 DEF ReqOK
  <2> DEFINE old == IF failedLogins[i] = None THEN [count |-> 0, lockUntil |-> 0]
                    ELSE failedLogins[i]
             until == now + security.lock
  <2>2. UNCHANGED <<now, cleaning, security>>
    BY <1>3 DEF recordFailedLogin
  <2>3. CASE old.count + 1 >= security.max
    <3>1. /\ failedLogins' = [failedLogins EXCEPT ![i] = [count |-> 0, lockUntil |-> until]]
          /\ lock' = [lock EXCEPT ![i] = IF until >= lock[i] THEN until ELSE lock[i]]
          /\ eased' = IF until >= lock[i] THEN eased \ {i} ELSE eased
      BY <1>3, <2>1, <2>3 DEF recordFailedLogin
    <3>2. /\ failedLogins'[i] = [count |-> 0, lockUntil |-> until]
          /\ lock'[i] = IF until >= lock[i] THEN until ELSE lock[i]
          /\ \A j \in IPs \ {i} : /\ lock'[j] = lock[j] /\ failedLogins'[j] = failedLogins[j]
                                  /\ j \in eased' <=> j \in eased
      BY <1>0, <3>1
    <3>3. until \in Nat /\ [count |-> 0, lockUntil |-> until] # None
      <4>1. until \in Nat
        BY <1>0
      <4> QED BY <4>1, NoneAssumption
    <3>4. until >= lock[i] \/ i \in eased'
      <4>1. lock[i] \in Nat /\ (i \in eased \/ ~(now < lock[i]) \/ lock[i] <= until)
        BY <1>0 DEF LockInv
      <4> QED BY <1>0, <3>1, <3>3, <4>1
    <3>5. i \notin eased' => lock'[i] = until /\ failedLogins'[i].lockUntil = until
      BY <3>2, <3>4
    <3>6. ASSUME NEW j \in IPs \ eased', now < lock'[j]
          PROVE  /\ failedLogins'[j] # None
                 /\ failedLogins'[j].lockUntil = lock'[j]
                 /\ lock'[j] <= now + security.lock
      <4>1. CASE j = i
        BY <3>2, <3>3, <3>5, <3>6, <4>1
      <4>2. CASE j # i
        <5>1. j \in IPs \ eased /\ lock'[j] = lock[j] /\ failedLogins'[j] = failedLogins[j]
          BY <3>2, <3>6, <4>2
        <5> HIDE DEF until
        <5> QED BY <3>6, <5>1 DEF LockInv
      <4> QED BY <4>1, <4>2
    <3>7. cleaning' # None => cleaning' <= now'
      BY <2>2 DEF LockInv
    <3> HIDE DEF until
    <3> QED BY <2>2, <3>6, <3>7 DEF LockInv
  <2>4. CASE ~(old.count + 1 >= security.max)
    <3>1. /\ failedLogins' = [failedLogins EXCEPT ![i] = [old EXCEPT !.count = @ + 1]]
          /\ lock' = lock /\ eased' = eased
      BY <1>3, <2>1, <2>4 DEF recordFailedLogin
    <3>2. PICK o \in [count : Nat, lockUntil : Nat] : o = old
      <4>1. [count |-> 0, lockUntil |-> 0] \in [count : Nat, lockUntil : Nat]
        OBVIOUS
      <4>2. failedLogins[i] # None => failedLogins[i] \in [count : Nat, lockUntil : Nat]
        BY <1>0, SettingsAssumption DEF TypeOK
      <4> QED BY <4>1, <4>2
    <3>3. /\ failedLogins'[i] = [o EXCEPT !.count = @ + 1]
          /\ \A j \in IPs \ {i} : failedLogins'[j] = failedLogins[j]
      BY <1>0, <3>1, <3>2
    <3>4. /\ [o EXCEPT !.count = @ + 1] \in [count : Nat, lockUntil : Nat]
          /\ [o EXCEPT !.count = @ + 1].lockUntil = o.lockUntil
      OBVIOUS
    <3>5. i \notin eased /\ now < lock[i] => o.lockUntil = lock[i]
      BY <3>2 DEF LockInv
    <3>6. failedLogins'[i] # None /\ failedLogins'[i].lockUntil = o.lockUntil
      BY <3>3, <3>4, NoneAssumption
    <3> QED BY <2>2, <3>1, <3>3, <3>5, <3>6 DEF LockInv
  <2> QED BY <2>3, <2>4
<1>4. ASSUME NEW r \in Requests, recordSuccessfulLogin(r) PROVE LockInv'
  <2>1. req[r].at = "success" /\ ReqOK(req[r], epoch)
    BY <1>4, GoesFacts DEF recordSuccessfulLogin, TypeInv
  <2>2. req[r].ip \in IPs
    BY <2>1 DEF ReqOK
  <2> QED BY <1>2, <1>4, <2>2 DEF recordSuccessfulLogin
<1>5. ASSUME NEW r \in Requests, NEW i \in IPs, handleSecurityUnlock(r, i) PROVE LockInv'
  BY <1>2, <1>5 DEF handleSecurityUnlock
<1>6. CASE CleanSessions
  BY <1>0, <1>6 DEF CleanSessions, LockInv, logins
<1>7. CASE CleanLogins
  <2>1. ASSUME NEW i \in IPs \ eased, now < lock[i] PROVE failedLogins'[i] = failedLogins[i]
    <3>1. failedLogins[i] # None /\ failedLogins[i].lockUntil = lock[i] /\ cleaning <= now
      BY <1>7, <2>1 DEF LockInv, CleanLogins
    <3>2. cleaning \in Nat
      BY <1>0, <1>7, TimeAssumption DEF CleanLogins, TypeOK
    <3>3. ~Stale(i)
      BY <1>0, <2>1, <3>1, <3>2 DEF Stale
    <3> QED BY <1>7, <3>3 DEF CleanLogins
  <2> QED BY <1>7, <2>1 DEF CleanLogins, LockInv
<1>8. CASE Tick
  <2>1. now' = now + 1 /\ UNCHANGED <<logins, cleaning, security>>
    BY <1>8 DEF Tick
  <2>2. cleaning # None => cleaning \in Nat
    BY <1>0, TimeAssumption DEF TypeOK
  <2> QED BY <1>0, <2>1, <2>2 DEF LockInv, logins
<1>9. CASE Restart
  <2>1. now' = now /\ cleaning' = None /\ \A i \in IPs : lock'[i] = 0
    BY <1>9 DEF Restart
  <2> QED BY <1>0, <2>1 DEF LockInv
<1>10. CASE UNCHANGED vars
  BY <1>1, <1>10 DEF vars
<1>11. ASSUME NEW r \in Requests, LoginStep(r),
              ~recordFailedLogin(r), ~recordSuccessfulLogin(r)
       PROVE LockInv'
  BY <1>1, <1>11 DEF LoginStep, LoginArrives, LoginReadsSalt, LoginCompares, InsertSession
<1>13. ASSUME NEW r \in Requests, NEW sec \in Settings, handleSecurity(r, sec) PROVE LockInv'
  <2>1. /\ UNCHANGED <<now, failedLogins, lock, cleaning>>
        /\ security' = Clamped(sec)
        /\ eased' = IF security'.lock < security.lock THEN eased \cup {i \in IPs : now < lock[i]}
                    ELSE eased
    BY <1>13 DEF handleSecurity
  <2>2. security'.lock \in Nat
    BY <2>1, ClampedType, SettingsAssumption DEF Applied
  <2>3. CASE security'.lock < security.lock
    BY <2>1, <2>3 DEF LockInv
  <2>4. CASE ~(security'.lock < security.lock)
    BY <1>0, <2>1, <2>2, <2>4 DEF LockInv
  <2> QED BY <2>3, <2>4
<1>12. ASSUME NEW r \in Requests, RequestStep(r), \A i \in IPs : ~handleSecurityUnlock(r, i),
              \A sec \in Settings : ~handleSecurity(r, sec)
       PROVE LockInv'
  BY <1>1, <1>12 DEF RequestStep, RequestArrives, DropExpired, Renew, HandleOther, handleLogout,
     handleChangePassword, ChangeCompares, SecurityReadsHash, SecurityReadsSalt,
     WriteSalt, WriteHash, ChangeReadsSettings, OpenTmp, WriteTmp, SaveFails, Rename, RenameFails,
     ClearSessions
<1> QED BY <1>3, <1>4, <1>5, <1>6, <1>7, <1>8, <1>9, <1>10, <1>11, <1>12, <1>13 DEF Next

\* Only an address that is not locked gets a login examined.
LEMMA ArrivalUnlocked ==
  ASSUME TypeInv, LockInv, [Next]_vars, NEW r \in Requests,
         req[r].at = "idle", req'[r].at = "loginSalt", req'[r].ip \notin eased
  PROVE  now >= lock[req'[r].ip]
<1>0. "idle" # "loginSalt"
  OBVIOUS
<1>1. PICK q \in Requests : LoginStep(q) \/ RequestStep(q)
  <2>1. CASE CleanSessions \/ CleanLogins \/ Tick \/ UNCHANGED vars
    BY <2>1 DEF CleanSessions, CleanLogins, Tick, vars
  <2>2. CASE Restart
    BY <2>2 DEF Restart, Idle
  <2> QED BY <2>1, <2>2 DEF Next
<1>2. CASE Rename(q)
  <2>1. r # q
    BY <1>2, RenameFacts
  <2> QED BY <1>2, <2>1, RenameFacts
<1>3. ASSUME NEW from, NEW to, Goes(q, from, to), from # "idle" PROVE FALSE
  BY <1>3, GoesFacts
<1>4. ASSUME NEW s \in SessionIDs, RequestArrives(q, s) PROVE FALSE
  BY <1>4, GoesFacts DEF RequestArrives
<1>5. ASSUME NEW i \in IPs, NEW p \in Passwords, LoginArrives(q, i, p)
      PROVE  now >= lock[req'[r].ip]
  <2>1. q = r /\ req'[r].ip = i /\ ~isIPLocked(i)
    BY <1>5, GoesFacts DEF LoginArrives
  <2>2. now \in Nat /\ lock[i] \in Nat
    BY DEF TypeInv, TypeOK
  <2> QED BY <2>1, <2>2 DEF LockInv, isIPLocked
<1>6. CASE LoginStep(q)
  BY <1>3, <1>5, <1>6 DEF LoginStep, LoginReadsSalt, LoginCompares, recordFailedLogin,
     recordSuccessfulLogin, InsertSession
<1>7. CASE RequestStep(q)
  BY <1>2, <1>3, <1>4, <1>7 DEF RequestStep, DropExpired, Renew, HandleOther, handleLogout,
     handleSecurityUnlock, handleSecurity, handleChangePassword, ChangeCompares, SecurityReadsHash,
     SecurityReadsSalt, WriteSalt, WriteHash, ChangeReadsSettings, OpenTmp, WriteTmp, SaveFails,
     RenameFails, ClearSessions
<1> QED BY <1>1, <1>6, <1>7

-----------------------------------------------------------------------------
(* Sessions.                                                               *)

About == {"renew", "success", "insert"}

\* A request that does not come near a session, or writes the one it is
\* about to write.
LEMMA SessionKept ==
  ASSUME TypeInv, SessionInv, NEW r \in Requests, UNCHANGED <<born, raced, cleared>>,
         \A q \in Requests \ {r} : req'[q].at \in About => req'[q] = req[q],
         req'[r].at \in About
           => req[r].at \in About /\ req'[r].sid = req[r].sid,
         \A s \in SessionIDs : sessions'[s] # None
           => sessions[s] # None \/ (req[r].at \in About /\ req[r].sid = s)
  PROVE  SessionInv'
<1>1. ASSUME NEW q \in Requests, req[q].at \in About
      PROVE  born[req[q].sid] # None /\ (born[req[q].sid] < cleared => req[q].sid \in raced)
  BY <1>1 DEF SessionInv, About
<1>2. ASSUME NEW q \in Requests, req'[q].at \in About
      PROVE  req[q].at \in About /\ req'[q].sid = req[q].sid
  BY <1>2
<1>3. \A s \in SessionIDs : sessions'[s] # None
        => born[s] # None /\ (born[s] < cleared => s \in raced)
  BY <1>1 DEF SessionInv, OldSessionsRaced
<1> QED BY <1>1, <1>2, <1>3 DEF SessionInv, OldSessionsRaced, About

\* The same for a step that goes on to a place where no session is written.
LEMMA SessionGoes ==
  ASSUME TypeInv, SessionInv, NEW r \in Requests, NEW from, NEW to, Goes(r, from, to),
         to.at \notin About, UNCHANGED <<born, raced, cleared>>,
         \A s \in SessionIDs : sessions'[s] # None
           => sessions[s] # None \/ (from \in About /\ req[r].sid = s)
  PROVE  SessionInv'
<1>1. /\ req[r].at = from /\ req'[r] = to
      /\ \A q \in Requests : q # r => req'[q] = req[q]
  BY GoesFacts
<1> QED BY <1>1, SessionKept

LEMMA NextSession ==
  ASSUME TypeInv, SessionInv, [Next]_vars
  PROVE  SessionInv'
<1>0. /\ sessions \in [SessionIDs -> Nat \cup {None}] /\ born \in [SessionIDs -> Nat \cup {None}]
      /\ epoch \in Nat /\ cleared \in 0 .. epoch
  BY DEF TypeInv, TypeOK
<1>1. ASSUME NEW r \in Requests, NEW from, NEW to, Goes(r, from, to), to.at \notin About,
             UNCHANGED session
      PROVE  SessionInv'
  BY <1>1, SessionGoes DEF session
<1>2. Idle.at \notin About
  BY DEF Idle, About
<1>3. ASSUME NEW r \in Requests, LoginCompares(r) PROVE SessionInv'
  <2>1. CASE req[r].hash = passwordHash
    <3>1. PICK s \in SessionIDs :
            /\ born[s] = None /\ born' = [born EXCEPT ![s] = epoch]
            /\ Goes(r, "loginHash", [at |-> "success", ip |-> req[r].ip, sid |-> s])
      BY <1>3, <2>1 DEF LoginCompares
    <3>2. /\ UNCHANGED <<sessions, raced, cleared>>
          /\ born'[s] = epoch /\ \A x \in SessionIDs \ {s} : born'[x] = born[x]
      BY <1>0, <1>3, <3>1 DEF LoginCompares
    <3>3. /\ req'[r].at = "success" /\ req'[r].sid = s
          /\ \A q \in Requests : q # r => req'[q] = req[q]
      BY <3>1, GoesFacts
    <3>4. epoch # None /\ ~(epoch < cleared)
      BY <1>0, NoneAssumption
    <3>5. \A x \in SessionIDs : sessions[x] # None => x # s
      BY <3>1 DEF SessionInv
    <3>6. \A q \in Requests : req[q].at \in About => req[q].sid \in SessionIDs \ {s}
      BY <3>1 DEF SessionInv, About, TypeInv, ReqOK
    <3>7. \A q \in Requests \ {r} : req'[q].at \in About =>
            /\ born'[req'[q].sid] # None
            /\ born'[req'[q].sid] < cleared' => req'[q].sid \in raced'
      BY <3>2, <3>3, <3>6 DEF SessionInv, About
    <3>8. OldSessionsRaced' /\ \A x \in SessionIDs : sessions'[x] # None => born'[x] # None
      BY <3>2, <3>5 DEF SessionInv, OldSessionsRaced
    <3> QED BY <3>2, <3>3, <3>4, <3>7, <3>8 DEF SessionInv, About
  <2>2. CASE req[r].hash # passwordHash
    <3>1. [at |-> "failure", ip |-> req[r].ip].at \notin About
      BY DEF About
    <3> QED BY <1>1, <1>3, <2>2, <3>1 DEF LoginCompares, session
  <2> QED BY <2>1, <2>2
<1>4. ASSUME NEW r \in Requests, recordSuccessfulLogin(r) PROVE SessionInv'
  <2>1. /\ req[r].at = "success" /\ req'[r] = [at |-> "insert", sid |-> req[r].sid]
        /\ \A q \in Requests : q # r => req'[q] = req[q]
    BY <1>4, GoesFacts DEF recordSuccessfulLogin
  <2> QED BY <1>4, <2>1, SessionKept DEF recordSuccessfulLogin, session, About
<1>5. ASSUME NEW r \in Requests, InsertSession(r) \/ DropExpired(r) \/ handleLogout(r)
      PROVE  SessionInv'
  <2>1. PICK from \in {"insert", "expired", "handle"} : Goes(r, from, Idle)
    BY <1>5 DEF InsertSession, DropExpired, handleLogout
  <2>2. \A s \in SessionIDs : sessions'[s] # None
          => sessions[s] # None \/ (req[r].at \in About /\ req[r].sid = s)
    BY <1>0, <1>5, GoesFacts DEF InsertSession, DropExpired, handleLogout, About
  <2> QED BY <1>2, <1>5, <2>1, <2>2, GoesFacts, SessionGoes
          DEF InsertSession, DropExpired, handleLogout
<1>6. ASSUME NEW r \in Requests, Renew(r) PROVE SessionInv'
  <2>1. [at |-> "handle", sid |-> req[r].sid].at \notin About /\ "renew" \in About
    BY DEF About
  <2>2. \A s \in SessionIDs : sessions'[s] # None => sessions[s] # None \/ req[r].sid = s
    BY <1>0, <1>6 DEF Renew
  <2> QED BY <1>6, <2>1, <2>2, SessionGoes DEF Renew
<1>7. ASSUME NEW r \in Requests, NEW s \in SessionIDs, RequestArrives(r, s) PROVE SessionInv'
  <2>1. /\ sessions[s] # None /\ UNCHANGED <<sessions, born, raced, cleared>>
        /\ req'[r].sid = s /\ \A q \in Requests : q # r => req'[q] = req[q]
    BY <1>7, GoesFacts DEF RequestArrives, session
  <2>2. born[s] # None /\ (born[s] < cleared => s \in raced)
    BY <2>1 DEF SessionInv, OldSessionsRaced
  <2>3. OldSessionsRaced' /\ \A x \in SessionIDs : sessions'[x] # None => born'[x] # None
    BY <2>1 DEF SessionInv, OldSessionsRaced
  <2> QED BY <2>1, <2>2, <2>3 DEF SessionInv
<1>8. ASSUME NEW r \in Requests, ClearSessions(r) PROVE SessionInv'
  <2>1. /\ Goes(r, "clear", Idle) /\ born' = born
        /\ \A s \in SessionIDs : sessions'[s] = None
        /\ raced' = raced \cup {req[q].sid : q \in AboutToWrite}
    BY <1>8 DEF ClearSessions, Emptied
  <2>2. req'[r] = Idle /\ \A q \in Requests : q # r => req'[q] = req[q]
    BY <2>1, GoesFacts
  <2>3. \A q \in Requests : req'[q].at \in About
          => born'[req'[q].sid] # None /\ req'[q].sid \in raced'
    <3>1. ASSUME NEW q \in Requests, req'[q].at \in About
          PROVE  q \in AboutToWrite /\ req'[q].sid = req[q].sid /\ born[req[q].sid] # None
      BY <1>2, <2>2, <3>1 DEF AboutToWrite, About, SessionInv
    <3> QED BY <2>1, <3>1
  <2>4. OldSessionsRaced' /\ \A s \in SessionIDs : sessions'[s] # None => born'[s] # None
    BY <2>1 DEF OldSessionsRaced
  <2> QED BY <2>3, <2>4 DEF SessionInv, About
<1>9. ASSUME NEW r \in Requests, Rename(r) PROVE SessionInv'
  <2>1. req'[r].at \notin About
    <3>1. Renamed(r).at \in {"idle", "clear"}
      BY DEF Renamed, Idle
    <3> QED BY <1>9, <3>1, RenameFacts DEF About
  <2>2. \A q \in Requests \ {r} : req'[q].at \in About => req'[q] = req[q]
    <3>1. ASSUME NEW q \in Requests \ {r}, req[q].at = "write" PROVE req'[q].at = "write"
      <4>1. PICK d \in {"file", "gone"} : req'[q] = [req[q] EXCEPT !.fd = d]
        BY <1>9, <3>1, RenameFacts
      <4>2. PICK v : v = req[q]
        OBVIOUS
      <4>3. v.at = "write" => [v EXCEPT !.fd = d].at = "write"
        OBVIOUS
      <4> QED BY <3>1, <4>1, <4>2, <4>3
    <3> QED BY <1>9, <3>1, RenameFacts DEF About
  <2> QED BY <1>9, <2>1, <2>2, SessionKept DEF Rename, session
<1>10. CASE Restart
  BY <1>2, <1>10 DEF Restart, SessionInv, OldSessionsRaced, About
<1>11. CASE CleanSessions
  <2>1. /\ UNCHANGED <<born, raced, cleared, req>>
        /\ \A s \in SessionIDs : sessions'[s] # None => sessions[s] # None
    BY <1>11 DEF CleanSessions
  <2> QED BY <2>1 DEF SessionInv, OldSessionsRaced
<1>12. CASE CleanLogins \/ Tick \/ UNCHANGED vars
  BY <1>12 DEF CleanLogins, Tick, vars, session, SessionInv, OldSessionsRaced
<1>13. ASSUME NEW r \in Requests, NEW i \in IPs, NEW p \in Passwords, LoginArrives(r, i, p)
       PROVE  SessionInv'
  <2>1. [at |-> "loginSalt", ip |-> i, pw |-> p].at \notin About
    BY DEF About
  <2> QED BY <1>1, <1>13, <2>1 DEF LoginArrives
<1>14. ASSUME NEW r \in Requests, LoginReadsSalt(r) PROVE SessionInv'
  <2>1. [at |-> "loginHash", ip |-> req[r].ip,
         hash |-> hashPasswordWithSalt(req[r].pw, passwordSalt)].at \notin About
    BY DEF About
  <2> QED BY <1>1, <1>14, <2>1 DEF LoginReadsSalt
<1>15. ASSUME NEW r \in Requests,
              \/ recordFailedLogin(r) \/ HandleOther(r) \/ SaveFails(r) \/ RenameFails(r)
              \/ \E i \in IPs : handleSecurityUnlock(r, i)
       PROVE  SessionInv'
  BY <1>1, <1>2, <1>15
     DEF recordFailedLogin, HandleOther, SaveFails, RenameFails, handleSecurityUnlock
<1>16. ASSUME NEW r \in Requests,
              \/ \E sec \in Settings : handleSecurity(r, sec)
              \/ SecurityReadsHash(r) \/ SecurityReadsSalt(r)
              \/ \E p \in Passwords : handleChangePassword(r, p) \/ ChangeCompares(r, p)
              \/ WriteSalt(r) \/ WriteHash(r) \/ ChangeReadsSettings(r) \/ OpenTmp(r) \/ WriteTmp(r)
       PROVE  SessionInv'
  <2>1. req'[r].at \notin About /\ \A q \in Requests : q # r => req'[q] = req[q]
    <3>1. CASE \E sec \in Settings : handleSecurity(r, sec)
      BY <3>1, GoesFacts DEF handleSecurity, About
    <3>2. CASE SecurityReadsHash(r)
      BY <3>2, GoesFacts DEF SecurityReadsHash, About
    <3>3. CASE SecurityReadsSalt(r)
      BY <3>3, GoesFacts DEF SecurityReadsSalt, Saving, About
    <3>4. CASE \E p \in Passwords : handleChangePassword(r, p)
      BY <3>4, GoesFacts DEF handleChangePassword, About
    <3>5. CASE \E p \in Passwords : ChangeCompares(r, p)
      BY <3>5, GoesFacts DEF ChangeCompares, Idle, About
    <3>6. CASE WriteSalt(r)
      BY <3>6, GoesFacts DEF WriteSalt, About
    <3>7. CASE WriteHash(r)
      BY <3>7, GoesFacts DEF WriteHash, About
    <3>8. CASE ChangeReadsSettings(r)
      BY <3>8, GoesFacts DEF ChangeReadsSettings, Saving, About
    <3>9. CASE OpenTmp(r)
      BY <3>9, GoesFacts DEF OpenTmp, About
    <3>10. CASE WriteTmp(r)
      BY <3>10, GoesFacts DEF WriteTmp, About
    <3> QED BY <1>16, <3>1, <3>2, <3>3, <3>4, <3>5, <3>6, <3>7, <3>8, <3>9, <3>10
  <2>2. UNCHANGED session
    BY <1>16 DEF handleSecurity, SecurityReadsHash, SecurityReadsSalt, handleChangePassword,
       ChangeCompares, WriteSalt, WriteHash, ChangeReadsSettings, OpenTmp, WriteTmp
  <2> QED BY <2>1, <2>2, SessionKept DEF session
<1> QED BY <1>3, <1>4, <1>5, <1>6, <1>7, <1>8, <1>9, <1>10, <1>11, <1>12, <1>13, <1>14, <1>15, <1>16
        DEF Next, LoginStep, RequestStep

-----------------------------------------------------------------------------
(* The password and the settings file.                                     *)

LEMMA AtMostOne ==
  ASSUME NEW S, IsFiniteSet(S), ~(Cardinality(S) > 1), NEW x \in S, NEW y \in S
  PROVE  x = y
<1> SUFFICES ASSUME x # y PROVE FALSE
  OBVIOUS
<1>1. IsFiniteSet({x}) /\ Cardinality({x}) = 1
  BY FS_Singleton
<1>2. Cardinality({x} \cup {y}) = 2
  <2>1. Cardinality({x} \cup {y}) = IF y \in {x} THEN Cardinality({x}) ELSE Cardinality({x}) + 1
    BY <1>1, FS_AddElement
  <2> QED BY <1>1, <2>1
<1>3. Cardinality({x} \cup {y}) <= Cardinality(S) /\ Cardinality(S) \in Nat
  BY FS_Subset, FS_CardinalityType
<1> QED BY <1>2, <1>3

\* As long as `overlap' stays false there is one writer.
LEMMA SoleWriter ==
  ASSUME TypeInv, NEW r \in Requests, NEW from, NEW to, Goes(r, from, to), ~overlap'
  PROVE  ~overlap /\ \A p, q \in Requests : IsWriter(p)' /\ IsWriter(q)' => p = q
<1>1. ~overlap /\ ~(Cardinality(Writers(req')) > 1)
  BY GoesFacts
<1>2. IsFiniteSet(Writers(req'))
  BY RequestsAssumption, FS_Subset DEF Writers
<1>3. \A p \in Requests : IsWriter(p)' => p \in Writers(req')
  BY DEF IsWriter, WriterSteps, Writers
<1> QED BY <1>1, <1>2, <1>3, AtMostOne

\* A request that writes neither password nor file disturbs no writer.
LEMMA Bystander ==
  ASSUME TypeInv, SaveInv, NEW r \in Requests, NEW from, NEW to, Goes(r, from, to),
         from \notin WriterSteps, to.at \notin WriterSteps,
         UNCHANGED <<passwordSalt, passwordHash, disk, promised, unsaved>>
  PROVE  SaveInv'
<1> SUFFICES ASSUME ~overlap'
             PROVE  /\ \A p, q \in Requests : IsWriter(p)' /\ IsWriter(q)' => p = q
                    /\ \A q \in Requests : WriterInv(q)'
                    /\ FileInv'
  BY DEF SaveInv
<1>1. ~overlap /\ \A p, q \in Requests : IsWriter(p)' /\ IsWriter(q)' => p = q
  BY SoleWriter
<1>2. (\A q \in Requests : WriterInv(q)) /\ FileInv
  BY <1>1 DEF SaveInv
<1>3. /\ req[r].at \notin WriterSteps /\ req'[r].at \notin WriterSteps
      /\ \A q \in Requests : q # r => req'[q] = req[q]
  BY GoesFacts
<1>4. WriterInv(r)'
  BY <1>3 DEF WriterInv, WriterSteps
<1>5. \A q \in Requests \ {r} : WriterInv(q)'
  BY <1>2, <1>3 DEF WriterInv, disk, Saved
<1>6. \A q \in Requests : (Ahead(q)' <=> Ahead(q)) /\ (req'[q].at = "newHash" <=> req[q].at = "newHash")
  BY <1>3 DEF Ahead, WriterSteps
<1>7. FileInv'
  BY <1>2, <1>6 DEF FileInv, disk, Saved
<1> QED BY <1>1, <1>4, <1>5, <1>7

\* FileInv as the one writer sees it.
FileOf(r) ==
  /\ file # Torn
  /\ Saved => file.hash[2] = file.salt
  /\ promised # None => Saved
  /\ req[r].at # "newHash" => passwordHash[2] = passwordSalt
  /\ ~Ahead(r) /\ ~unsaved
       => IF Saved THEN file.hash = passwordHash ELSE passwordHash[1] = ConfigPassword

LEMMA AheadWrites ==
  ASSUME NEW r
  PROVE  /\ req[r].at = "newHash" => IsWriter(r)
         /\ Ahead(r) => IsWriter(r)
         /\ ~IsWriter(r) => WriterInv(r)
BY DEF Ahead, IsWriter, WriterInv, WriterSteps

\* A step of the one writer: it only has to keep its own part.
LEMMA WriterStep ==
  ASSUME TypeInv, SaveInv, NEW r \in Requests, NEW from, NEW to, Goes(r, from, to),
         from \in WriterSteps \/ to.at \in WriterSteps,
         ~overlap /\ WriterInv(r) /\ FileOf(r) => WriterInv(r)' /\ FileOf(r)'
  PROVE  SaveInv'
<1> SUFFICES ASSUME ~overlap'
             PROVE  /\ \A p, q \in Requests : IsWriter(p)' /\ IsWriter(q)' => p = q
                    /\ \A q \in Requests : WriterInv(q)'
                    /\ FileInv'
  BY DEF SaveInv
<1>1. ~overlap /\ \A p, q \in Requests : IsWriter(p)' /\ IsWriter(q)' => p = q
  BY SoleWriter
<1>2. /\ \A p, q \in Requests : IsWriter(p) /\ IsWriter(q) => p = q
      /\ (\A q \in Requests : WriterInv(q)) /\ FileInv
  BY <1>1 DEF SaveInv
<1>3. /\ req[r].at = from /\ req'[r] = to
      /\ \A q \in Requests : q # r => req'[q] = req[q]
  BY GoesFacts
<1>4. \A q \in Requests \ {r} : IsWriter(q)' <=> IsWriter(q)
  BY <1>3 DEF IsWriter
<1>5. IsWriter(r) \/ IsWriter(r)'
  BY <1>3 DEF IsWriter
<1>6. \A q \in Requests \ {r} : ~IsWriter(q) /\ ~IsWriter(q)'
  BY <1>1, <1>2, <1>4, <1>5
<1>7. FileOf(r)
  BY <1>2, <1>6, AheadWrites DEF FileInv, FileOf
<1>8. WriterInv(r)' /\ FileOf(r)'
  BY <1>1, <1>2, <1>7
<1>9. \A q \in Requests \ {r} : WriterInv(q)'
  BY <1>6 DEF IsWriter, WriterInv, WriterSteps
<1>10. FileInv'
  BY <1>8 DEF FileInv, FileOf
<1> QED BY <1>1, <1>8, <1>9, <1>10

LEMMA RenameSave ==
  ASSUME TypeInv, SaveInv, NEW r \in Requests, Rename(r)
  PROVE  SaveInv'
<1>1. SUFFICES ASSUME ~overlap
      PROVE  /\ \A p, q \in Requests : IsWriter(p)' /\ IsWriter(q)' => p = q
             /\ \A q \in Requests : WriterInv(q)'
             /\ FileInv'
  BY RenameFacts DEF SaveInv
<1>2. /\ \A p, q \in Requests : IsWriter(p) /\ IsWriter(q) => p = q
      /\ (\A q \in Requests : WriterInv(q)) /\ FileInv
  BY <1>1 DEF SaveInv
<1>3. /\ req[r].at = "rename" /\ file' = tmp /\ req'[r] = Renamed(r)
      /\ UNCHANGED <<passwordHash, passwordSalt, promised>>
  BY RenameFacts DEF Rename, password, session
<1>4. \A q \in Requests \ {r} : ~IsWriter(q)
  BY <1>2, <1>3 DEF IsWriter, WriterSteps
<1>5. \A q \in Requests \ {r} : req'[q] = req[q]
  BY <1>4, RenameFacts DEF IsWriter, WriterSteps
<1>6. \A q \in Requests \ {r} : ~IsWriter(q)' /\ WriterInv(q)' /\ ~Ahead(q)' /\ req'[q].at # "newHash"
  BY <1>4, <1>5 DEF IsWriter, WriterInv, WriterSteps, Ahead
<1>7. req'[r].at \in {"idle", "clear"}
  BY <1>3 DEF Renamed, Idle
<1>8. PICK v \in Savable : v = req[r].data
  BY <1>3 DEF TypeInv, ReqOK
<1>9. file' = v /\ v.hash = passwordHash /\ v.salt = passwordSalt
  BY <1>2, <1>3, <1>8 DEF WriterInv
<1>10. passwordHash[2] = passwordSalt
  BY <1>2, <1>3, <1>4, AheadWrites DEF FileInv
<1>11. v # None /\ v # Torn
  BY ContentsAssumption
<1>12. Saved'
  BY <1>9, <1>11 DEF Saved
<1>13. WriterInv(r)'
  BY <1>7, <1>12 DEF WriterInv
<1>14. FileInv'
  BY <1>3, <1>9, <1>10, <1>11, <1>12 DEF FileInv
<1> QED BY <1>6, <1>13, <1>14

\* saveSettings, one step at a time.
LEMMA SavesSave ==
  ASSUME TypeInv, SaveInv, NEW r \in Requests,
         \/ SecurityReadsSalt(r) \/ ChangeReadsSettings(r)
         \/ OpenTmp(r) \/ WriteTmp(r) \/ SaveFails(r) \/ RenameFails(r) \/ ClearSessions(r)
  PROVE  SaveInv'
<1>0. ReqOK(req[r], epoch)
  BY DEF TypeInv
<1>a. Idle.at = "idle"
  BY DEF Idle
<1>1. CASE SecurityReadsSalt(r)
  <2> DEFINE to == Saving(0, req[r].sec, req[r].hash, passwordSalt)
  <2>1. /\ Goes(r, "readSalt", to) /\ "readSalt" \in WriterSteps
        /\ UNCHANGED <<passwordSalt, passwordHash, file, tmp, promised, unsaved>>
    BY <1>1 DEF SecurityReadsSalt, WriterSteps, password, disk, session
  <2>2. req[r].at = "readSalt" /\ req'[r] = to
    BY <2>1, GoesFacts
  <2>3. /\ req'[r].at = "open" /\ req'[r].change = 0 /\ req'[r].data.hash = req[r].hash
        /\ req'[r].data.salt = passwordSalt
    BY <2>2 DEF Saving
  <2>4. ASSUME WriterInv(r), FileOf(r) PROVE WriterInv(r)' /\ FileOf(r)'
    BY <2>1, <2>2, <2>3, <2>4 DEF WriterInv, FileOf, Ahead, Saved
  <2> QED BY <2>1, <2>4, WriterStep
<1>2. CASE ChangeReadsSettings(r)
  <2> DEFINE to == Saving(req[r].epoch, security, req[r].hash, req[r].hash[2])
  <2>1. /\ Goes(r, "readSettings", to) /\ "readSettings" \in WriterSteps
        /\ UNCHANGED <<passwordSalt, passwordHash, file, tmp, promised, unsaved>>
    BY <1>2 DEF ChangeReadsSettings, WriterSteps, password, disk, session
  <2>2. req[r].at = "readSettings" /\ req'[r] = to
    BY <2>1, GoesFacts
  <2>3. /\ req'[r].at = "open" /\ req'[r].change = req[r].epoch
        /\ req'[r].data.hash = req[r].hash /\ req'[r].data.salt = req[r].hash[2]
    BY <2>2 DEF Saving
  <2>4. req[r].epoch # 0
    BY <1>0, <2>2 DEF ReqOK
  <2>5. ASSUME WriterInv(r), FileOf(r) PROVE WriterInv(r)' /\ FileOf(r)'
    BY <2>1, <2>2, <2>3, <2>4, <2>5 DEF WriterInv, FileOf, Ahead, Saved
  <2> QED BY <2>1, <2>5, WriterStep
<1>3. CASE OpenTmp(r)
  <2> DEFINE to == [at |-> "write", change |-> req[r].change, data |-> req[r].data, fd |-> "tmp"]
  <2>1. /\ Goes(r, "open", to) /\ "open" \in WriterSteps /\ tmp' = Torn
        /\ UNCHANGED <<passwordSalt, passwordHash, file, promised, unsaved>>
    BY <1>3 DEF OpenTmp, WriterSteps, password, session
  <2>2. req[r].at = "open" /\ req'[r] = to
    BY <2>1, GoesFacts
  <2>3. /\ req'[r].at = "write" /\ req'[r].change = req[r].change /\ req'[r].data = req[r].data
        /\ req'[r].fd = "tmp"
    BY <2>2
  <2>4. ASSUME WriterInv(r), FileOf(r) PROVE WriterInv(r)' /\ FileOf(r)'
    BY <2>1, <2>2, <2>3, <2>4 DEF WriterInv, FileOf, Ahead, Saved
  <2> QED BY <2>1, <2>4, WriterStep
<1>4. CASE WriteTmp(r)
  <2> DEFINE to == [at |-> "rename", change |-> req[r].change, data |-> req[r].data]
  <2>1. /\ Goes(r, "write", to) /\ "write" \in WriterSteps
        /\ UNCHANGED <<passwordSalt, passwordHash, promised, unsaved>>
    BY <1>4 DEF WriteTmp, WriterSteps, password, session
  <2>2. req[r].at = "write" /\ req'[r] = to
    BY <2>1, GoesFacts
  <2>3. req'[r].at = "rename" /\ req'[r].change = req[r].change /\ req'[r].data = req[r].data
    BY <2>2
  <2>4. ASSUME WriterInv(r) PROVE tmp' = req[r].data /\ file' = file
    BY <1>4, <2>2, <2>4 DEF WriterInv, WriteTmp, Written
  <2>5. ASSUME WriterInv(r), FileOf(r) PROVE WriterInv(r)' /\ FileOf(r)'
    BY <2>1, <2>2, <2>3, <2>4, <2>5 DEF WriterInv, FileOf, Ahead, Saved
  <2> QED BY <2>1, <2>5, WriterStep
<1>5. CASE SaveFails(r)
  <2>1. /\ Goes(r, "write", Idle) /\ "write" \in WriterSteps
        /\ unsaved' = (unsaved \/ req[r].change # 0)
        /\ UNCHANGED <<passwordSalt, passwordHash, file, tmp, promised>>
    BY <1>5 DEF SaveFails, WriterSteps, password, disk, session
  <2>2. req[r].at = "write" /\ req'[r].at = "idle"
    BY <1>a, <2>1, GoesFacts
  <2>3. ASSUME WriterInv(r), FileOf(r) PROVE WriterInv(r)' /\ FileOf(r)'
    BY <2>1, <2>2, <2>3 DEF WriterInv, FileOf, Ahead, Saved
  <2> QED BY <2>1, <2>3, WriterStep
<1>6. CASE RenameFails(r)
  <2>1. Goes(r, "rename", Idle) /\ "rename" \in WriterSteps /\ tmp = None
    BY <1>6 DEF RenameFails, WriterSteps
  <2>2. req[r].at = "rename"
    BY <2>1, GoesFacts
  <2>3. req[r].data \in Savable
    BY <1>0, <2>2 DEF ReqOK
  <2>4. ~WriterInv(r)
    BY <2>1, <2>2, <2>3, ContentsAssumption DEF WriterInv
  <2> QED BY <2>1, <2>4, WriterStep
<1>7. CASE ClearSessions(r)
  <2>1. /\ Goes(r, "clear", Idle) /\ "clear" \in WriterSteps
        /\ UNCHANGED <<passwordSalt, passwordHash, file, tmp, unsaved>>
    BY <1>7 DEF ClearSessions, WriterSteps, password, disk
  <2>2. req[r].at = "clear" /\ req'[r].at = "idle"
    BY <1>a, <2>1, GoesFacts
  <2>3. ASSUME WriterInv(r), FileOf(r) PROVE WriterInv(r)' /\ FileOf(r)'
    BY <2>1, <2>2, <2>3 DEF WriterInv, FileOf, Ahead, Saved
  <2> QED BY <2>1, <2>3, WriterStep
<1> QED BY <1>1, <1>2, <1>3, <1>4, <1>5, <1>6, <1>7

\* A change of the settings or of the password in memory.
LEMMA ChangesSave ==
  ASSUME TypeInv, SaveInv, NEW r \in Requests,
         \/ \E sec \in Settings : handleSecurity(r, sec)
         \/ SecurityReadsHash(r) \/ WriteSalt(r) \/ WriteHash(r)
  PROVE  SaveInv'
<1>1. ASSUME NEW sec \in Settings, handleSecurity(r, sec) PROVE SaveInv'
  <2> DEFINE to == [at |-> "readHash", sec |-> Clamped(sec)]
  <2>1. /\ Goes(r, "handle", to) /\ to.at \in WriterSteps
        /\ UNCHANGED <<passwordSalt, passwordHash, file, tmp, promised, unsaved>>
    BY <1>1 DEF handleSecurity, WriterSteps, password, disk, session
  <2>2. req[r].at = "handle" /\ req'[r].at = "readHash"
    BY <2>1, GoesFacts
  <2>3. ASSUME WriterInv(r), FileOf(r) PROVE WriterInv(r)' /\ FileOf(r)'
    BY <2>1, <2>2, <2>3 DEF WriterInv, FileOf, Ahead, Saved
  <2> QED BY <2>1, <2>3, WriterStep
<1>2. CASE SecurityReadsHash(r)
  <2> DEFINE to == [at |-> "readSalt", sec |-> req[r].sec, hash |-> passwordHash]
  <2>1. /\ Goes(r, "readHash", to) /\ "readHash" \in WriterSteps
        /\ UNCHANGED <<passwordSalt, passwordHash, file, tmp, promised, unsaved>>
    BY <1>2 DEF SecurityReadsHash, WriterSteps, password, disk, session
  <2>2. req[r].at = "readHash" /\ req'[r].at = "readSalt" /\ req'[r].hash = passwordHash
    BY <2>1, GoesFacts
  <2>3. ASSUME WriterInv(r), FileOf(r) PROVE WriterInv(r)' /\ FileOf(r)'
    BY <2>1, <2>2, <2>3 DEF WriterInv, FileOf, Ahead, Saved
  <2> QED BY <2>1, <2>3, WriterStep
<1>3. CASE WriteSalt(r)
  <2> DEFINE to == [at |-> "newHash", hash |-> hashPasswordWithSalt(req[r].pw, salts + 1)]
  <2>1. /\ Goes(r, "newSalt", to) /\ to.at \in WriterSteps /\ passwordSalt' = salts + 1
        /\ UNCHANGED <<passwordHash, file, tmp, promised, unsaved>>
    BY <1>3 DEF WriteSalt, WriterSteps, disk, session
  <2>2. /\ req[r].at = "newSalt" /\ req'[r].at = "newHash"
        /\ req'[r].hash = hashPasswordWithSalt(req[r].pw, salts + 1)
    BY <2>1, GoesFacts
  <2>3. req'[r].hash[2] = salts + 1
    BY <2>2 DEF hashPasswordWithSalt
  <2>4. ASSUME WriterInv(r), FileOf(r) PROVE WriterInv(r)' /\ FileOf(r)'
    BY <2>1, <2>2, <2>3, <2>4 DEF WriterInv, FileOf, Ahead, Saved
  <2> QED BY <2>1, <2>4, WriterStep
<1>4. CASE WriteHash(r)
  <2> DEFINE to == [at |-> "readSettings", hash |-> req[r].hash, epoch |-> epoch + 1]
  <2>1. /\ Goes(r, "newHash", to) /\ "newHash" \in WriterSteps /\ passwordHash' = req[r].hash
        /\ UNCHANGED <<passwordSalt, file, tmp, promised, unsaved>>
    BY <1>4 DEF WriteHash, WriterSteps, disk, session
  <2>2. req[r].at = "newHash" /\ req'[r].at = "readSettings" /\ req'[r].hash = req[r].hash
    BY <2>1, GoesFacts
  <2>3. ASSUME WriterInv(r), FileOf(r) PROVE WriterInv(r)' /\ FileOf(r)'
    BY <2>1, <2>2, <2>3 DEF WriterInv, FileOf, Ahead, Saved
  <2> QED BY <2>1, <2>3, WriterStep
<1> QED BY <1>1, <1>2, <1>3, <1>4

\* All other steps of a request.
LEMMA OthersSave ==
  ASSUME TypeInv, SaveInv, NEW r \in Requests,
         \/ LoginStep(r)
         \/ \E s \in SessionIDs : RequestArrives(r, s)
         \/ DropExpired(r) \/ Renew(r) \/ HandleOther(r) \/ handleLogout(r)
         \/ \E i \in IPs : handleSecurityUnlock(r, i)
         \/ \E p \in Passwords : handleChangePassword(r, p) \/ ChangeCompares(r, p)
  PROVE  SaveInv'
<1>1. UNCHANGED <<passwordSalt, passwordHash, disk, promised, unsaved>>
  BY DEF LoginStep, LoginArrives, LoginReadsSalt, LoginCompares, recordFailedLogin,
     recordSuccessfulLogin, InsertSession, RequestArrives, DropExpired, Renew, HandleOther,
     handleLogout, handleSecurityUnlock, handleChangePassword, ChangeCompares, password, session
<1>2. ASSUME NEW from, NEW to, Goes(r, from, to),
             from \in {"idle", "loginSalt", "loginHash", "failure", "success", "insert", "expired",
                       "renew", "handle", "verify"},
             to.at \in {"idle", "loginSalt", "loginHash", "failure", "success", "insert",
                        "expired", "renew", "handle", "verify", "newSalt"}
      PROVE  SaveInv'
  <2>1. from \notin WriterSteps /\ to.at \notin WriterSteps
    BY <1>2 DEF WriterSteps
  <2> QED BY <1>1, <1>2, <2>1, Bystander
<1>a. Idle.at = "idle"
  BY DEF Idle
<1>3. ASSUME NEW i \in IPs, NEW p \in Passwords, LoginArrives(r, i, p) PROVE SaveInv'
  BY <1>2, <1>3 DEF LoginArrives
<1>4. CASE LoginReadsSalt(r)
  BY <1>2, <1>4 DEF LoginReadsSalt
<1>5. CASE LoginCompares(r)
  BY <1>2, <1>5 DEF LoginCompares
<1>6. CASE recordFailedLogin(r) \/ InsertSession(r) \/ DropExpired(r) \/ HandleOther(r) \/ handleLogout(r)
  BY <1>2, <1>a, <1>6 DEF recordFailedLogin, InsertSession, DropExpired, HandleOther, handleLogout
<1>7. CASE recordSuccessfulLogin(r)
  BY <1>2, <1>7 DEF recordSuccessfulLogin
<1>8. ASSUME NEW s \in SessionIDs, RequestArrives(r, s) PROVE SaveInv'
  <2>1. [at |-> IF Expired(s, now) THEN "expired" ELSE "renew", sid |-> s].at \in {"expired", "renew"}
    OBVIOUS
  <2> QED BY <1>2, <1>8, <2>1 DEF RequestArrives
<1>9. CASE Renew(r)
  BY <1>2, <1>9 DEF Renew
<1>10. ASSUME NEW i \in IPs, handleSecurityUnlock(r, i) PROVE SaveInv'
  BY <1>2, <1>a, <1>10 DEF handleSecurityUnlock
<1>11. ASSUME NEW p \in Passwords, handleChangePassword(r, p) PROVE SaveInv'
  BY <1>2, <1>11 DEF handleChangePassword
<1>12. ASSUME NEW p \in Passwords, ChangeCompares(r, p) PROVE SaveInv'
  BY <1>2, <1>a, <1>12 DEF ChangeCompares
<1> QED BY <1>3, <1>4, <1>5, <1>6, <1>7, <1>8, <1>9, <1>10, <1>11, <1>12 DEF LoginStep

LEMMA NextSave ==
  ASSUME TypeInv, SaveInv, [Next]_vars
  PROVE  SaveInv'
<1>1. CASE Restart
  <2>1. UNCHANGED <<disk, promised, overlap>> /\ \A q \in Requests : req'[q].at = "idle"
    BY <1>1 DEF Restart, Idle
  <2>2. \A q \in Requests : ~IsWriter(q)' /\ WriterInv(q)'
    BY <2>1 DEF IsWriter, WriterInv, WriterSteps
  <2>3. ASSUME FileInv PROVE FileInv'
    <3>1. /\ UNCHANGED <<file, promised>>
          /\ Saved => file.hash[2] = file.salt
      BY <2>1, <2>3 DEF disk, FileInv
    <3>2. CASE Saved
      <4>1. passwordHash' = file.hash /\ passwordSalt' = file.salt
        BY <1>1, <3>2 DEF Restart
      <4> QED BY <2>3, <3>1, <3>2, <4>1 DEF FileInv, Saved
    <3>3. CASE ~Saved
      <4>1. passwordHash'[1] = ConfigPassword /\ passwordHash'[2] = passwordSalt'
        BY <1>1, <3>3 DEF Restart, hashPasswordWithSalt
      <4> QED BY <2>3, <3>1, <3>3, <4>1 DEF FileInv, Saved
    <3> QED BY <3>2, <3>3
  <2> QED BY <2>1, <2>2, <2>3 DEF SaveInv
<1>2. CASE CleanSessions \/ CleanLogins \/ Tick \/ UNCHANGED vars
  <2>1. UNCHANGED <<passwordSalt, passwordHash, file, tmp, promised, unsaved, overlap, req>>
    BY <1>2 DEF CleanSessions, CleanLogins, Tick, vars, password, disk, session
  <2> QED BY <2>1 DEF SaveInv, IsWriter, WriterInv, FileInv, Ahead, Saved
<1> QED BY <1>1, <1>2, RenameSave, SavesSave, ChangesSave, OthersSave DEF Next, RequestStep

-----------------------------------------------------------------------------
(* The theorems.                                                           *)

LEMMA InitIInv ==
  Init => IInv
<1> SUFFICES ASSUME Init PROVE IInv
  OBVIOUS
<1>1. TypeInv
  BY InitType
<1>2. \A q \in Requests : req[q].at = "idle"
  BY DEF Init, Idle
<1>3. LockInv
  BY DEF Init, LockInv
<1>4. SessionInv
  BY <1>2 DEF Init, SessionInv, OldSessionsRaced
<1>5. \A q \in Requests : ~IsWriter(q)
  BY <1>2 DEF IsWriter, WriterSteps
<1>6. \A q \in Requests : WriterInv(q)
  BY <1>5, AheadWrites
<1>7. FileInv
  <2>1. file = None /\ promised = None /\ ~Saved
    BY DEF Init, Saved
  <2>2. passwordHash[1] = ConfigPassword /\ passwordHash[2] = passwordSalt
    BY DEF Init, hashPasswordWithSalt
  <2> QED BY <2>1, <2>2, NoneAssumption DEF FileInv
<1> QED BY <1>1, <1>3, <1>4, <1>5, <1>6, <1>7 DEF IInv, SaveInv

LEMMA NextIInv ==
  IInv /\ [Next]_vars => IInv'
BY NextType, NextLock, NextSession, NextSave DEF IInv

LEMMA Invariance ==
  Spec => []IInv
BY InitIInv, NextIInv, PTL DEF Spec

\* The state keeps its type, whatever the requests do at once: the settings in
\* force are those that handleSecurity has clamped or the file has kept, and
\* recordFailedLogin counts no address up to the largest limit there can be.
THEOREM TypeCorrect == Spec => []TypeOK
<1>1. IInv => TypeOK
  BY DEF IInv, TypeInv
<1> QED BY <1>1, Invariance, PTL

\* handleLogin examines no login of an address before the latest end of a
\* lock that recordFailedLogin gave it, although later failures and
\* cleanupSessions rewrite its entry: only a login that was under way and
\* succeeds, the administrator or a restart lifts it, and only settings with
\* a shorter lock posted meanwhile shorten it.  The invariant that carries the
\* proof compares the end of the lock with the one that a failure would give
\* under the settings of now.
THEOREM LocksAreServed == Spec => LocksServed
<1>1. ASSUME IInv, [Next]_vars
      PROVE  \A r \in Requests :
               /\ req[r].at = "idle"
               /\ req'[r].at = "loginSalt"
               /\ req'[r].ip \notin eased
               => now >= lock[req'[r].ip]
  BY <1>1, ArrivalUnlocked DEF IInv
<1>2. IInv /\ [Next]_vars
        => [\A r \in Requests :
              /\ req[r].at = "idle"
              /\ req'[r].at = "loginSalt"
              /\ req'[r].ip \notin eased
              => now >= lock[req'[r].ip]]_vars
  BY <1>1
<1> QED BY <1>2, Invariance, PTL DEF Spec, LocksServed

\* After handleChangePassword has cleared the sessions, one that an earlier
\* password opened is alive only if a request was between its look at the
\* session, or at the password, and its write at that very moment.
THEOREM OldSessionsAreRaced == Spec => []OldSessionsRaced
<1>1. IInv => OldSessionsRaced
  BY DEF IInv, SessionInv
<1> QED BY <1>1, Invariance, PTL

\* Without two writers at once, hash and salt belong together in memory and
\* in the settings file, saveSettings leaves a file that can be read whenever
\* the process dies, and a restart finds the password in force unless the
\* disk has refused it.
THEOREM PasswordStaysIntact == Spec => []PasswordIntact
<1>1. IInv => PasswordIntact
  <2> SUFFICES ASSUME IInv, ~overlap PROVE PasswordIntact
    BY DEF PasswordIntact
  <2>1. FileInv
    BY DEF IInv, SaveInv
  <2>2. ASSUME Quiet
        PROVE  /\ passwordHash[2] = passwordSalt
               /\ ~unsaved => IF Saved THEN file.hash = passwordHash
                              ELSE passwordHash[1] = ConfigPassword
    <3>1. \A r \in Requests : ~IsWriter(r)
      BY <2>2 DEF Quiet, Writers, IsWriter, WriterSteps
    <3>2. \A r \in Requests : req[r].at # "newHash" /\ ~Ahead(r)
      BY <3>1, AheadWrites
    <3> QED BY <2>1, <3>2 DEF FileInv
  <2> QED BY <2>1, <2>2 DEF PasswordIntact, FileInv
<1> QED BY <1>1, Invariance, PTL
=============================================================================
