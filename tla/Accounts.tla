------------------------------ MODULE Accounts ------------------------------
(***************************************************************************)
(* Registration, login, unlocking and logout: one tab of a browser         *)
(* (src/static/js/auth.js, initChat and logout of chat.js), its            *)
(* localStorage, its cookie, and the server's accounts and device rows     *)
(* (src/app/auth.py).                                                      *)
(*                                                                         *)
(* What localStorage keeps is sealed with the password it was saved under  *)
(* and opens with no other.  handleRegister and handleLogin await every    *)
(* save and the server, so an attempt may stop between any two of its      *)
(* steps and leave what it has written.  A key pair is a number.           *)
(***************************************************************************)
EXTENDS Integers

CONSTANTS
    Username, Password,
    Absent,             \* null
    FaultKinds,         \* which of "close", "lose", "revoke", "expire" occur
    MaxKeys,            \* bound: key pairs generated
    MaxIds,             \* bound: device ids generated
    MaxFaults           \* bound: faults

ASSUME BoundAssumption == {MaxKeys, MaxIds, MaxFaults} \subseteq Nat

VARIABLES
    ident,      \* sim_identity: the private keys
    device,     \* sim_device_id
    user,       \* sim_user
    tmp,        \* sim_tmp_device_id, not sealed
    cookie,     \* sim_token
    tab,        \* what the tab shows
    attempt,    \* handleRegister or handleLogin in progress
    page,       \* currentUser, currentPassword and the keys of an unlocked page
    accounts,   \* users: their passwords
    rows,       \* device_keys
    keys, ids,  \* how many were generated
    faults

storage == <<ident, device, user, tmp>>
server == <<accounts, rows>>
counts == <<keys, ids>>
vars == <<storage, cookie, tab, attempt, page, server, counts, faults>>

----------------------------------------------------------------------------
Key == 1..MaxKeys
DeviceId == 1..MaxIds
Blob(S) == [pw: Password, value: S]
Cookie == [name: Username, id: DeviceId]
Page == [user: Username, pw: Password, key: Key]
Row == [user: Username, key: Key, active: BOOLEAN]
Attempt == [kind: {"register", "login"}, name: Username, pw: Password, key: Key,
            stage: {"keys", "post", "reply", "device", "user", "finish"}, ok: BOOLEAN]

OrAbsent(S) == S \cup {Absent}

\* null is none of the values it stands in for
ASSUME AbsentAssumption ==
    Absent \notin Password \cup DeviceId \cup Blob(Key) \cup Blob(DeviceId)
                \cup Blob(Username) \cup Cookie \cup Page \cup Row \cup Attempt

Seal(w, v) == [pw |-> w, value |-> v]
Opens(blob, w) == blob # Absent /\ blob.pw = w

\* get_current_user_and_device
Authorized ==
    /\ cookie # Absent
    /\ rows[cookie.id] # Absent
    /\ rows[cookie.id].user = cookie.name /\ rows[cookie.id].active

\* getOrCreateDeviceId
GetDeviceId == IF tmp # Absent THEN tmp ELSE ids + 1
TakeDeviceId ==
    /\ GetDeviceId \in DeviceId
    /\ tmp' = GetDeviceId
    /\ ids' = IF tmp = Absent THEN ids + 1 ELSE ids

Fault(kind) == kind \in FaultKinds /\ faults < MaxFaults /\ faults' = faults + 1
Stage(s) == attempt' = [attempt EXCEPT !.stage = s]
Reached(s) == attempt # Absent /\ attempt.stage = s

----------------------------------------------------------------------------
(* The login and registration pages *)

\* DOMContentLoaded sends a browser with keys and a valid cookie to /chat, which
\* sends one without keys to /login
Visit ==
    /\ tab = "closed"
    /\ tab' \in {"form", IF ident # Absent THEN "locked" ELSE "form"}
    /\ tab' = "form" => ident = Absent \/ ~Authorized
    /\ UNCHANGED <<storage, cookie, attempt, page, server, counts, faults>>

Generate(kind, n, w) ==
    /\ keys < MaxKeys /\ keys' = keys + 1
    /\ attempt' = [kind |-> kind, name |-> n, pw |-> w, key |-> keys + 1,
                   stage |-> "keys", ok |-> FALSE]

StartRegister(n, w) ==
    /\ tab = "form" /\ tab' = "busy"
    /\ Generate("register", n, w)
    /\ TakeDeviceId
    /\ UNCHANGED <<ident, device, user, cookie, page, server, faults>>

\* No keys on this browser: new ones are saved before the server is asked
StartLoginAnew(n, w) ==
    /\ tab = "form" /\ tab' = "busy"
    /\ ident = Absent
    /\ Generate("login", n, w)
    /\ UNCHANGED <<storage, cookie, page, server, ids, faults>>

\* The keys that are there must open
StartLogin(n, w) ==
    /\ tab = "form" /\ tab' = "busy"
    /\ Opens(ident, w)
    /\ attempt' = [kind |-> "login", name |-> n, pw |-> w, key |-> ident.value,
                   stage |-> "post", ok |-> FALSE]
    /\ TakeDeviceId
    /\ UNCHANGED <<ident, device, user, cookie, page, server, keys, faults>>

\* saveIdentityKeys; handleLogin takes the device id after it
SaveIdentityKeys ==
    /\ Reached("keys") /\ Stage("post")
    /\ ident' = Seal(attempt.pw, attempt.key)
    /\ TakeDeviceId
    /\ UNCHANGED <<device, user, cookie, tab, page, server, keys, faults>>

----------------------------------------------------------------------------
(* The server; device ids are unique among all rows, active or not *)

Free(d) == rows[d] = Absent
NewRow(d) == [rows EXCEPT ![d] = [user |-> attempt.name, key |-> attempt.key,
                                  active |-> TRUE]]
Answer(ok) == attempt' = [attempt EXCEPT !.stage = "reply", !.ok = ok]

Register ==
    LET n == attempt.name IN
    /\ Reached("post") /\ attempt.kind = "register"
    /\ IF accounts[n] = Absent /\ Free(tmp)
       THEN /\ accounts' = [accounts EXCEPT ![n] = attempt.pw]
            /\ rows' = NewRow(tmp) /\ Answer(TRUE)
       ELSE UNCHANGED server /\ Answer(FALSE)
    /\ UNCHANGED <<storage, cookie, tab, page, counts, faults>>

\* Mutant: the keys of a device that logs in again are not updated.
LoginKeepsKeys ==
    LET n == attempt.name
        known == ~Free(tmp) /\ rows[tmp].user = n /\ rows[tmp].active
    IN  /\ Reached("post") /\ attempt.kind = "login"
        /\ IF accounts[n] = attempt.pw /\ (known \/ Free(tmp))
           THEN rows' = (IF known THEN rows ELSE NewRow(tmp)) /\ Answer(TRUE)
           ELSE UNCHANGED rows /\ Answer(FALSE)
        /\ UNCHANGED <<storage, cookie, tab, page, accounts, counts, faults>>

\* A row of this user that is active is updated; a row of another user, or one that
\* was revoked, makes the insert fail
Login ==
    LET n == attempt.name
        known == ~Free(tmp) /\ rows[tmp].user = n /\ rows[tmp].active
    IN  /\ Reached("post") /\ attempt.kind = "login"
        /\ IF accounts[n] = attempt.pw /\ (known \/ Free(tmp))
           THEN rows' = NewRow(tmp) /\ Answer(TRUE)
           ELSE UNCHANGED rows /\ Answer(FALSE)
        /\ UNCHANGED <<storage, cookie, tab, page, accounts, counts, faults>>

RevokeDevice(d) ==
    /\ Fault("revoke")
    /\ ~Free(d) /\ rows[d].active
    /\ rows' = [rows EXCEPT ![d].active = FALSE]
    /\ UNCHANGED <<storage, cookie, tab, attempt, page, accounts, counts>>

----------------------------------------------------------------------------
(* The response *)

GiveUp == attempt' = Absent /\ tab' = "form"

Accepted ==
    /\ Reached("reply") /\ attempt.ok
    /\ cookie' = [name |-> attempt.name, id |-> tmp]
    /\ Stage("device")
    /\ UNCHANGED <<storage, tab, page, server, counts, faults>>

Refused ==
    /\ Reached("reply") /\ ~attempt.ok
    /\ GiveUp
    /\ UNCHANGED <<storage, cookie, page, server, counts, faults>>

LoseReply ==
    /\ Fault("lose")
    /\ Reached("reply")
    /\ GiveUp
    /\ UNCHANGED <<storage, cookie, page, server, counts>>

SaveDeviceId ==
    /\ Reached("device") /\ Stage("user")
    /\ device' = Seal(attempt.pw, tmp)
    /\ UNCHANGED <<ident, user, tmp, cookie, tab, page, server, counts, faults>>

SaveUser ==
    /\ Reached("user") /\ Stage("finish")
    /\ user' = Seal(attempt.pw, attempt.name)
    /\ UNCHANGED <<ident, device, tmp, cookie, tab, page, server, counts, faults>>

\* Settings saved, the temporary id removed, on to /chat
Finish ==
    /\ Reached("finish")
    /\ tmp' = Absent /\ attempt' = Absent /\ tab' = "locked"
    /\ UNCHANGED <<ident, device, user, cookie, page, server, counts, faults>>

----------------------------------------------------------------------------
(* The chat page *)

Enter(w, n) == tab' = "open" /\ page' = [user |-> n, pw |-> w, key |-> ident.value]

\* Mutant: what /me returned is stored as it came.
UnlockStoresCookie(w) ==
    /\ tab = "locked" /\ Opens(ident, w)
    /\ \/ Opens(user, w) /\ Enter(w, user.value) /\ UNCHANGED user
       \/ ~Opens(user, w) /\ Authorized
             /\ Enter(w, cookie.name) /\ user' = Seal(w, cookie)
       \/ ~Opens(user, w) /\ ~Authorized /\ tab' = "form" /\ UNCHANGED <<user, page>>
    /\ UNCHANGED <<ident, device, tmp, cookie, attempt, server, counts, faults>>

\* initChat; a user that does not open is fetched again by /me
Unlock(w) ==
    /\ tab = "locked" /\ Opens(ident, w)
    /\ \/ Opens(user, w) /\ Enter(w, user.value) /\ UNCHANGED user
       \/ ~Opens(user, w) /\ Authorized
             /\ Enter(w, cookie.name) /\ user' = Seal(w, cookie.name)
       \/ ~Opens(user, w) /\ ~Authorized /\ tab' = "form" /\ UNCHANGED <<user, page>>
    /\ UNCHANGED <<ident, device, tmp, cookie, attempt, server, counts, faults>>

Deactivated == [rows EXCEPT ![cookie.id].active = FALSE]

\* Mutant: the device id stays.
LogoutKeepsDeviceId ==
    /\ tab \in {"locked", "open"} /\ tab' = "form"
    /\ ident' = Absent /\ user' = Absent /\ tmp' = Absent /\ page' = Absent
    /\ \/ Authorized /\ rows' = Deactivated /\ cookie' = Absent /\ UNCHANGED faults
       \/ ~Authorized /\ UNCHANGED <<rows, cookie, faults>>
       \/ Fault("lose") /\ UNCHANGED <<rows, cookie>>
    /\ UNCHANGED <<device, attempt, accounts, counts>>

\* The request is not awaited, and may be lost when the page is left
Logout ==
    /\ tab \in {"locked", "open"} /\ tab' = "form"
    /\ ident' = Absent /\ device' = Absent /\ user' = Absent /\ tmp' = Absent
    /\ page' = Absent
    /\ \/ Authorized /\ rows' = Deactivated /\ cookie' = Absent /\ UNCHANGED faults
       \/ ~Authorized /\ UNCHANGED <<rows, cookie, faults>>
       \/ Fault("lose") /\ UNCHANGED <<rows, cookie>>
    /\ UNCHANGED <<attempt, accounts, counts>>

\* The tab is closed, in the middle of an attempt or between two
Close ==
    /\ tab # "closed" /\ tab' = "closed"
    /\ IF tab = "busy" THEN Fault("close") ELSE UNCHANGED faults
    /\ attempt' = Absent /\ page' = Absent
    /\ UNCHANGED <<storage, cookie, server, counts>>

\* Seven days later
ExpireCookie ==
    /\ Fault("expire")
    /\ tab = "closed" /\ cookie # Absent /\ cookie' = Absent
    /\ UNCHANGED <<storage, tab, attempt, page, server, counts>>

----------------------------------------------------------------------------
Init ==
    /\ ident = Absent /\ device = Absent /\ user = Absent /\ tmp = Absent
    /\ cookie = Absent /\ tab = "closed" /\ attempt = Absent /\ page = Absent
    /\ accounts = [n \in Username |-> Absent] /\ rows = [d \in DeviceId |-> Absent]
    /\ keys = 0 /\ ids = 0 /\ faults = 0

Next ==
    \/ Visit \/ Close \/ ExpireCookie \/ Logout
    \/ \E n \in Username, w \in Password :
          StartRegister(n, w) \/ StartLoginAnew(n, w) \/ StartLogin(n, w)
    \/ SaveIdentityKeys \/ Register \/ Login
    \/ Accepted \/ Refused \/ LoseReply
    \/ SaveDeviceId \/ SaveUser \/ Finish
    \/ \E w \in Password : Unlock(w)
    \/ \E d \in DeviceId : RevokeDevice(d)

Spec == Init /\ [][Next]_vars

----------------------------------------------------------------------------
(* Properties *)

\* Type invariant of the browser and the server.
TypeOK ==
    /\ ident \in OrAbsent(Blob(Key)) /\ device \in OrAbsent(Blob(DeviceId))
    /\ user \in OrAbsent(Blob(Username)) /\ tmp \in OrAbsent(DeviceId)
    /\ cookie \in OrAbsent(Cookie)
    /\ tab \in {"closed", "form", "busy", "locked", "open"}
    /\ attempt \in OrAbsent(Attempt) /\ page \in OrAbsent(Page)
    /\ accounts \in [Username -> OrAbsent(Password)]
    /\ rows \in [DeviceId -> OrAbsent(Row)]
    /\ keys \in 0..MaxKeys /\ ids \in 0..MaxIds /\ faults \in 0..MaxFaults

\* A registration or login that reaches its end leaves cookie, device id, user and
\* keys of one account, and the server publishes those keys for that device, whatever
\* attempts stopped, failed or lost their answer before it (auth.js:141-148 and
\* 243-250, auth.py:230-264).
LoginEndsInAgreement ==
    [][Finish => LET d == cookie.id IN
          /\ device = Seal(ident.pw, d) /\ user = Seal(ident.pw, cookie.name)
          /\ rows[d].user = cookie.name /\ rows[d].key = ident.value
          /\ accounts[cookie.name] = ident.pw]_vars

\* An unlocked page that can read its device id, and whose cookie the server takes for
\* that device, holds the private keys of the public ones its peers encrypt for
\* (auth.js:110 and 216, chat.js:55-86, chat.py:346-347).
PageHoldsPublishedKeys ==
    page # Absent /\ Authorized /\ device = Seal(page.pw, cookie.id)
        => rows[cookie.id].key = page.key
=============================================================================
