--------------------------- MODULE AccountsProofs ---------------------------
(***************************************************************************)
(* The properties of module Accounts, for any users, passwords and bounds. *)
(***************************************************************************)
EXTENDS Accounts, TLAPS

Late == {"device", "user", "finish"}

\* The tab runs an attempt, shows an unlocked page, or neither.
TabOK ==
    /\ (tab = "busy") <=> (attempt # Absent)
    /\ (tab = "open") <=> (page # Absent)
    /\ page # Absent => ident = Seal(page.pw, page.key)
    /\ ident = Absent => device = Absent

\* The server has a row for whatever a cookie or an accepted attempt names.
CookieOK ==
    cookie # Absent => rows[cookie.id] # Absent /\ rows[cookie.id].user = cookie.name

\* What an attempt has done when it has come to a stage.
Progress ==
    attempt # Absent =>
        /\ attempt.stage # "keys" => ident = Seal(attempt.pw, attempt.key) /\ tmp # Absent
        /\ attempt.stage \in Late \/ (attempt.stage = "reply" /\ attempt.ok) =>
              /\ rows[tmp] # Absent /\ rows[tmp].user = attempt.name
              /\ rows[tmp].key = attempt.key /\ accounts[attempt.name] = attempt.pw
        /\ attempt.stage \in Late => cookie = [name |-> attempt.name, id |-> tmp]
        /\ attempt.stage \in {"user", "finish"} => device = Seal(attempt.pw, tmp)
        /\ attempt.stage = "finish" => user = Seal(attempt.pw, attempt.name)

\* The browser's own device is the one its cookie is for.  Only a browser whose
\* keys are the published ones gets there, and no attempt may replace its keys.
Match == Authorized /\ device # Absent /\ device.value = cookie.id
KeysMatch ==
    Match => /\ ident # Absent /\ rows[cookie.id].key = ident.value
             /\ tab # "form"
             /\ attempt # Absent => attempt.stage \in Late

IInv == TypeOK /\ TabOK /\ CookieOK /\ Progress /\ KeysMatch

\* A fresh browser and an empty server satisfy the invariant.
LEMMA InitIInv == Init => IInv
BY BoundAssumption, AbsentAssumption
   DEF Init, IInv, TypeOK, TabOK, CookieOK, Progress, KeysMatch, Match, Authorized,
       OrAbsent, DeviceId

Stages == {"keys", "post", "reply", "device", "user", "finish"}

\* An attempt in progress, and what a change of its stage leaves alone.
LEMMA AttemptStaged ==
    ASSUME TypeOK, attempt # Absent, NEW s \in Stages, Stage(s)
    PROVE  /\ attempt \in Attempt /\ attempt' \in Attempt /\ attempt' # Absent
           /\ attempt'.stage = s /\ attempt'.name = attempt.name
           /\ attempt'.pw = attempt.pw /\ attempt'.key = attempt.key
           /\ attempt'.ok = attempt.ok
<1>1. attempt \in Attempt
  BY DEF TypeOK, OrAbsent
<1>2. attempt' \in Attempt
  BY <1>1 DEF Stage, Stages, Attempt
<1> QED
  BY <1>1, <1>2, AbsentAssumption DEF Stage, Attempt

LEMMA AttemptAnswered ==
    ASSUME TypeOK, attempt # Absent, NEW b \in BOOLEAN, Answer(b)
    PROVE  /\ attempt \in Attempt /\ attempt' \in Attempt /\ attempt' # Absent
           /\ attempt'.stage = "reply" /\ attempt'.name = attempt.name
           /\ attempt'.pw = attempt.pw /\ attempt'.key = attempt.key
           /\ attempt'.ok = b
<1>1. attempt \in Attempt
  BY DEF TypeOK, OrAbsent
<1>2. attempt' \in Attempt
  BY <1>1 DEF Answer, Attempt
<1> QED
  BY <1>1, <1>2, AbsentAssumption DEF Answer, Attempt

\* The row an attempt writes, and the rows it does not.
LEMMA RowWritten ==
    ASSUME TypeOK, attempt \in Attempt, tmp \in DeviceId
    PROVE  /\ NewRow(tmp) \in [DeviceId -> OrAbsent(Row)]
           /\ NewRow(tmp)[tmp] # Absent
           /\ NewRow(tmp)[tmp].user = attempt.name /\ NewRow(tmp)[tmp].key = attempt.key
           /\ NewRow(tmp)[tmp].active
           /\ \A d \in DeviceId \ {tmp} : NewRow(tmp)[d] = rows[d]
<1> DEFINE r == [user |-> attempt.name, key |-> attempt.key, active |-> TRUE]
<1>1. r \in Row
  BY DEF Attempt, Row
<1>2. r # Absent
  BY <1>1, AbsentAssumption
<1>3. r.user = attempt.name /\ r.key = attempt.key /\ r.active
  OBVIOUS
<1>4. NewRow(tmp) = [rows EXCEPT ![tmp] = r]
  BY DEF NewRow
<1>5. rows \in [DeviceId -> OrAbsent(Row)]
  BY DEF TypeOK
<1> HIDE DEF r
<1> QED
  BY <1>1, <1>2, <1>3, <1>4, <1>5 DEF OrAbsent

\* Revoking a device keeps its user and key.
LEMMA RowRevoked ==
    ASSUME TypeOK, NEW d \in DeviceId, rows[d] # Absent
    PROVE  LET R == [rows EXCEPT ![d].active = FALSE] IN
           /\ R \in [DeviceId -> OrAbsent(Row)]
           /\ R[d] # Absent /\ ~R[d].active
           /\ R[d].user = rows[d].user /\ R[d].key = rows[d].key
           /\ \A e \in DeviceId \ {d} : R[e] = rows[e]
<1> DEFINE r == [rows[d] EXCEPT !.active = FALSE]
<1>1. rows[d] \in Row
  BY DEF TypeOK, OrAbsent
<1>2. r \in Row /\ r.user = rows[d].user /\ r.key = rows[d].key /\ ~r.active
  BY <1>1 DEF Row
<1>3. r # Absent
  BY <1>2, AbsentAssumption
<1>4. [rows EXCEPT ![d].active = FALSE] = [rows EXCEPT ![d] = r]
  OBVIOUS
<1>5. rows \in [DeviceId -> OrAbsent(Row)]
  BY DEF TypeOK
<1> HIDE DEF r
<1> QED
  BY <1>2, <1>3, <1>4, <1>5 DEF OrAbsent

\* What is sealed is there, and opens.
LEMMA SealedPresent ==
    ASSUME NEW w \in Password, NEW S, NEW v \in S, Absent \notin Blob(S)
    PROVE  /\ Seal(w, v) \in Blob(S) /\ Seal(w, v) # Absent
           /\ Seal(w, v).pw = w /\ Seal(w, v).value = v
<1>1. Seal(w, v) \in Blob(S)
  BY DEF Seal, Blob
<1> QED
  BY <1>1 DEF Seal

LEMMA Opened ==
    ASSUME NEW S, NEW w \in Password, NEW b \in OrAbsent(Blob(S)), Opens(b, w)
    PROVE  b \in Blob(S) /\ b # Absent /\ b.value \in S /\ b = Seal(w, b.value)
BY DEF Opens, OrAbsent, Blob, Seal

LEMMA Generated ==
    ASSUME TypeOK, NEW kind \in {"register", "login"}, NEW n \in Username,
           NEW w \in Password, Generate(kind, n, w)
    PROVE  /\ attempt' \in Attempt /\ attempt' # Absent /\ attempt'.stage = "keys"
           /\ keys' \in 0..MaxKeys
<1>1. keys + 1 \in Key /\ keys' \in 0..MaxKeys
  BY BoundAssumption DEF TypeOK, Key, Generate
<1>2. attempt' \in Attempt /\ attempt'.stage = "keys"
  BY <1>1 DEF Generate, Attempt
<1> QED
  BY <1>1, <1>2, AbsentAssumption

\* The two answers to a registration or a login.
LEMMA RefusalKeeps ==
    ASSUME IInv, Reached("post"), Answer(FALSE),
           UNCHANGED <<storage, cookie, tab, page, server, counts, faults>>
    PROVE  IInv'
<1>0. TypeOK /\ TabOK /\ CookieOK /\ Progress /\ KeysMatch
  BY DEF IInv
<1>a. /\ attempt \in Attempt /\ attempt' \in Attempt /\ attempt' # Absent
      /\ attempt # Absent /\ attempt.stage = "post"
      /\ attempt'.stage = "reply" /\ attempt'.name = attempt.name
      /\ attempt'.pw = attempt.pw /\ attempt'.key = attempt.key
      /\ attempt'.ok = FALSE
  BY <1>0, AttemptAnswered DEF Reached
<1>1. TypeOK'
  BY <1>0, <1>a DEF TypeOK, OrAbsent, storage, server, counts
<1>2. TabOK' /\ CookieOK'
  BY <1>0, <1>a DEF TabOK, CookieOK, storage, server, counts
<1>3. Progress'
  BY <1>0, <1>a DEF Progress, Late, storage
<1>4. KeysMatch'
  BY <1>0, <1>a DEF KeysMatch, Match, Authorized, Late, storage, server
<1> QED
  BY <1>1, <1>2, <1>3, <1>4 DEF IInv

LEMMA AcceptanceKeeps ==
    ASSUME IInv, Reached("post"), Answer(TRUE), rows' = NewRow(tmp),
           accounts' \in [Username -> OrAbsent(Password)],
           accounts'[attempt.name] = attempt.pw,
           Free(tmp) \/ (rows[tmp].user = attempt.name /\ rows[tmp].active),
           UNCHANGED <<storage, cookie, tab, page, counts, faults>>
    PROVE  IInv'
<1>0. TypeOK /\ TabOK /\ CookieOK /\ Progress /\ KeysMatch
  BY DEF IInv
<1>a. /\ attempt \in Attempt /\ attempt' \in Attempt /\ attempt' # Absent
      /\ attempt # Absent /\ attempt.stage = "post"
      /\ attempt'.stage = "reply" /\ attempt'.name = attempt.name
      /\ attempt'.pw = attempt.pw /\ attempt'.key = attempt.key
      /\ attempt'.ok = TRUE
  BY <1>0, AttemptAnswered DEF Reached
<1>b. /\ tmp # Absent /\ tmp \in DeviceId
      /\ ident = Seal(attempt.pw, attempt.key)
  BY <1>0, <1>a DEF TypeOK, Progress, OrAbsent
<1>c. /\ rows' \in [DeviceId -> OrAbsent(Row)] /\ rows'[tmp] # Absent
      /\ rows'[tmp].user = attempt.name /\ rows'[tmp].key = attempt.key
      /\ \A d \in DeviceId \ {tmp} : rows'[d] = rows[d]
  BY <1>0, <1>a, <1>b, RowWritten
<1>d. cookie # Absent => cookie.id \in DeviceId
  BY <1>0 DEF TypeOK, OrAbsent, Cookie
<1>1. TypeOK'
  BY <1>0, <1>a, <1>c DEF TypeOK, OrAbsent, storage, counts
<1>2. TabOK'
  BY <1>0, <1>a DEF TabOK, storage
<1>3. CookieOK'
  BY <1>0, <1>c, <1>d DEF CookieOK, Free
<1>4. Progress'
  BY <1>0, <1>a, <1>c DEF Progress, Late, storage
<1>5. ~Match'
  <2>1. ~Match
    BY <1>0, <1>a DEF KeysMatch, Late
  <2>2. CASE cookie = Absent
    BY <2>2 DEF Match, Authorized
  <2>3. CASE cookie # Absent /\ cookie.id # tmp
    BY <1>c, <1>d, <2>1, <2>3 DEF Match, Authorized, storage
  <2>4. CASE cookie # Absent /\ cookie.id = tmp
    BY <1>0, <2>1, <2>4 DEF CookieOK, Match, Authorized, Free, storage
  <2> QED
    BY <2>2, <2>3, <2>4
<1>6. KeysMatch'
  BY <1>5 DEF KeysMatch
<1> QED
  BY <1>1, <1>2, <1>3, <1>4, <1>6 DEF IInv

LEMMA VisitKeeps ==
    ASSUME IInv, Visit PROVE IInv'
<1>0. TypeOK /\ TabOK /\ CookieOK /\ Progress /\ KeysMatch
  BY DEF IInv
<1>1. TypeOK'
  BY <1>0 DEF TypeOK, Visit, storage, server, counts
<1>2. TabOK'
  BY <1>0 DEF TabOK, Visit, storage
<1>3. CookieOK'
  BY <1>0 DEF CookieOK, Visit, server
<1>4. Progress'
  BY <1>0 DEF Progress, TabOK, Visit
<1>5. KeysMatch'
  BY <1>0 DEF KeysMatch, Match, Authorized, Visit, storage, server
<1> QED
  BY <1>1, <1>2, <1>3, <1>4, <1>5 DEF IInv

LEMMA CloseKeeps ==
    ASSUME IInv, Close PROVE IInv'
<1>0. TypeOK /\ TabOK /\ CookieOK /\ Progress /\ KeysMatch
  BY DEF IInv
<1>1. TypeOK'
  BY <1>0, BoundAssumption
     DEF TypeOK, OrAbsent, Close, Fault, storage, server, counts
<1>2. TabOK'
  BY <1>0 DEF TabOK, Close, storage
<1>3. CookieOK'
  BY <1>0 DEF CookieOK, Close, server
<1>4. Progress'
  BY <1>0 DEF Progress, Close
<1>5. KeysMatch'
  BY <1>0 DEF KeysMatch, Match, Authorized, Close, storage, server
<1> QED
  BY <1>1, <1>2, <1>3, <1>4, <1>5 DEF IInv

LEMMA ExpireCookieKeeps ==
    ASSUME IInv, ExpireCookie PROVE IInv'
<1>0. TypeOK /\ TabOK /\ CookieOK /\ Progress /\ KeysMatch
  BY DEF IInv
<1>1. TypeOK'
  BY <1>0, BoundAssumption
     DEF TypeOK, OrAbsent, ExpireCookie, Fault, storage, server, counts
<1>2. TabOK'
  BY <1>0 DEF TabOK, ExpireCookie, storage
<1>3. CookieOK'
  BY <1>0 DEF CookieOK, ExpireCookie
<1>4. Progress'
  BY <1>0 DEF Progress, TabOK, ExpireCookie
<1>5. KeysMatch'
  BY <1>0 DEF KeysMatch, Match, Authorized, ExpireCookie
<1> QED
  BY <1>1, <1>2, <1>3, <1>4, <1>5 DEF IInv

LEMMA StartRegisterKeeps ==
    ASSUME IInv, NEW n \in Username, NEW w \in Password, StartRegister(n, w) PROVE IInv'
<1>0. TypeOK /\ TabOK /\ CookieOK /\ Progress /\ KeysMatch
  BY DEF IInv
<1>a. attempt' \in Attempt /\ attempt' # Absent
      /\ attempt'.stage = "keys" /\ keys' \in 0..MaxKeys
  BY <1>0, Generated DEF StartRegister
<1>1. TypeOK'
  BY <1>0, <1>a
     DEF TypeOK, OrAbsent, DeviceId, StartRegister, TakeDeviceId, GetDeviceId,
         server
<1>2. TabOK'
  BY <1>0, <1>a DEF TabOK, StartRegister
<1>3. CookieOK'
  BY <1>0 DEF CookieOK, StartRegister, server
<1>4. Progress'
  BY <1>0 DEF Progress, Late, StartRegister, Generate
<1>5. KeysMatch'
  BY <1>0 DEF KeysMatch, Match, Authorized, Progress, StartRegister, server
<1> QED
  BY <1>1, <1>2, <1>3, <1>4, <1>5 DEF IInv

LEMMA StartLoginAnewKeeps ==
    ASSUME IInv, NEW n \in Username, NEW w \in Password, StartLoginAnew(n, w) PROVE IInv'
<1>0. TypeOK /\ TabOK /\ CookieOK /\ Progress /\ KeysMatch
  BY DEF IInv
<1>a. attempt' \in Attempt /\ attempt' # Absent
      /\ attempt'.stage = "keys" /\ keys' \in 0..MaxKeys
  BY <1>0, Generated DEF StartLoginAnew
<1>1. TypeOK'
  BY <1>0, <1>a DEF TypeOK, OrAbsent, StartLoginAnew, storage, server
<1>2. TabOK'
  BY <1>0, <1>a DEF TabOK, StartLoginAnew, storage
<1>3. CookieOK'
  BY <1>0 DEF CookieOK, StartLoginAnew, server
<1>4. Progress'
  BY <1>0 DEF Progress, Late, StartLoginAnew, Generate
<1>5. KeysMatch'
  BY <1>0 DEF KeysMatch, Match, TabOK, StartLoginAnew, storage
<1> QED
  BY <1>1, <1>2, <1>3, <1>4, <1>5 DEF IInv

LEMMA StartLoginKeeps ==
    ASSUME IInv, NEW n \in Username, NEW w \in Password, StartLogin(n, w) PROVE IInv'
<1>0. TypeOK /\ TabOK /\ CookieOK /\ Progress /\ KeysMatch
  BY DEF IInv
<1>b. /\ ident \in Blob(Key) /\ ident # Absent /\ ident.value \in Key
      /\ ident = Seal(w, ident.value)
  BY <1>0, Opened DEF StartLogin, TypeOK
<1>a. /\ attempt' \in Attempt /\ attempt'.stage = "post"
      /\ attempt'.pw = w /\ attempt'.key = ident.value
  BY <1>b DEF StartLogin, Attempt
<1>c. attempt' # Absent
  BY <1>a, AbsentAssumption
<1>d. tmp' \in DeviceId /\ tmp' # Absent
  BY AbsentAssumption DEF StartLogin, TakeDeviceId
<1>1. TypeOK'
  BY <1>0
     DEF TypeOK, OrAbsent, DeviceId, Blob, Page, Row, Attempt, StartLogin, Opens,
         TakeDeviceId, GetDeviceId, server
<1>2. TabOK'
  BY <1>0, <1>c DEF TabOK, StartLogin
<1>3. CookieOK'
  BY <1>0 DEF CookieOK, StartLogin, server
<1>4. Progress'
  BY <1>0, <1>b, <1>d DEF Progress, Late, StartLogin
<1>5. KeysMatch'
  BY <1>0
     DEF KeysMatch, Match, Authorized, Progress, CookieOK, Late, Seal, StartLogin,
         server
<1> QED
  BY <1>1, <1>2, <1>3, <1>4, <1>5 DEF IInv

LEMMA SaveIdentityKeysKeeps ==
    ASSUME IInv, SaveIdentityKeys PROVE IInv'
<1>0. TypeOK /\ TabOK /\ CookieOK /\ Progress /\ KeysMatch
  BY DEF IInv
<1>a. /\ attempt \in Attempt /\ attempt' \in Attempt /\ attempt' # Absent
      /\ attempt'.stage = "post" /\ attempt'.name = attempt.name
      /\ attempt'.pw = attempt.pw /\ attempt'.key = attempt.key
      /\ attempt'.ok = attempt.ok
  BY <1>0, AttemptStaged DEF SaveIdentityKeys, Reached, Stages
<1>b. Seal(attempt.pw, attempt.key) \in Blob(Key) /\ Seal(attempt.pw, attempt.key) # Absent
  BY <1>a, SealedPresent, AbsentAssumption DEF Attempt
<1>1. TypeOK'
  BY <1>0, <1>a
     DEF TypeOK, OrAbsent, DeviceId, Blob, Page, Row, Attempt, SaveIdentityKeys,
         TakeDeviceId, GetDeviceId, Seal, server
<1>2. TabOK'
  BY <1>0, <1>a, <1>b DEF TabOK, SaveIdentityKeys, Reached
<1>3. CookieOK'
  BY <1>0 DEF CookieOK, SaveIdentityKeys, server
<1>4. Progress'
  BY <1>0, <1>a, AbsentAssumption DEF Progress, Late, SaveIdentityKeys, TakeDeviceId
<1>5. KeysMatch'
  BY <1>0
     DEF KeysMatch, Match, Authorized, Progress, CookieOK, Late, SaveIdentityKeys,
         Reached, server
<1> QED
  BY <1>1, <1>2, <1>3, <1>4, <1>5 DEF IInv

LEMMA RegisterKeeps ==
    ASSUME IInv, Register PROVE IInv'
<1> DEFINE ok == accounts[attempt.name] = Absent /\ Free(tmp)
<1>1. attempt \in Attempt /\ accounts \in [Username -> OrAbsent(Password)]
  BY DEF IInv, TypeOK, OrAbsent, Register, Reached
<1>2. CASE ok
  <2>1. /\ accounts' \in [Username -> OrAbsent(Password)]
        /\ accounts'[attempt.name] = attempt.pw
    BY <1>1, <1>2 DEF Register, Attempt, OrAbsent
  <2> QED
    BY <1>2, <2>1, AcceptanceKeeps DEF Register
<1>3. CASE ~ok
  BY <1>3, RefusalKeeps DEF Register
<1> QED
  BY <1>2, <1>3

LEMMA LoginKeeps ==
    ASSUME IInv, Login PROVE IInv'
<1> DEFINE known == ~Free(tmp) /\ rows[tmp].user = attempt.name /\ rows[tmp].active
           ok == accounts[attempt.name] = attempt.pw /\ (known \/ Free(tmp))
<1>1. CASE ok
  <2>1. accounts' \in [Username -> OrAbsent(Password)]
    BY DEF IInv, TypeOK, Login
  <2> QED
    BY <1>1, <2>1, AcceptanceKeeps DEF Login
<1>2. CASE ~ok
  BY <1>2, RefusalKeeps DEF Login, server
<1> QED
  BY <1>1, <1>2

LEMMA RevokeDeviceKeeps ==
    ASSUME IInv, NEW d \in DeviceId, RevokeDevice(d) PROVE IInv'
<1>0. TypeOK /\ TabOK /\ CookieOK /\ Progress /\ KeysMatch
  BY DEF IInv
<1>a. /\ rows' \in [DeviceId -> OrAbsent(Row)] /\ rows'[d] # Absent
      /\ ~rows'[d].active /\ rows'[d].user = rows[d].user /\ rows'[d].key = rows[d].key
      /\ \A e \in DeviceId \ {d} : rows'[e] = rows[e]
  BY <1>0, RowRevoked DEF RevokeDevice, Free
<1>b. /\ tmp # Absent => tmp \in DeviceId
      /\ cookie # Absent => cookie.id \in DeviceId
  BY <1>0 DEF TypeOK, OrAbsent, Cookie
<1>1. TypeOK'
  BY <1>0, <1>a, BoundAssumption
     DEF TypeOK, Page, RevokeDevice, Fault, storage, counts
<1>2. TabOK'
  BY <1>0 DEF TabOK, RevokeDevice, storage
<1>3. CookieOK'
  BY <1>0, <1>a DEF CookieOK, RevokeDevice
<1>4. Progress'
  BY <1>0, <1>a DEF Progress, RevokeDevice, storage
<1>5. KeysMatch'
  BY <1>0 DEF KeysMatch, Match, Authorized, Progress, RevokeDevice, storage
<1> QED
  BY <1>1, <1>2, <1>3, <1>4, <1>5 DEF IInv

LEMMA AcceptedKeeps ==
    ASSUME IInv, Accepted PROVE IInv'
<1>0. TypeOK /\ TabOK /\ CookieOK /\ Progress /\ KeysMatch
  BY DEF IInv
<1>a. /\ attempt \in Attempt /\ attempt' \in Attempt /\ attempt' # Absent
      /\ attempt'.stage = "device" /\ attempt'.name = attempt.name
      /\ attempt'.pw = attempt.pw /\ attempt'.key = attempt.key
      /\ attempt'.ok = attempt.ok
  BY <1>0, AttemptStaged DEF Accepted, Reached, Stages
<1>b. tmp # Absent /\ tmp \in DeviceId
  BY <1>0, <1>a DEF Accepted, Reached, TypeOK, Progress, OrAbsent
<1>c. cookie' \in Cookie
  BY <1>a, <1>b DEF Accepted, Cookie, Attempt
<1>1. TypeOK'
  BY <1>0, <1>a, <1>b
     DEF TypeOK, OrAbsent, Cookie, Attempt, Accepted, storage, server, counts
<1>2. TabOK'
  BY <1>0, <1>a DEF TabOK, Accepted, Reached, storage
<1>3. CookieOK'
  BY <1>0 DEF CookieOK, Progress, Accepted, Reached, server
<1>4. Progress'
  BY <1>0, <1>a DEF Progress, Accepted, Reached, storage, server
<1>5. KeysMatch'
  BY <1>0, <1>a
     DEF KeysMatch, Match, TabOK, Progress, Late, Seal, Accepted, Reached, storage,
         server
<1> QED
  BY <1>1, <1>2, <1>3, <1>4, <1>5 DEF IInv

LEMMA RefusedKeeps ==
    ASSUME IInv, Refused PROVE IInv'
<1>0. TypeOK /\ TabOK /\ CookieOK /\ Progress /\ KeysMatch
  BY DEF IInv
<1>1. TypeOK'
  BY <1>0 DEF TypeOK, OrAbsent, Refused, GiveUp, storage, server, counts
<1>2. TabOK'
  BY <1>0 DEF TabOK, Refused, Reached, GiveUp, storage
<1>3. CookieOK'
  BY <1>0 DEF CookieOK, Refused, server
<1>4. Progress'
  BY <1>0 DEF Progress, Refused, GiveUp
<1>5. KeysMatch'
  BY <1>0 DEF KeysMatch, Match, Authorized, Late, Refused, Reached, storage, server
<1> QED
  BY <1>1, <1>2, <1>3, <1>4, <1>5 DEF IInv

LEMMA LoseReplyKeeps ==
    ASSUME IInv, LoseReply PROVE IInv'
<1>0. TypeOK /\ TabOK /\ CookieOK /\ Progress /\ KeysMatch
  BY DEF IInv
<1>1. TypeOK'
  BY <1>0, BoundAssumption
     DEF TypeOK, OrAbsent, LoseReply, Fault, GiveUp, storage, server, counts
<1>2. TabOK'
  BY <1>0 DEF TabOK, LoseReply, Reached, GiveUp, storage
<1>3. CookieOK'
  BY <1>0 DEF CookieOK, LoseReply, server
<1>4. Progress'
  BY <1>0 DEF Progress, LoseReply, GiveUp
<1>5. KeysMatch'
  BY <1>0
     DEF KeysMatch, Match, Authorized, Late, LoseReply, Reached, storage, server
<1> QED
  BY <1>1, <1>2, <1>3, <1>4, <1>5 DEF IInv

LEMMA SaveDeviceIdKeeps ==
    ASSUME IInv, SaveDeviceId PROVE IInv'
<1>0. TypeOK /\ TabOK /\ CookieOK /\ Progress /\ KeysMatch
  BY DEF IInv
<1>a. /\ attempt \in Attempt /\ attempt' \in Attempt /\ attempt' # Absent
      /\ attempt'.stage = "user" /\ attempt'.name = attempt.name
      /\ attempt'.pw = attempt.pw /\ attempt'.key = attempt.key
      /\ attempt'.ok = attempt.ok
  BY <1>0, AttemptStaged DEF SaveDeviceId, Reached, Stages
<1>b. /\ tmp # Absent /\ tmp \in DeviceId /\ ident = Seal(attempt.pw, attempt.key)
      /\ cookie = [name |-> attempt.name, id |-> tmp]
      /\ rows[tmp].key = attempt.key
  BY <1>0, <1>a DEF SaveDeviceId, Reached, TypeOK, Progress, OrAbsent, Late
<1>c. /\ Seal(attempt.pw, attempt.key) # Absent
      /\ Seal(attempt.pw, attempt.key).value = attempt.key
  BY <1>a, SealedPresent, AbsentAssumption DEF Attempt
<1>d. /\ Seal(attempt.pw, tmp) # Absent /\ Seal(attempt.pw, tmp) \in Blob(DeviceId)
  BY <1>a, <1>b, SealedPresent, AbsentAssumption DEF Attempt
<1>1. TypeOK'
  BY <1>0, <1>a, <1>b
     DEF TypeOK, OrAbsent, Blob, Page, Row, Attempt, SaveDeviceId, Seal, server,
         counts
<1>2. TabOK'
  BY <1>0, <1>a, <1>b, <1>c DEF TabOK, SaveDeviceId, Reached
<1>3. CookieOK'
  BY <1>0 DEF CookieOK, SaveDeviceId, server
<1>4. Progress'
  BY <1>0, <1>a DEF Progress, Late, SaveDeviceId, Reached, server
<1>5. KeysMatch'
  BY <1>0, <1>a, <1>c
     DEF KeysMatch, TabOK, Progress, CookieOK, Late, SaveDeviceId, Reached, server
<1> QED
  BY <1>1, <1>2, <1>3, <1>4, <1>5 DEF IInv

LEMMA SaveUserKeeps ==
    ASSUME IInv, SaveUser PROVE IInv'
<1>0. TypeOK /\ TabOK /\ CookieOK /\ Progress /\ KeysMatch
  BY DEF IInv
<1>a. /\ attempt \in Attempt /\ attempt' \in Attempt /\ attempt' # Absent
      /\ attempt'.stage = "finish" /\ attempt'.name = attempt.name
      /\ attempt'.pw = attempt.pw /\ attempt'.key = attempt.key
      /\ attempt'.ok = attempt.ok
  BY <1>0, AttemptStaged DEF SaveUser, Reached, Stages
<1>1. TypeOK'
  BY <1>0, <1>a DEF TypeOK, OrAbsent, Blob, Attempt, SaveUser, Seal, server, counts
<1>2. TabOK'
  BY <1>0, <1>a DEF TabOK, SaveUser, Reached
<1>3. CookieOK'
  BY <1>0 DEF CookieOK, SaveUser, server
<1>4. Progress'
  BY <1>0, <1>a DEF Progress, Late, SaveUser, Reached, server
<1>5. KeysMatch'
  BY <1>0, <1>a DEF KeysMatch, Match, Authorized, Late, SaveUser, server
<1> QED
  BY <1>1, <1>2, <1>3, <1>4, <1>5 DEF IInv

LEMMA FinishKeeps ==
    ASSUME IInv, Finish PROVE IInv'
<1>0. TypeOK /\ TabOK /\ CookieOK /\ Progress /\ KeysMatch
  BY DEF IInv
<1>1. TypeOK'
  BY <1>0 DEF TypeOK, OrAbsent, Finish, server, counts
<1>2. TabOK'
  BY <1>0 DEF TabOK, Finish, Reached
<1>3. CookieOK'
  BY <1>0 DEF CookieOK, Finish, server
<1>4. Progress'
  BY <1>0 DEF Progress, Finish
<1>5. KeysMatch'
  BY <1>0 DEF KeysMatch, Match, Authorized, Finish, server
<1> QED
  BY <1>1, <1>2, <1>3, <1>4, <1>5 DEF IInv

LEMMA UnlockKeeps ==
    ASSUME IInv, NEW w \in Password, Unlock(w) PROVE IInv'
<1>0. TypeOK /\ TabOK /\ CookieOK /\ Progress /\ KeysMatch
  BY DEF IInv
<1>a. /\ ident \in Blob(Key) /\ ident # Absent /\ ident.value \in Key
      /\ ident = Seal(w, ident.value)
  BY <1>0, Opened DEF Unlock, TypeOK
<1>b. ASSUME NEW n \in Username, Enter(w, n)
      PROVE  /\ page' \in Page /\ page' # Absent
             /\ page'.pw = w /\ page'.key = ident.value
  BY <1>a, <1>b, AbsentAssumption DEF Enter, Page
<1>1. TypeOK'
  BY <1>0
     DEF TypeOK, OrAbsent, Blob, Cookie, Page, Row, Unlock, Opens, Enter, Seal,
         Authorized, server, counts
<1>2. TabOK'
  <2>1. tab = "locked" /\ page = Absent /\ attempt = Absent
    BY <1>0 DEF Unlock, TabOK
  <2>2. CASE UNCHANGED page /\ tab' = "form"
    BY <1>0, <2>1, <2>2 DEF Unlock, TabOK
  <2>3. ASSUME NEW n \in Username, Enter(w, n)
        PROVE  TabOK'
    <3>1. tab' = "open" /\ page' # Absent /\ ident' = Seal(page'.pw, page'.key)
      BY <1>a, <1>b, <2>3 DEF Enter, Unlock
    <3> QED
      BY <1>a, <2>1, <3>1 DEF Unlock, TabOK
  <2>4. Opens(user, w) => user.value \in Username
    BY <1>0, Opened DEF TypeOK
  <2>5. Authorized => cookie.name \in Username
    BY <1>0 DEF TypeOK, OrAbsent, Authorized, Cookie
  <2> QED
    BY <2>2, <2>3, <2>4, <2>5 DEF Unlock
<1>3. CookieOK'
  BY <1>0 DEF CookieOK, Unlock, server
<1>4. Progress'
  BY <1>0 DEF Progress, TabOK, Unlock
<1>5. KeysMatch'
  BY <1>0 DEF KeysMatch, Match, Authorized, Progress, Unlock, Enter, server
<1> QED
  BY <1>1, <1>2, <1>3, <1>4, <1>5 DEF IInv

LEMMA LogoutKeeps ==
    ASSUME IInv, Logout PROVE IInv'
<1>0. TypeOK /\ TabOK /\ CookieOK /\ Progress /\ KeysMatch
  BY DEF IInv
<1>a. rows' \in [DeviceId -> OrAbsent(Row)] 
  <2>1. CASE Authorized /\ rows' = Deactivated
    <3>1. cookie.id \in DeviceId
      BY <1>0, <2>1 DEF TypeOK, OrAbsent, Cookie, Authorized
    <3> QED
      BY <1>0, <2>1, <3>1, RowRevoked DEF Authorized, Deactivated
  <2>2. CASE UNCHANGED rows
    BY <1>0, <2>2 DEF TypeOK
  <2> QED
    BY <2>1, <2>2 DEF Logout
<1>b. attempt = Absent
  BY <1>0 DEF TabOK, Logout
<1>1. TypeOK'
  BY <1>0, <1>a, BoundAssumption
     DEF TypeOK, OrAbsent, Page, Row, Logout, Fault, counts
<1>2. TabOK'
  BY <1>0 DEF TabOK, Logout
<1>3. CookieOK'
  BY <1>0 DEF CookieOK, Logout
<1>4. Progress'
  BY <1>0 DEF Progress, TabOK, Logout
<1>5. KeysMatch'
  BY <1>0 DEF KeysMatch, Match, Progress, Logout
<1> QED
  BY <1>1, <1>2, <1>3, <1>4, <1>5 DEF IInv

LEMMA StepKeeps ==
    ASSUME IInv, [Next]_vars PROVE IInv'
<1>1. CASE UNCHANGED vars
  BY <1>1 DEF IInv, TypeOK, TabOK, CookieOK, Progress, KeysMatch, Match, Authorized,
              vars, storage, server, counts
<1>2. CASE Next
  BY <1>2, VisitKeeps, CloseKeeps, ExpireCookieKeeps, StartRegisterKeeps,
       StartLoginAnewKeeps, StartLoginKeeps, SaveIdentityKeysKeeps,
       RegisterKeeps, LoginKeeps, RevokeDeviceKeeps, AcceptedKeeps,
       RefusedKeeps, LoseReplyKeeps, SaveDeviceIdKeeps, SaveUserKeeps,
       FinishKeeps, UnlockKeeps, LogoutKeeps
     DEF Next
<1> QED
  BY <1>1, <1>2

\* The invariant holds in every reachable state, whatever the number of users,
\* passwords, keys, devices and faults.
THEOREM Invariant == Spec => []IInv
<1>1. Init => IInv
  BY InitIInv
<1>2. IInv /\ [Next]_vars => IInv'
  BY StepKeeps
<1> QED
  BY <1>1, <1>2, PTL DEF Spec

\* Browser and server keep the shapes their code assumes.
THEOREM TypeCorrect == Spec => []TypeOK
<1>1. IInv => TypeOK
  BY DEF IInv
<1> QED
  BY <1>1, Invariant, PTL

\* A page that is open on the device the server takes its cookie for can read what
\* is encrypted for that device: KeysMatch, and the page holds the keys in storage.
THEOREM PublishedKeysHeld == Spec => []PageHoldsPublishedKeys
<1>1. IInv => PageHoldsPublishedKeys
  <2> SUFFICES ASSUME IInv, page # Absent, Authorized,
                      device = Seal(page.pw, cookie.id)
               PROVE  rows[cookie.id].key = page.key
    BY DEF PageHoldsPublishedKeys
  <2>1. page.pw \in Password /\ page.key \in Key /\ ident = Seal(page.pw, page.key)
    BY DEF IInv, TypeOK, TabOK, OrAbsent, Page
  <2>2. cookie.id \in DeviceId
    BY DEF IInv, TypeOK, OrAbsent, Cookie, Authorized
  <2>3. device # Absent /\ device.value = cookie.id
    BY <2>1, <2>2, SealedPresent, AbsentAssumption
  <2>4. rows[cookie.id].key = ident.value
    BY <2>3 DEF IInv, KeysMatch, Match
  <2> QED
    BY <2>1, <2>4, SealedPresent, AbsentAssumption
<1> QED
  BY <1>1, Invariant, PTL

\* A registration or login that finishes has left one account everywhere: Progress
\* says what it did, and nothing undid it on the way.
THEOREM AttemptsAgree == Spec => LoginEndsInAgreement
<1>1. ASSUME IInv, Finish
      PROVE  LET d == cookie.id IN
             /\ device = Seal(ident.pw, d) /\ user = Seal(ident.pw, cookie.name)
             /\ rows[d].user = cookie.name /\ rows[d].key = ident.value
             /\ accounts[cookie.name] = ident.pw
  <2>1. attempt # Absent /\ attempt.stage = "finish"
    BY <1>1 DEF Finish, Reached
  <2>2. attempt \in Attempt
    BY <1>1, <2>1 DEF IInv, TypeOK, OrAbsent
  <2>3. /\ ident = Seal(attempt.pw, attempt.key) /\ device = Seal(attempt.pw, tmp)
        /\ user = Seal(attempt.pw, attempt.name)
        /\ cookie = [name |-> attempt.name, id |-> tmp]
        /\ rows[tmp].user = attempt.name /\ rows[tmp].key = attempt.key
        /\ accounts[attempt.name] = attempt.pw
    BY <1>1, <2>1 DEF IInv, Progress, Late
  <2>4. ident.pw = attempt.pw /\ ident.value = attempt.key
    BY <2>2, <2>3, SealedPresent, AbsentAssumption DEF Attempt
  <2> QED
    BY <2>3, <2>4
<1>2. IInv /\ [Next]_vars =>
        [Finish => LET d == cookie.id IN
            /\ device = Seal(ident.pw, d) /\ user = Seal(ident.pw, cookie.name)
            /\ rows[d].user = cookie.name /\ rows[d].key = ident.value
            /\ accounts[cookie.name] = ident.pw]_vars
  BY <1>1
<1> QED
  BY <1>2, Invariant, PTL DEF Spec, LoginEndsInAgreement
=============================================================================
