-------------------------- MODULE AuthSession_proofs --------------------------
(***************************************************************************)
(* For any number of clients, requests, sessions and users: sessions are   *)
(* whole, a request's user agrees with its session, and for users whose    *)
(* hash is current a session is good as long as the password it was made   *)
(* with, and not longer.                                                   *)
(*                                                                         *)
(* The last is seen from the hashes that are about: in the table, in       *)
(* sessions and in the objects views hold.  A current user has one hash    *)
(* per password, and the table has that of the last one.                   *)
(***************************************************************************)
EXTENDS AuthSession, TLAPS

Live == {r \in Request : request[r] # None}

Whole(d) ==
  IF d.user = None THEN d.hash = None ELSE d.hash # None /\ d.hash[2].user = d.user

(* The record of a request, the user it found and its extension.            *)
Sound(q, key) ==
  /\ q.record # None => Whole(q.record)
  /\ q.found # None => q.found.row.password.user = q.found.id
  /\ q.user = Anonymous => q.record = Empty
  /\ q.user \in UserId => q.record # None /\ q.record.user = q.user /\ q.record.hash[1] = key
  /\ q.pc = "fetch" => q.record # None /\ q.record.user # None /\ q.user = None
  /\ q.pc = "save" => q.found # None
  /\ q.pc # "panicked"

OwnHashes == \A u \in UserId : users[u] # None => users[u].password.user = u
StoreIsWhole == \A s \in SessionId : store[s] # None => Whole(store[s])
RequestsAreSound == \A r \in Live : Sound(request[r], secret_key)

IInv ==
  /\ TypeOK
  /\ OwnHashes
  /\ StoreIsWhole
  /\ RequestsAreSound

(* None is none of the values it stands for.                                *)
LEMMA Nones ==
  /\ None \notin UserId /\ None \notin Record /\ None \notin Row /\ None \notin Object
  /\ None \notin SessionId /\ None \notin (Key \X Hash)
  /\ Anonymous # None /\ Anonymous \notin UserId
BY SessionAssumption

LEMMA EmptyRecord == Empty \in Record /\ Whole(Empty)
BY DEF Empty, Record, Whole

LEMMA SecretKey == ASSUME TypeOK PROVE secret_key \in Key
BY DEF TypeOK, secret_key, Key

(* The record read from the store is as good as the store.                  *)
LEMMA LoadedSound ==
  ASSUME IInv, NEW q \in InFlight, Sound(q, secret_key)
  PROVE  /\ Loaded(q) \in InFlight
         /\ Sound(Loaded(q), secret_key)
         /\ Loaded(q).record \in Record
         /\ Loaded(q).pc = q.pc /\ Loaded(q).user = q.user /\ Loaded(q).found = q.found
         /\ Loaded(q).calls = q.calls
<1>1. CASE q.record # None
  BY <1>1 DEF Loaded, InFlight
<1>2. CASE q.record = None /\ q.sid = None
  <2>1. Loaded(q) = [q EXCEPT !.record = Empty]
    BY <1>2 DEF Loaded
  <2> QED
    BY <1>2, <2>1, EmptyRecord, Nones DEF InFlight, Sound
<1>3. CASE q.record = None /\ q.sid # None /\ store[q.sid] = None
  <2>1. Loaded(q) = [q EXCEPT !.sid = None, !.record = Empty]
    BY <1>3 DEF Loaded
  <2> QED
    BY <1>3, <2>1, EmptyRecord, Nones DEF InFlight, Sound
<1>4. CASE q.record = None /\ q.sid # None /\ store[q.sid] # None
  <2>1. Loaded(q) = [q EXCEPT !.record = store[q.sid]]
    BY <1>4 DEF Loaded
  <2>2. q.sid \in SessionId
    BY <1>4 DEF InFlight
  <2>3. store[q.sid] \in Record /\ Whole(store[q.sid])
    BY <1>4, <2>2 DEF IInv, TypeOK, StoreIsWhole
  <2> DEFINE d == store[q.sid]
  <2>4. d \in Record /\ d # None /\ Whole(d) /\ Loaded(q) = [q EXCEPT !.record = d]
    BY <1>4, <2>1, <2>3
  <2> HIDE DEF d
  <2>5. Loaded(q) \in InFlight
    BY <2>4 DEF InFlight
  <2>6. /\ Loaded(q).record = d /\ Loaded(q).pc = q.pc /\ Loaded(q).user = q.user
        /\ Loaded(q).found = q.found /\ Loaded(q).calls = q.calls
    BY <2>4 DEF InFlight
  <2> QED
    BY <1>4, <2>4, <2>5, <2>6, EmptyRecord, Nones DEF Sound
<1> QED
  BY <1>1, <1>2, <1>3, <1>4

(* A logout leaves a request sound, whatever it was doing.                  *)
LEMMA LoggedOutSound ==
  ASSUME NEW q \in InFlight, NEW key, Sound(q, key)
  PROVE  /\ [LoggedOut(q) EXCEPT !.pc = "view"] \in InFlight
         /\ Sound([LoggedOut(q) EXCEPT !.pc = "view"], key)
<1> DEFINE p == [LoggedOut(q) EXCEPT !.pc = "view"]
<1>1. p = [q EXCEPT !.record = Empty, !.modified = TRUE, !.user = Anonymous, !.pc = "view"]
  BY DEF LoggedOut, InFlight
<1>2. p \in InFlight
  BY <1>1, EmptyRecord DEF InFlight
<1>3. /\ p.record = Empty /\ p.user = Anonymous /\ p.pc = "view" /\ p.found = q.found
  BY <1>1 DEF InFlight
<1> QED
  BY <1>2, <1>3, EmptyRecord, Nones DEF Sound

(* Whom a request is served as, and with which record.                      *)
ServedAs(q, d, u, f) == [Inserted(q, d) EXCEPT !.pc = "view", !.user = u, !.found = f]

(* A request that is served with a whole record of its user is sound.       *)
LEMMA InsertedSound ==
  ASSUME NEW q \in InFlight, NEW key, Sound(q, key), q.record \in Record,
         NEW u \in UserId, NEW d \in Record, Whole(d), d.user = u, d.hash[1] = key,
         NEW f \in Object \cup {None}, f # None => f.row.password.user = f.id
  PROVE  ServedAs(q, d, u, f) \in InFlight /\ Sound(ServedAs(q, d, u, f), key)
<1> DEFINE m == q.modified \/ d # q.record
           p == [Inserted(q, d) EXCEPT !.pc = "view", !.user = u, !.found = f]
<1>1. m \in BOOLEAN /\ p = [q EXCEPT !.record = d, !.modified = m, !.pc = "view", !.user = u,
                                     !.found = f]
  BY DEF InFlight, Inserted
<1>0. p = ServedAs(q, d, u, f)
  BY DEF ServedAs
<1> HIDE DEF m, p
<1>2. p \in InFlight
  BY <1>1 DEF InFlight
<1>3. p.record = d /\ p.user = u /\ p.pc = "view" /\ p.found = f
  BY <1>1 DEF InFlight
<1> QED
  BY <1>0, <1>2, <1>3, Nones DEF Sound

(* The first states.                                                        *)
LEMMA InitIInv == Init => IInv
<1> SUFFICES ASSUME Init PROVE IInv
  OBVIOUS
<1>1. ASSUME NEW u \in UserId, u \in DOMAIN InitialNames
      PROVE  users[u] \in Row /\ users[u].password.user = u
  <2> DEFINE n == IF u \in ObsoleteUsers THEN 0 ELSE u
  <2>1. n \in 0..MaxHashes
    BY <1>1, SessionAssumption
  <2>2. users[u] = [username |-> InitialNames[u],
                    password |-> [user |-> u, password |-> 1, number |-> n]]
    BY <1>1 DEF Init
  <2>3. InitialNames[u] \in Username /\ 1 \in 1..MaxPasswords
    BY <1>1, SessionAssumption
  <2> HIDE DEF n
  <2> QED
    BY <2>1, <2>2, <2>3 DEF Row, Hash
<1>2. ASSUME NEW u \in UserId, u \notin DOMAIN InitialNames PROVE users[u] = None
  BY <1>2 DEF Init
<1>3. users \in [UserId -> Row \cup {None}]
  <2>1. users = [u \in UserId |-> users[u]]
    BY DEF Init
  <2> QED
    BY <1>1, <1>2, <2>1
<1>4. Len(InitialNames) \in 0..MaxHashes
  <2>1. InitialNames \in Seq(Username) /\ DOMAIN InitialNames \subseteq 1..MaxHashes
        /\ MaxHashes \in Nat
    BY SessionAssumption
  <2>2. Len(InitialNames) \in Nat /\ DOMAIN InitialNames = 1..Len(InitialNames)
    BY <2>1
  <2>3. CASE Len(InitialNames) = 0
    BY <2>1, <2>3
  <2>4. CASE Len(InitialNames) # 0
    <3>1. Len(InitialNames) \in DOMAIN InitialNames
      BY <2>2, <2>4
    <3> QED
      BY <2>1, <2>2, <3>1
  <2> QED
    BY <2>3, <2>4
<1>5. config \in DOMAIN Configs
  <2>1. Configs # <<>> /\ DOMAIN Configs = 1..Len(Configs)
    BY SessionAssumption
  <2> QED
    BY <2>1 DEF Init
<1>6. password \in [UserId -> 0..MaxPasswords]
  BY SessionAssumption DEF Init
<1>7. TypeOK
  BY <1>3, <1>4, <1>5, <1>6 DEF Init, TypeOK
<1>8. OwnHashes
  BY <1>1, <1>2 DEF OwnHashes
<1>9. StoreIsWhole /\ RequestsAreSound
  BY DEF Init, StoreIsWhole, RequestsAreSound, Live
<1> QED
  BY <1>7, <1>8, <1>9 DEF IInv

(* A step of one request, which leaves the configuration alone.             *)
LEMMA RequestStep ==
  ASSUME IInv, NEW r \in Request, NEW q \in InFlight \cup {None},
         q # None => Sound(q, secret_key),
         request' = [request EXCEPT ![r] = q], config' = config
  PROVE  /\ request' \in [Request -> InFlight \cup {None}]
         /\ RequestsAreSound'
<1>1. secret_key' = secret_key
  BY DEF secret_key
<1>2. request \in [Request -> InFlight \cup {None}]
  BY DEF IInv, TypeOK
<1>3. ASSUME NEW x \in Request, request'[x] # None PROVE Sound(request'[x], secret_key)
  BY <1>2, <1>3 DEF IInv, RequestsAreSound, Live
<1>4. \A x \in Live' : Sound(request'[x], secret_key)
  BY <1>3 DEF Live
<1>5. RequestsAreSound'
  BY <1>1, <1>4 DEF RequestsAreSound, Sound
<1> QED
  BY <1>2, <1>5

LEMMA StepIInv ==
  ASSUME IInv, NEW r \in Request, NEW q \in InFlight, Sound(q, secret_key), Step(r, q),
         UNCHANGED <<users, hashes>>
  PROVE  IInv'
<1>1. request' = [request EXCEPT ![r] = q] /\ config' = config /\ password' = password
      /\ store' = store /\ cookie' = cookie /\ users' = users /\ hashes' = hashes
  BY DEF Step
<1>2. request' \in [Request -> InFlight \cup {None}] /\ RequestsAreSound'
  BY <1>1, RequestStep
<1>3. TypeOK'
  BY <1>1, <1>2 DEF IInv, TypeOK
<1> QED
  BY <1>1, <1>2, <1>3 DEF IInv, OwnHashes, StoreIsWhole

(* Counting a call changes nothing else.                                    *)
LEMMA CallSound ==
  ASSUME NEW q \in InFlight, NEW key, Sound(q, key), q.calls # 0
  PROVE  [q EXCEPT !.calls = @ - 1] \in InFlight /\ Sound([q EXCEPT !.calls = @ - 1], key)
<1> DEFINE p == [q EXCEPT !.calls = @ - 1]
<1>1. q.calls - 1 \in 0..MaxCalls
  BY SessionAssumption DEF InFlight
<1>2. p \in InFlight
  BY <1>1 DEF InFlight
<1>3. p.record = q.record /\ p.user = q.user /\ p.pc = q.pc /\ p.found = q.found
  BY DEF InFlight
<1> QED
  BY <1>2, <1>3 DEF Sound

LEMMA LiveRequest ==
  ASSUME IInv, NEW r \in Request, request[r] # None
  PROVE  request[r] \in InFlight /\ Sound(request[r], secret_key)
BY DEF IInv, TypeOK, RequestsAreSound, Live

LEMMA BeginIInv ==
  ASSUME IInv, NEW r \in Request, NEW c \in Client, Begin(r, c)
  PROVE  IInv'
<1> DEFINE q == [pc |-> "view", client |-> c, sid |-> cookie[c], record |-> None,
                 modified |-> FALSE, user |-> None, found |-> None, calls |-> MaxCalls]
<1>1. cookie[c] \in SessionId \cup {None} /\ MaxCalls \in 0..MaxCalls
  BY SessionAssumption DEF IInv, TypeOK
<1>2. q \in InFlight
  BY <1>1 DEF InFlight
<1>3. Sound(q, secret_key)
  BY Nones DEF Sound
<1>4. Step(r, q) /\ UNCHANGED <<users, hashes>>
  BY DEF Begin, Step
<1> HIDE DEF q
<1> QED
  BY <1>2, <1>3, <1>4, StepIInv

LEMMA SavedIdIInv ==
  ASSUME IInv, NEW r \in Request, SavedId(r)
  PROVE  IInv'
<1>1. request[r] \in InFlight /\ Sound(request[r], secret_key) /\ request[r].pc = "view"
      /\ request[r].calls # 0 /\ request[r].user = None
  BY LiveRequest DEF SavedId, Calls, Running
<1> DEFINE q == Loaded(request[r])
<1>2. /\ q \in InFlight /\ Sound(q, secret_key) /\ q.record \in Record
      /\ q.pc = "view" /\ q.user = None /\ q.calls # 0
  BY <1>1, LoadedSound
<1>3. Call(r, IF q.record.user = None THEN LoggedOut(q) ELSE [q EXCEPT !.pc = "fetch"])
      /\ UNCHANGED <<users, hashes>>
  BY DEF SavedId
<1> HIDE DEF q
<1>4. CASE q.record.user = None
  <2> DEFINE p == LoggedOut(q)
  <2>1. p = [LoggedOut(q) EXCEPT !.pc = "view"] /\ p.calls # 0
    BY <1>2 DEF LoggedOut, InFlight
  <2>2. p \in InFlight /\ Sound(p, secret_key)
    BY <1>2, <2>1, LoggedOutSound
  <2>3. Call(r, p)
    BY <1>3, <1>4
  <2> HIDE DEF p
  <2> QED
    BY <1>3, <2>1, <2>2, <2>3, CallSound, StepIInv DEF Call
<1>5. CASE q.record.user # None
  <2> DEFINE p == [q EXCEPT !.pc = "fetch"]
  <2>1. p \in InFlight
    BY <1>2 DEF InFlight
  <2>2. /\ p.record = q.record /\ p.user = q.user /\ p.pc = "fetch" /\ p.found = q.found
        /\ p.calls = q.calls
    BY <1>2 DEF InFlight
  <2>3. q.record # None
    BY <1>2, Nones
  <2>4. Sound(p, secret_key)
    BY <1>2, <1>5, <2>2, <2>3 DEF Sound
  <2>5. Call(r, p)
    BY <1>3, <1>5
  <2> HIDE DEF p
  <2> QED
    BY <1>2, <1>3, <2>1, <2>2, <2>4, <2>5, CallSound, StepIInv DEF Call
<1> QED
  BY <1>4, <1>5

LEMMA FetchIInv ==
  ASSUME IInv, NEW r \in Request, Fetch(r)
  PROVE  IInv'
<1> DEFINE q == request[r]
           row == users[q.record.user]
<1>1. q \in InFlight /\ Sound(q, secret_key) /\ q.pc = "fetch"
  BY LiveRequest DEF Fetch, Running
<1>2. /\ q.record \in Record /\ Whole(q.record) /\ q.record.user # None /\ q.record.hash # None
      /\ q.record.user \in UserId
  BY <1>1, Nones DEF Sound, InFlight, Record, Whole
<1>3. Step(r, Checked(q, row)) /\ UNCHANGED <<users, hashes>>
  BY DEF Fetch
<1>4. row # None => row \in Row /\ row.password \in Hash /\ row.password.user = q.record.user
  BY <1>2 DEF IInv, TypeOK, OwnHashes, Row
<1> HIDE DEF q, row
<1>5. CASE row = None \/ ~SessionHashValid(q, row)
  <2>1. Checked(q, row) = [LoggedOut(q) EXCEPT !.pc = "view"]
    BY <1>2, <1>5 DEF Checked
  <2> QED
    BY <1>1, <1>3, <2>1, LoggedOutSound, StepIInv
<1>6. CASE row # None /\ SessionHashValid(q, row)
  <2>1. Checked(q, row) = Served(q, row)
    BY <1>2, <1>6 DEF Checked
  <2> DEFINE d == [q.record EXCEPT !.hash = <<secret_key, row.password>>]
             f == q.found
  <2>2. secret_key \in Key
    BY SecretKey DEF IInv
  <2>3. d \in Record /\ d.user = q.record.user /\ d.hash = <<secret_key, row.password>>
    BY <1>2, <1>4, <1>6, <2>2 DEF Record
  <2>4. <<secret_key, row.password>> \in Key \X Hash
    BY <1>4, <1>6, <2>2
  <2>5. d.hash # None
    BY <2>3, <2>4, Nones
  <2>6. Whole(d) /\ d.hash[1] = secret_key
    BY <1>2, <1>4, <1>6, <2>3, <2>5 DEF Whole
  <2>7. f \in Object \cup {None} /\ (f # None => f.row.password.user = f.id)
    BY <1>1 DEF InFlight, Sound
  <2>8. Served(q, row) = [Inserted(q, d) EXCEPT !.pc = "view", !.user = q.record.user]
    BY DEF Served
  <2> HIDE DEF d
  <2>9. Served(q, row) = [Inserted(q, d) EXCEPT !.pc = "view", !.user = q.record.user, !.found = f]
    BY <1>1, <2>8 DEF Inserted, InFlight
  <2> HIDE DEF f
  <2> DEFINE u == q.record.user
  <2>10. u \in UserId /\ d.user = u /\ q.record \in Record
    BY <1>2, <2>3
  <2>11. Served(q, row) = ServedAs(q, d, u, f)
    BY <2>9 DEF ServedAs
  <2> HIDE DEF u
  <2>12. Served(q, row) \in InFlight /\ Sound(Served(q, row), secret_key)
    BY <1>1, <2>3, <2>6, <2>7, <2>10, <2>11, InsertedSound
  <2>13. Step(r, Served(q, row)) /\ UNCHANGED <<users, hashes>>
    BY <1>3, <2>1
  <2> QED
    BY <2>12, <2>13, StepIInv
<1> QED
  BY <1>5, <1>6

(* A step that changes the users' table too.                                *)
LEMMA TableStepIInv ==
  ASSUME IInv, NEW r \in Request, NEW q \in InFlight, Sound(q, secret_key), Step(r, q),
         users' \in [UserId -> Row \cup {None}], OwnHashes', hashes' \in 0..MaxHashes
  PROVE  IInv'
<1>1. request' = [request EXCEPT ![r] = q] /\ config' = config /\ password' = password
      /\ store' = store /\ cookie' = cookie
  BY DEF Step
<1>2. request' \in [Request -> InFlight \cup {None}] /\ RequestsAreSound'
  BY <1>1, RequestStep
<1>3. TypeOK'
  BY <1>1, <1>2 DEF IInv, TypeOK
<1> QED
  BY <1>1, <1>2, <1>3 DEF IInv, StoreIsWhole

(* A new hash is a hash.                                                    *)
LEMMA NewHashType ==
  ASSUME TypeOK, hashes < MaxHashes, NEW u \in UserId, NEW n \in 1..MaxPasswords
  PROVE  NewHash(u, n) \in Hash /\ NewHash(u, n).user = u /\ NewHash(u, n).password = n
         /\ hashes + 1 \in 0..MaxHashes
<1>1. hashes + 1 \in 0..MaxHashes
  BY SessionAssumption DEF TypeOK
<1> QED
  BY <1>1 DEF NewHash, Hash

LEMMA AuthenticateIInv ==
  ASSUME IInv, NEW r \in Request, NEW u \in UserId, Authenticate(r, u)
  PROVE  IInv'
<1> DEFINE q == request[r]
<1>1. q \in InFlight /\ Sound(q, secret_key) /\ q.pc = "view" /\ q.calls # 0
  BY LiveRequest DEF Authenticate, Calls, Running
<1>2. users[u] \in Row /\ users[u].password \in Hash /\ users[u].password.user = u
      /\ users[u].password.password \in 1..MaxPasswords /\ users' = users
  BY DEF IInv, TypeOK, OwnHashes, Authenticate, Row, Hash
<1>3. ASSUME NEW row \in Row, row.password.user = u, NEW pc \in {"view", "save"},
             Call(r, [q EXCEPT !.pc = pc, !.found = [id |-> u, row |-> row]]),
             hashes' \in 0..MaxHashes
      PROVE  IInv'
  <2> DEFINE f == [id |-> u, row |-> row]
             p == [q EXCEPT !.pc = pc, !.found = f]
  <2>1. f \in Object /\ f.row.password.user = f.id
    BY <1>3 DEF Object
  <2>2. f # None
    BY <2>1, Nones
  <2> HIDE DEF f
  <2>3. p \in InFlight
    BY <1>1, <2>1 DEF InFlight
  <2>4. p.record = q.record /\ p.user = q.user /\ p.pc = pc /\ p.found = f /\ p.calls = q.calls
    BY <1>1 DEF InFlight
  <2>5. Call(r, p)
    BY <1>3 DEF f
  <2> HIDE DEF p, q
  <2>6. Sound(p, secret_key)
    BY <1>1, <2>1, <2>2, <2>4 DEF Sound
  <2>7. [p EXCEPT !.calls = @ - 1] \in InFlight /\ Sound([p EXCEPT !.calls = @ - 1], secret_key)
    BY <1>1, <2>3, <2>4, <2>6, CallSound
  <2>8. Step(r, [p EXCEPT !.calls = @ - 1])
    BY <2>5 DEF Call
  <2>9. users' \in [UserId -> Row \cup {None}] /\ OwnHashes'
    BY <1>2 DEF IInv, TypeOK, OwnHashes
  <2> QED
    BY <1>3, <2>7, <2>8, <2>9, TableStepIInv
<1>4. CASE ~Obsolete(users[u]) /\ UNCHANGED hashes
           /\ Call(r, [q EXCEPT !.found = [id |-> u, row |-> users[u]]])
  <2>1. [q EXCEPT !.found = [id |-> u, row |-> users[u]]]
          = [q EXCEPT !.pc = "view", !.found = [id |-> u, row |-> users[u]]]
    BY <1>1 DEF InFlight
  <2>2. hashes' \in 0..MaxHashes
    BY <1>4 DEF IInv, TypeOK
  <2> QED
    BY <1>2, <1>3, <1>4, <2>1, <2>2
<1>5. CASE /\ hashes < MaxHashes
           /\ hashes' = hashes + 1
           /\ Call(r, [q EXCEPT !.pc = "save",
                !.found = [id |-> u, row |-> [users[u] EXCEPT !.password = NewHash(u, @.password)]]])
  <2> DEFINE h == NewHash(u, users[u].password.password)
             row == [users[u] EXCEPT !.password = h]
  <2>1. h \in Hash /\ h.user = u /\ hashes' \in 0..MaxHashes
    BY <1>2, <1>5, NewHashType DEF IInv
  <2>2. Call(r, [q EXCEPT !.pc = "save", !.found = [id |-> u, row |-> row]])
    BY <1>5
  <2> HIDE DEF h
  <2>3. row \in Row /\ row.password.user = u
    BY <1>2, <2>1 DEF Row
  <2> HIDE DEF row, q
  <2> QED
    BY <1>3, <2>1, <2>2, <2>3
<1> QED
  BY <1>4, <1>5 DEF Authenticate

LEMMA SaveUserIInv ==
  ASSUME IInv, NEW r \in Request, SaveUser(r)
  PROVE  IInv'
<1> DEFINE q == request[r]
           u == q.found.id
           row == q.found.row
<1>1. q \in InFlight /\ Sound(q, secret_key) /\ q.pc = "save"
  BY LiveRequest DEF SaveUser, Running
<1>2. q.found \in Object /\ row.password.user = u /\ u \in UserId /\ row \in Row
  BY <1>1 DEF Sound, InFlight, Object
<1>3. hashes' \in 0..MaxHashes
  BY DEF SaveUser, IInv, TypeOK
<1>4. CASE users' = [users EXCEPT ![u] = row] /\ Step(r, [q EXCEPT !.pc = "view"])
  <2> DEFINE p == [q EXCEPT !.pc = "view"]
  <2>1. p \in InFlight /\ p.record = q.record /\ p.user = q.user /\ p.pc = "view"
        /\ p.found = q.found
    BY <1>1 DEF InFlight
  <2>2. Sound(p, secret_key)
    BY <1>1, <2>1 DEF Sound
  <2>3. users' \in [UserId -> Row \cup {None}]
    BY <1>2, <1>4 DEF IInv, TypeOK
  <2>4. OwnHashes'
    BY <1>2, <1>4 DEF IInv, TypeOK, OwnHashes
  <2> QED
    BY <1>3, <1>4, <2>1, <2>2, <2>3, <2>4, TableStepIInv
<1>5. CASE UNCHANGED users /\ Step(r, [q EXCEPT !.pc = "view", !.found = None])
  <2> DEFINE p == [q EXCEPT !.pc = "view", !.found = None]
  <2>1. p \in InFlight /\ p.record = q.record /\ p.user = q.user /\ p.pc = "view"
        /\ p.found = None
    BY <1>1 DEF InFlight
  <2>2. Sound(p, secret_key)
    BY <1>1, <2>1 DEF Sound
  <2>3. users' \in [UserId -> Row \cup {None}] /\ OwnHashes'
    BY <1>5 DEF IInv, TypeOK, OwnHashes
  <2> QED
    BY <1>3, <1>5, <2>1, <2>2, <2>3, TableStepIInv
<1> QED
  BY <1>4, <1>5 DEF SaveUser

LEMMA LoginIInv ==
  ASSUME IInv, NEW r \in Request, Login(r)
  PROVE  IInv'
<1>1. request[r] \in InFlight /\ Sound(request[r], secret_key) /\ request[r].pc = "view"
      /\ request[r].calls # 0 /\ request[r].found # None
  BY LiveRequest DEF Login, Calls, Running
<1> DEFINE q == Loaded(request[r])
           u == q.found.id
           d == [user |-> u, hash |-> <<secret_key, q.found.row.password>>]
<1>2. /\ q \in InFlight /\ Sound(q, secret_key) /\ q.record \in Record
      /\ q.pc = "view" /\ q.calls # 0 /\ q.found # None
  BY <1>1, LoadedSound
<1>3. Call(r, [Inserted(q, d) EXCEPT !.user = u, !.found = None]) /\ UNCHANGED <<users, hashes>>
  BY DEF Login
<1> HIDE DEF q
<1>4. u \in UserId /\ q.found.row.password \in Hash /\ q.found.row.password.user = u
  BY <1>2 DEF InFlight, Object, Row, Sound
<1>5. <<secret_key, q.found.row.password>> \in Key \X Hash
  BY <1>4, SecretKey DEF IInv
<1>6. d \in Record /\ d.user = u /\ d.hash[1] = secret_key
  BY <1>4, <1>5 DEF Record
<1>7. Whole(d)
  BY <1>4, <1>5, Nones DEF Whole
<1> DEFINE p == ServedAs(q, d, u, None)
<1>8. p = [Inserted(q, d) EXCEPT !.user = u, !.found = None] /\ p.calls = q.calls
  BY <1>2 DEF ServedAs, Inserted, InFlight
<1> HIDE DEF d, u
<1>9. p \in InFlight /\ Sound(p, secret_key)
  BY <1>2, <1>4, <1>6, <1>7, InsertedSound
<1> HIDE DEF p
<1>10. Step(r, [p EXCEPT !.calls = @ - 1])
  BY <1>3, <1>8 DEF Call
<1> QED
  BY <1>2, <1>3, <1>8, <1>9, <1>10, CallSound, StepIInv

LEMMA LogoutIInv ==
  ASSUME IInv, NEW r \in Request, Logout(r)
  PROVE  IInv'
<1>1. request[r] \in InFlight /\ Sound(request[r], secret_key) /\ request[r].pc = "view"
      /\ request[r].calls # 0
  BY LiveRequest DEF Logout, Calls, Running
<1> DEFINE q == Loaded(request[r])
           p == LoggedOut(q)
<1>2. q \in InFlight /\ Sound(q, secret_key) /\ q.pc = "view" /\ q.calls # 0
  BY <1>1, LoadedSound
<1>3. Call(r, p) /\ UNCHANGED <<users, hashes>>
  BY DEF Logout
<1> HIDE DEF q
<1>4. p = [LoggedOut(q) EXCEPT !.pc = "view"] /\ p.calls # 0
  BY <1>2 DEF LoggedOut, InFlight
<1>5. p \in InFlight /\ Sound(p, secret_key)
  BY <1>2, <1>4, LoggedOutSound
<1> HIDE DEF p
<1> QED
  BY <1>3, <1>4, <1>5, CallSound, StepIInv DEF Call

(* What a response writes is as whole as the request's record was.          *)
LEMMA RespondIInv ==
  ASSUME IInv, NEW r \in Request, Respond(r)
  PROVE  IInv'
<1> DEFINE q == request[r]
<1>1. q \in InFlight /\ Sound(q, secret_key)
  BY LiveRequest DEF Respond, Running
<1>2. request' = [request EXCEPT ![r] = None] /\ config' = config /\ users' = users
      /\ hashes' = hashes /\ password' = password
  BY DEF Respond
<1>3. request' \in [Request -> InFlight \cup {None}] /\ RequestsAreSound'
  BY <1>2, RequestStep
<1>4. ASSUME NEW s \in SessionId, store' = [store EXCEPT ![s] = q.record],
             cookie' = [cookie EXCEPT ![q.client] = s]
      PROVE  /\ store' \in [SessionId -> Record \cup {None}]
             /\ cookie' \in [Client -> SessionId \cup {None}]
             /\ StoreIsWhole'
  <2>1. q.record \in Record \cup {None} /\ q.client \in Client
        /\ (q.record # None => Whole(q.record))
    BY <1>1 DEF InFlight, Sound
  <2> HIDE DEF q
  <2>2. store' \in [SessionId -> Record \cup {None}] /\ cookie' \in [Client -> SessionId \cup {None}]
    BY <1>4, <2>1 DEF IInv, TypeOK
  <2>3. ASSUME NEW x \in SessionId, store'[x] # None PROVE Whole(store'[x])
    BY <1>4, <2>1, <2>3 DEF IInv, TypeOK, StoreIsWhole
  <2> QED
    BY <2>2, <2>3 DEF StoreIsWhole, Whole
<1>5. ASSUME store' = store, cookie' = cookie \/ cookie' = [cookie EXCEPT ![q.client] = None]
      PROVE  /\ store' \in [SessionId -> Record \cup {None}]
             /\ cookie' \in [Client -> SessionId \cup {None}]
             /\ StoreIsWhole'
  BY <1>5 DEF IInv, TypeOK, StoreIsWhole
<1>6. q.sid # None => q.sid \in SessionId
  BY <1>1 DEF InFlight
<1>7. /\ store' \in [SessionId -> Record \cup {None}]
      /\ cookie' \in [Client -> SessionId \cup {None}]
      /\ StoreIsWhole'
  BY <1>4, <1>5, <1>6 DEF Respond
<1>8. TypeOK' /\ OwnHashes'
  BY <1>2, <1>3, <1>7 DEF IInv, TypeOK, OwnHashes
<1> QED
  BY <1>3, <1>7, <1>8 DEF IInv

LEMMA FailIInv ==
  ASSUME IInv, NEW r \in Request, Fail(r)
  PROVE  IInv'
<1>1. request' = [request EXCEPT ![r] = None] /\ config' = config /\ users' = users
      /\ hashes' = hashes /\ password' = password /\ store' = store /\ cookie' = cookie
  BY DEF Fail
<1>2. request' \in [Request -> InFlight \cup {None}] /\ RequestsAreSound'
  BY <1>1, RequestStep
<1> QED
  BY <1>1, <1>2 DEF IInv, TypeOK, OwnHashes, StoreIsWhole

(* Changes of the table from outside leave sessions and requests alone.     *)
LEMMA TableIInv ==
  ASSUME IInv, UNCHANGED <<config, store, cookie, request>>,
         NEW u \in UserId, NEW row \in Row \cup {None}, users' = [users EXCEPT ![u] = row],
         row # None => row.password.user = u,
         password' \in [UserId -> 0..MaxPasswords], hashes' \in 0..MaxHashes
  PROVE  IInv'
<1>1. TypeOK'
  BY DEF IInv, TypeOK
<1>2. OwnHashes'
  BY DEF IInv, TypeOK, OwnHashes
<1>3. secret_key' = secret_key /\ Live' = Live
  BY DEF secret_key, Live
<1>4. RequestsAreSound' /\ StoreIsWhole'
  BY <1>3 DEF IInv, RequestsAreSound, StoreIsWhole, Sound, Whole
<1> QED
  BY <1>1, <1>2, <1>4 DEF IInv

LEMMA CreateUserIInv ==
  ASSUME IInv, NEW u \in UserId, NEW username \in Username, CreateUser(u, username)
  PROVE  IInv'
<1> DEFINE row == [username |-> username, password |-> NewHash(u, 1)]
<1>1. 1 \in 1..MaxPasswords
  BY SessionAssumption
<1>2. NewHash(u, 1) \in Hash /\ NewHash(u, 1).user = u /\ hashes' \in 0..MaxHashes
  BY <1>1, NewHashType DEF CreateUser, IInv
<1>3. row \in Row /\ row.password.user = u
  BY <1>2 DEF Row
<1>4. password' \in [UserId -> 0..MaxPasswords]
  BY <1>1 DEF CreateUser, IInv, TypeOK
<1>5. users' = [users EXCEPT ![u] = row] /\ UNCHANGED <<config, store, cookie, request>>
  BY DEF CreateUser
<1> HIDE DEF row
<1> QED
  BY <1>2, <1>3, <1>4, <1>5, TableIInv

LEMMA ChangePasswordIInv ==
  ASSUME IInv, NEW u \in UserId, ChangePassword(u)
  PROVE  IInv'
<1> DEFINE n == password[u] + 1
           row == [users[u] EXCEPT !.password = NewHash(u, n)]
<1>1. n \in 1..MaxPasswords /\ users[u] \in Row
  BY SessionAssumption DEF ChangePassword, IInv, TypeOK
<1>2. NewHash(u, n) \in Hash /\ NewHash(u, n).user = u /\ hashes' \in 0..MaxHashes
  BY <1>1, NewHashType DEF ChangePassword, IInv
<1>3. row \in Row /\ row.password.user = u
  BY <1>1, <1>2 DEF Row
<1>4. password' \in [UserId -> 0..MaxPasswords]
  BY <1>1 DEF ChangePassword, IInv, TypeOK
<1>5. users' = [users EXCEPT ![u] = row] /\ UNCHANGED <<config, store, cookie, request>>
  BY DEF ChangePassword, IInv, TypeOK
<1> HIDE DEF row
<1> QED
  BY <1>2, <1>3, <1>4, <1>5, TableIInv

LEMMA DeleteUserIInv ==
  ASSUME IInv, NEW u \in UserId, DeleteUser(u)
  PROVE  IInv'
<1>1. users' = [users EXCEPT ![u] = None] /\ UNCHANGED <<config, store, cookie, request>>
      /\ password' \in [UserId -> 0..MaxPasswords] /\ hashes' \in 0..MaxHashes
  BY DEF DeleteUser, IInv, TypeOK
<1> QED
  BY <1>1, TableIInv

LEMMA RestartIInv == IInv /\ Restart => IInv'
<1> SUFFICES ASSUME IInv, Restart PROVE IInv'
  OBVIOUS
<1>1. Live' = {}
  BY DEF Restart, Live
<1>2. TypeOK' /\ OwnHashes'
  BY DEF Restart, IInv, TypeOK, OwnHashes
<1>3. StoreIsWhole'
  BY DEF Restart, IInv, StoreIsWhole, Whole
<1>4. RequestsAreSound'
  BY <1>1 DEF RequestsAreSound
<1> QED
  BY <1>2, <1>3, <1>4 DEF IInv

LEMMA UnchangedIInv == IInv /\ UNCHANGED vars => IInv'
<1> SUFFICES ASSUME IInv, UNCHANGED vars PROVE IInv'
  OBVIOUS
<1>1. /\ config' = config /\ users' = users /\ hashes' = hashes /\ password' = password
      /\ store' = store /\ cookie' = cookie /\ request' = request
  BY DEF vars
<1>2. TypeOK' /\ OwnHashes' /\ StoreIsWhole'
  BY <1>1 DEF IInv, TypeOK, OwnHashes, StoreIsWhole, Whole
<1>3. secret_key' = secret_key /\ Live' = Live
  BY <1>1 DEF secret_key, Live
<1>4. RequestsAreSound'
  BY <1>1, <1>3 DEF IInv, RequestsAreSound, Sound, Whole
<1> QED
  BY <1>2, <1>4 DEF IInv

(* Every step preserves the invariant.                                      *)
LEMMA NextIInv == IInv /\ [Next]_vars => IInv'
BY BeginIInv, SavedIdIInv, FetchIInv, AuthenticateIInv, SaveUserIInv, LoginIInv, LogoutIInv,
   RespondIInv, FailIInv, CreateUserIInv, ChangePasswordIInv, DeleteUserIInv, RestartIInv,
   UnchangedIInv DEF Next

LEMMA IInvAlways == Spec => []IInv
BY InitIInv, NextIInv, PTL DEF Spec

(* The type invariant.                                                      *)
THEOREM SessionTypes == Spec => []TypeOK
<1>1. IInv => TypeOK
  BY DEF IInv
<1> QED
  BY <1>1, IInvAlways, PTL

(* Every session, and every request's copy of one, that names a user has a  *)
(* hash made from that user's password.                                     *)
THEOREM SessionsStayWhole == Spec => []SessionsAreWhole
<1>1. IInv => SessionsAreWhole
  <2> SUFFICES ASSUME IInv, NEW d \in Records, d # None PROVE Whole(d)
    BY DEF SessionsAreWhole, Whole
  <2>1. CASE \E s \in SessionId : d = store[s]
    BY <2>1 DEF IInv, StoreIsWhole
  <2>2. CASE \E r \in Live : d = request[r].record
    BY <2>2 DEF IInv, RequestsAreSound, Sound
  <2> QED
    BY <2>1, <2>2 DEF Records, Live
<1> QED
  BY <1>1, IInvAlways, PTL

(* What user() has answered in a request agrees with the session that the   *)
(* request will write back, and the expect in session_auth_hash_valid never *)
(* fails.                                                                   *)
THEOREM ExtensionAlwaysAgrees == Spec => []ExtensionAgrees
<1>1. IInv => ExtensionAgrees
  BY DEF IInv, RequestsAreSound, Sound, Live, ExtensionAgrees
<1> QED
  BY <1>1, IInvAlways, PTL

-----------------------------------------------------------------------------
(* A hash of a current user is of the last password only if it is the one   *)
(* in the table.                                                            *)
Fresh(h) ==
  h.user \in Current =>
    /\ h.password <= password[h.user]
    /\ h.password = password[h.user] /\ users[h.user] # None => h = users[h.user].password

FreshRecord(d) == d.user # None => Fresh(d.hash[2])
FreshRequest(q) ==
  /\ q.record # None => FreshRecord(q.record)
  /\ q.found # None => Fresh(q.found.row.password)
  /\ q.pc = "save" => q.found.id \notin Current

TableIsCurrent ==
  \A u \in Current : users[u] # None =>
    users[u].password.password = password[u] /\ users[u].password.number # 0
StoreIsFresh == \A s \in SessionId : store[s] # None => FreshRecord(store[s])
RequestsAreFresh == \A r \in Live : FreshRequest(request[r])

JInv ==
  /\ IInv
  /\ TableIsCurrent
  /\ StoreIsFresh
  /\ RequestsAreFresh

LEMMA InitJInv == Init => JInv
<1> SUFFICES ASSUME Init PROVE JInv
  OBVIOUS
<1>1. IInv
  BY InitIInv
<1>2. ASSUME NEW u \in Current, users[u] # None
      PROVE  users[u].password.password = password[u] /\ users[u].password.number # 0
  <2>1. u \in UserId /\ u \notin ObsoleteUsers /\ u # 0
    BY SessionAssumption DEF Current
  <2>2. u \in DOMAIN InitialNames
    BY <1>2, <2>1 DEF Init
  <2>3. users[u] = [username |-> InitialNames[u],
                    password |-> [user |-> u, password |-> 1, number |-> u]]
    BY <2>1, <2>2 DEF Init
  <2>4. password[u] = 1
    BY <2>1, <2>2 DEF Init
  <2> QED
    BY <2>1, <2>3, <2>4
<1>3. StoreIsFresh /\ RequestsAreFresh
  BY DEF Init, StoreIsFresh, RequestsAreFresh, Live
<1> QED
  BY <1>1, <1>2, <1>3 DEF JInv, TableIsCurrent

(* A step of one request that leaves the table alone.                       *)
LEMMA StepJInv ==
  ASSUME JInv, IInv', NEW r \in Request, NEW q \in InFlight, FreshRequest(q),
         request' = [request EXCEPT ![r] = q], UNCHANGED <<users, password, store>>
  PROVE  JInv'
<1>1. request \in [Request -> InFlight \cup {None}]
  BY DEF JInv, IInv, TypeOK
<1>2. ASSUME NEW x \in Request, request'[x] # None PROVE FreshRequest(request'[x])
  BY <1>1, <1>2 DEF JInv, RequestsAreFresh, Live
<1>3. ASSUME NEW d, FreshRecord(d) PROVE FreshRecord(d)'
  BY <1>3 DEF FreshRecord, Fresh
<1>6. ASSUME NEW p, FreshRequest(p) PROVE FreshRequest(p)'
  <2>1. p.found # None => Fresh(p.found.row.password)'
    BY <1>6 DEF FreshRequest, Fresh
  <2> QED
    BY <1>3, <1>6, <2>1 DEF FreshRequest
<1>7. ASSUME NEW x \in Request, request'[x] # None PROVE FreshRequest(request[x])'
  <2>1. PICK p : p = request'[x] /\ FreshRequest(p)
    BY <1>2, <1>7
  <2>2. FreshRequest(p)'
    BY <1>6, <2>1
  <2> QED
    BY <2>1, <2>2 DEF FreshRequest
<1>4. RequestsAreFresh'
  BY <1>7 DEF RequestsAreFresh, Live
<1>5. TableIsCurrent' /\ StoreIsFresh'
  BY DEF JInv, TableIsCurrent, StoreIsFresh, FreshRecord, Fresh
<1> QED
  BY <1>4, <1>5 DEF JInv

LEMMA LoadedFresh ==
  ASSUME JInv, NEW q \in InFlight, FreshRequest(q)
  PROVE  FreshRequest(Loaded(q))
<1>1. FreshRecord(Empty)
  BY DEF FreshRecord, Empty
<1>2. CASE q.record # None
  BY <1>2 DEF Loaded
<1>3. CASE q.record = None /\ q.sid = None
  <2>1. Loaded(q) = [q EXCEPT !.record = Empty]
    BY <1>3 DEF Loaded
  <2> QED
    BY <1>1, <2>1 DEF InFlight, FreshRequest
<1>4. CASE q.record = None /\ q.sid # None /\ store[q.sid] = None
  <2>1. Loaded(q) = [q EXCEPT !.sid = None, !.record = Empty]
    BY <1>4 DEF Loaded
  <2> QED
    BY <1>1, <2>1 DEF InFlight, FreshRequest
<1>5. CASE q.record = None /\ q.sid # None /\ store[q.sid] # None
  <2> DEFINE d == store[q.sid]
  <2>1. q.sid \in SessionId
    BY <1>5 DEF InFlight
  <2>2. FreshRecord(d) /\ Loaded(q) = [q EXCEPT !.record = d]
    BY <1>5, <2>1 DEF JInv, StoreIsFresh, Loaded
  <2> HIDE DEF d
  <2>3. Loaded(q).record = d /\ Loaded(q).found = q.found /\ Loaded(q).pc = q.pc
    BY <2>2 DEF InFlight
  <2> QED
    BY <2>2, <2>3 DEF FreshRequest
<1> QED
  BY <1>2, <1>3, <1>4, <1>5

LEMMA LoggedOutFresh ==
  ASSUME NEW q \in InFlight, FreshRequest(q), q.pc # "save"
  PROVE  FreshRequest(LoggedOut(q)) /\ FreshRequest([LoggedOut(q) EXCEPT !.pc = "view"])
<1> DEFINE p == [LoggedOut(q) EXCEPT !.pc = "view"]
<1>1. LoggedOut(q).record = Empty /\ LoggedOut(q).found = q.found /\ LoggedOut(q).pc = q.pc
      /\ p.record = Empty /\ p.found = q.found /\ p.pc = "view"
  BY DEF LoggedOut, InFlight
<1> QED
  BY <1>1 DEF FreshRequest, FreshRecord, Empty

LEMMA CalledFresh ==
  ASSUME NEW q \in InFlight, FreshRequest(q)
  PROVE  FreshRequest([q EXCEPT !.calls = @ - 1])
BY DEF FreshRequest, InFlight

LEMMA TableFresh ==
  ASSUME JInv, NEW u \in UserId, users[u] # None
  PROVE  Fresh(users[u].password)
<1>1. users[u].password.user = u
  BY DEF JInv, IInv, OwnHashes
<1>2. users[u].password.password \in Nat
  BY DEF JInv, IInv, TypeOK, Row, Hash
<1>3. u \in Current => users[u].password.password = password[u]
  BY DEF JInv, TableIsCurrent
<1>4. u \in Current => users[u].password.password <= password[u]
  BY <1>2, <1>3
<1> QED
  BY <1>1, <1>3, <1>4 DEF Fresh

LEMMA LiveFresh ==
  ASSUME JInv, NEW r \in Request, request[r] # None
  PROVE  request[r] \in InFlight /\ Sound(request[r], secret_key) /\ FreshRequest(request[r])
BY LiveRequest DEF JInv, RequestsAreFresh, Live

LEMMA BeginJInv ==
  ASSUME JInv, IInv', NEW r \in Request, NEW c \in Client, Begin(r, c)
  PROVE  JInv'
<1> DEFINE q == [pc |-> "view", client |-> c, sid |-> cookie[c], record |-> None,
                 modified |-> FALSE, user |-> None, found |-> None, calls |-> MaxCalls]
<1>1. cookie[c] \in SessionId \cup {None} /\ MaxCalls \in 0..MaxCalls
  BY SessionAssumption DEF JInv, IInv, TypeOK
<1>2. q \in InFlight /\ FreshRequest(q)
  BY <1>1 DEF InFlight, FreshRequest
<1>3. request' = [request EXCEPT ![r] = q] /\ UNCHANGED <<users, password, store>>
  BY DEF Begin
<1> HIDE DEF q
<1> QED
  BY <1>2, <1>3, StepJInv

LEMMA SavedIdJInv ==
  ASSUME JInv, IInv', NEW r \in Request, SavedId(r)
  PROVE  JInv'
<1>1. request[r] \in InFlight /\ Sound(request[r], secret_key) /\ FreshRequest(request[r])
      /\ request[r].pc = "view" /\ request[r].calls # 0
  BY LiveFresh DEF SavedId, Calls, Running
<1> DEFINE q == Loaded(request[r])
           p == IF q.record.user = None THEN LoggedOut(q) ELSE [q EXCEPT !.pc = "fetch"]
<1>2. q \in InFlight /\ FreshRequest(q) /\ q.pc = "view" /\ q.calls # 0
  BY <1>1, LoadedSound, LoadedFresh DEF JInv
<1>3. Call(r, p) /\ UNCHANGED <<users, hashes>>
  BY DEF SavedId
<1> HIDE DEF q
<1>4. LoggedOut(q) \in InFlight /\ [q EXCEPT !.pc = "fetch"] \in InFlight
  BY <1>2, EmptyRecord DEF InFlight, LoggedOut
<1>5. FreshRequest([q EXCEPT !.pc = "fetch"])
  BY <1>2 DEF FreshRequest, InFlight
<1>6. FreshRequest(LoggedOut(q)) /\ LoggedOut(q).calls = q.calls
      /\ [q EXCEPT !.pc = "fetch"].calls = q.calls
  BY <1>2, LoggedOutFresh DEF LoggedOut, InFlight
<1>10. p \in InFlight /\ FreshRequest(p) /\ p.calls # 0
  BY <1>2, <1>4, <1>5, <1>6
<1> HIDE DEF p
<1> DEFINE w == [p EXCEPT !.calls = @ - 1]
<1>7. w \in InFlight
  <2>1. p.calls - 1 \in 0..MaxCalls
    BY <1>10, SessionAssumption DEF InFlight
  <2> QED
    BY <1>10, <2>1 DEF InFlight
<1>8. FreshRequest(w)
  BY <1>10, CalledFresh
<1>9. request' = [request EXCEPT ![r] = w] /\ UNCHANGED <<users, password, store>>
  BY <1>3 DEF Call, Step
<1> HIDE DEF w
<1> QED
  BY <1>7, <1>8, <1>9, StepJInv

(* A whole record is fresh if its hash is.                                  *)
LEMMA ServedFresh ==
  ASSUME NEW q \in InFlight, FreshRequest(q), q.record \in Record, NEW u, NEW d \in Record,
         Fresh(d.hash[2]), NEW f, f # None => Fresh(f.row.password)
  PROVE  FreshRequest(ServedAs(q, d, u, f))
<1> DEFINE m == q.modified \/ d # q.record
           p == ServedAs(q, d, u, f)
<1>1. p = [q EXCEPT !.record = d, !.modified = m, !.pc = "view", !.user = u, !.found = f]
  BY DEF InFlight, Inserted, ServedAs
<1> HIDE DEF m, p
<1>2. p.record = d /\ p.pc = "view" /\ p.found = f
  BY <1>1 DEF InFlight
<1> HIDE DEF Fresh
<1>3. FreshRecord(d)
  BY DEF FreshRecord
<1> QED
  BY <1>2, <1>3 DEF FreshRequest, p

LEMMA FetchJInv ==
  ASSUME JInv, IInv', NEW r \in Request, Fetch(r)
  PROVE  JInv'
<1> DEFINE q == request[r]
           row == users[q.record.user]
<1>1. q \in InFlight /\ Sound(q, secret_key) /\ FreshRequest(q) /\ q.pc = "fetch"
  BY LiveFresh DEF Fetch, Running
<1>2. /\ q.record \in Record /\ Whole(q.record) /\ q.record.user # None /\ q.record.hash # None
      /\ q.record.user \in UserId
  BY <1>1, Nones DEF Sound, InFlight, Record, Whole
<1>3. request' = [request EXCEPT ![r] = Checked(q, row)] /\ UNCHANGED <<users, password, store>>
  BY DEF Fetch, Step
<1>4. row # None => /\ row \in Row /\ row.password \in Hash /\ row.password.user = q.record.user
                    /\ Fresh(row.password)
  BY <1>2, TableFresh DEF JInv, IInv, TypeOK, OwnHashes, Row
<1> HIDE DEF q, row
<1>5. CASE row = None \/ ~SessionHashValid(q, row)
  <2>1. Checked(q, row) = [LoggedOut(q) EXCEPT !.pc = "view"]
    BY <1>2, <1>5 DEF Checked
  <2> QED
    BY <1>1, <1>3, <2>1, LoggedOutSound, LoggedOutFresh, StepJInv
<1>6. CASE row # None /\ SessionHashValid(q, row)
  <2>1. Checked(q, row) = Served(q, row)
    BY <1>2, <1>6 DEF Checked
  <2> DEFINE d == [q.record EXCEPT !.hash = <<secret_key, row.password>>]
             f == q.found
  <2>2. secret_key \in Key
    BY SecretKey DEF JInv, IInv
  <2>3. d \in Record /\ d.user = q.record.user /\ d.hash = <<secret_key, row.password>>
    BY <1>2, <1>4, <1>6, <2>2 DEF Record
  <2>4. <<secret_key, row.password>> \in Key \X Hash
    BY <1>4, <1>6, <2>2
  <2>5. d.hash # None
    BY <2>3, <2>4, Nones
  <2>6. Whole(d) /\ d.hash[1] = secret_key /\ d.hash[2] = row.password
    BY <1>2, <1>4, <1>6, <2>3, <2>5 DEF Whole
  <2>7. f \in Object \cup {None} /\ (f # None => f.row.password.user = f.id)
        /\ (f # None => Fresh(f.row.password))
    BY <1>1 DEF InFlight, Sound, FreshRequest
  <2>8. Served(q, row) = [Inserted(q, d) EXCEPT !.pc = "view", !.user = q.record.user]
    BY DEF Served
  <2> HIDE DEF d
  <2>9. Served(q, row) = [Inserted(q, d) EXCEPT !.pc = "view", !.user = q.record.user, !.found = f]
    BY <1>1, <2>8 DEF Inserted, InFlight
  <2> HIDE DEF f
  <2> DEFINE u == q.record.user
  <2>10. u \in UserId /\ d.user = u /\ q.record \in Record
    BY <1>2, <2>3
  <2>11. Served(q, row) = ServedAs(q, d, u, f)
    BY <2>9 DEF ServedAs
  <2> HIDE DEF u
  <2>12. Served(q, row) \in InFlight
    BY <1>1, <2>3, <2>6, <2>7, <2>10, <2>11, InsertedSound
  <2>13. Fresh(d.hash[2])
    BY <1>4, <1>6, <2>6
  <2>14. FreshRequest(Served(q, row))
    BY <1>1, <2>3, <2>7, <2>10, <2>11, <2>13, ServedFresh
  <2>15. request' = [request EXCEPT ![r] = Served(q, row)]
    BY <1>3, <2>1
  <2> QED
    BY <1>3, <2>12, <2>14, <2>15, StepJInv
<1> QED
  BY <1>5, <1>6

LEMMA LoginJInv ==
  ASSUME JInv, IInv', NEW r \in Request, Login(r)
  PROVE  JInv'
<1>1. request[r] \in InFlight /\ Sound(request[r], secret_key) /\ FreshRequest(request[r])
      /\ request[r].pc = "view" /\ request[r].calls # 0 /\ request[r].found # None
  BY LiveFresh DEF Login, Calls, Running
<1> DEFINE q == Loaded(request[r])
           u == q.found.id
           d == [user |-> u, hash |-> <<secret_key, q.found.row.password>>]
<1>2. /\ q \in InFlight /\ Sound(q, secret_key) /\ q.record \in Record /\ FreshRequest(q)
      /\ q.pc = "view" /\ q.calls # 0 /\ q.found # None
  BY <1>1, LoadedSound, LoadedFresh DEF JInv
<1>3. Call(r, [Inserted(q, d) EXCEPT !.user = u, !.found = None]) /\ UNCHANGED <<users, hashes>>
  BY DEF Login
<1> HIDE DEF q
<1>4. u \in UserId /\ q.found.row.password \in Hash /\ q.found.row.password.user = u
      /\ Fresh(q.found.row.password)
  BY <1>2 DEF InFlight, Object, Row, Sound, FreshRequest
<1>5. <<secret_key, q.found.row.password>> \in Key \X Hash
  BY <1>4, SecretKey DEF JInv, IInv
<1>6. d \in Record /\ d.user = u /\ d.hash[1] = secret_key /\ d.hash[2] = q.found.row.password
  BY <1>4, <1>5 DEF Record
<1>7. Whole(d)
  BY <1>4, <1>5, Nones DEF Whole
<1>8. Fresh(d.hash[2])
  BY <1>4, <1>6
<1> DEFINE p == ServedAs(q, d, u, None)
<1>9. p = [Inserted(q, d) EXCEPT !.user = u, !.found = None] /\ p.calls = q.calls
  BY <1>2 DEF ServedAs, Inserted, InFlight
<1> HIDE DEF d, u
<1>10. p \in InFlight /\ Sound(p, secret_key)
  BY <1>2, <1>4, <1>6, <1>7, InsertedSound
<1>11. FreshRequest(p)
  BY <1>2, <1>6, <1>8, ServedFresh
<1> HIDE DEF p
<1> DEFINE w == [p EXCEPT !.calls = @ - 1]
<1>12. w \in InFlight /\ FreshRequest(w)
  BY <1>2, <1>9, <1>10, <1>11, CallSound, CalledFresh
<1>13. request' = [request EXCEPT ![r] = w] /\ UNCHANGED <<users, password, store>>
  BY <1>3, <1>9 DEF Call, Step
<1> HIDE DEF w
<1> QED
  BY <1>12, <1>13, StepJInv

LEMMA LogoutJInv ==
  ASSUME JInv, IInv', NEW r \in Request, Logout(r)
  PROVE  JInv'
<1>1. request[r] \in InFlight /\ Sound(request[r], secret_key) /\ FreshRequest(request[r])
      /\ request[r].pc = "view" /\ request[r].calls # 0
  BY LiveFresh DEF Logout, Calls, Running
<1> DEFINE q == Loaded(request[r])
           p == LoggedOut(q)
<1>2. q \in InFlight /\ Sound(q, secret_key) /\ FreshRequest(q) /\ q.pc = "view" /\ q.calls # 0
  BY <1>1, LoadedSound, LoadedFresh DEF JInv
<1>3. Call(r, p) /\ UNCHANGED <<users, hashes>>
  BY DEF Logout
<1> HIDE DEF q
<1>4. p = [LoggedOut(q) EXCEPT !.pc = "view"] /\ p.calls # 0
  BY <1>2 DEF LoggedOut, InFlight
<1>5. p \in InFlight /\ Sound(p, secret_key) /\ FreshRequest(p)
  BY <1>2, <1>4, LoggedOutSound, LoggedOutFresh
<1> HIDE DEF p
<1> DEFINE w == [p EXCEPT !.calls = @ - 1]
<1>6. w \in InFlight /\ FreshRequest(w)
  BY <1>4, <1>5, CallSound, CalledFresh
<1>7. request' = [request EXCEPT ![r] = w] /\ UNCHANGED <<users, password, store>>
  BY <1>3 DEF Call, Step
<1> HIDE DEF w
<1> QED
  BY <1>6, <1>7, StepJInv

(* A hash that is to be upgraded is not that of a current user.             *)
LEMMA AuthenticateJInv ==
  ASSUME JInv, IInv', NEW r \in Request, NEW u \in UserId, Authenticate(r, u)
  PROVE  JInv'
<1> DEFINE q == request[r]
<1>1. q \in InFlight /\ Sound(q, secret_key) /\ FreshRequest(q) /\ q.pc = "view" /\ q.calls # 0
  BY LiveFresh DEF Authenticate, Calls, Running
<1>2. users[u] \in Row /\ users[u].password \in Hash /\ users[u].password.user = u
      /\ users[u].password.password \in 1..MaxPasswords /\ Fresh(users[u].password)
  BY TableFresh DEF JInv, IInv, TypeOK, OwnHashes, Authenticate, Row, Hash
<1>3. ASSUME NEW pc \in {"view", "save"}, NEW row \in Row, Fresh(row.password),
             pc = "save" => u \notin Current,
             Call(r, [q EXCEPT !.pc = pc, !.found = [id |-> u, row |-> row]])
      PROVE  JInv'
  <2> DEFINE f == [id |-> u, row |-> row]
             p == [q EXCEPT !.pc = pc, !.found = f]
  <2>1. f \in Object /\ f.id = u /\ f.row = row
    BY DEF Object
  <2>2. request' = [request EXCEPT ![r] = [p EXCEPT !.calls = @ - 1]]
        /\ UNCHANGED <<users, password, store>>
    BY <1>3 DEF Authenticate, Call, Step
  <2> HIDE DEF f, q
  <2>3. p \in InFlight /\ p.record = q.record /\ p.found = f /\ p.pc = pc /\ p.calls = q.calls
    BY <1>1, <2>1 DEF InFlight
  <2> HIDE DEF p
  <2>4. FreshRequest(p)
    BY <1>1, <1>3, <2>1, <2>3 DEF FreshRequest
  <2> DEFINE w == [p EXCEPT !.calls = @ - 1]
  <2>5. w \in InFlight
    <3>1. p.calls - 1 \in 0..MaxCalls
      BY <1>1, <2>3, SessionAssumption DEF InFlight
    <3> QED
      BY <2>3, <3>1 DEF InFlight
  <2>6. FreshRequest(w)
    BY <2>3, <2>4, CalledFresh
  <2> HIDE DEF w
  <2>7. request' = [request EXCEPT ![r] = w]
    BY <2>2 DEF w
  <2> QED
    BY <2>2, <2>5, <2>6, <2>7, StepJInv
<1>4. CASE ~Obsolete(users[u]) /\ UNCHANGED hashes
           /\ Call(r, [q EXCEPT !.found = [id |-> u, row |-> users[u]]])
  <2>1. [q EXCEPT !.found = [id |-> u, row |-> users[u]]]
          = [q EXCEPT !.pc = "view", !.found = [id |-> u, row |-> users[u]]]
    BY <1>1 DEF InFlight
  <2> QED
    BY <1>2, <1>3, <1>4, <2>1
<1>5. CASE /\ Obsolete(users[u])
           /\ hashes < MaxHashes
           /\ Call(r, [q EXCEPT !.pc = "save",
                !.found = [id |-> u, row |-> [users[u] EXCEPT !.password = NewHash(u, @.password)]]])
  <2> DEFINE h == NewHash(u, users[u].password.password)
             row == [users[u] EXCEPT !.password = h]
  <2>1. h \in Hash /\ h.user = u
    BY <1>2, <1>5, NewHashType DEF JInv, IInv
  <2>2. u \notin Current
    BY <1>5 DEF Obsolete, JInv, TableIsCurrent, Authenticate
  <2>3. Call(r, [q EXCEPT !.pc = "save", !.found = [id |-> u, row |-> row]])
    BY <1>5
  <2> HIDE DEF h
  <2>4. row \in Row /\ row.password = h
    BY <1>2, <2>1 DEF Row
  <2>5. Fresh(row.password)
    BY <2>1, <2>2, <2>4 DEF Fresh
  <2> HIDE DEF row, q
  <2> QED
    BY <1>3, <2>2, <2>3, <2>4, <2>5
<1> QED
  BY <1>4, <1>5 DEF Authenticate

(* A change of the table is harmless if it keeps fresh hashes fresh.        *)
LEMMA TableJInv ==
  ASSUME JInv, IInv', UNCHANGED store, TableIsCurrent',
         \A h \in Hash : Fresh(h) => Fresh(h)',
         \A r \in Request : request'[r] \in {request[r], None} \/ FreshRequest(request[r])'
  PROVE  JInv'
<1>1. ASSUME NEW d \in Record, FreshRecord(d), Whole(d) PROVE FreshRecord(d)'
  <2>1. CASE d.user = None
    BY <2>1 DEF FreshRecord
  <2>2. CASE d.user # None
    <3>1. d.hash[2] \in Hash
      BY <1>1, <2>2 DEF Record, Whole
    <3>2. Fresh(d.hash[2])
      BY <1>1, <2>2 DEF FreshRecord
    <3>3. Fresh(d.hash[2])'
      BY <3>1, <3>2
    <3> QED
      BY <3>3 DEF FreshRecord
  <2> QED
    BY <2>1, <2>2
<1>2. StoreIsFresh'
  BY <1>1 DEF JInv, IInv, TypeOK, StoreIsFresh, StoreIsWhole
<1>3. ASSUME NEW q \in InFlight, FreshRequest(q), Sound(q, secret_key) PROVE FreshRequest(q)'
  <2>1. q.record # None => q.record \in Record /\ FreshRecord(q.record) /\ Whole(q.record)
    BY <1>3 DEF InFlight, FreshRequest, Sound
  <2>2. q.found # None => q.found.row.password \in Hash /\ Fresh(q.found.row.password)
    BY <1>3 DEF InFlight, FreshRequest, Object, Row
  <2>3. q.record # None => FreshRecord(q.record)'
    BY <1>1, <2>1
  <2>4. q.found # None => Fresh(q.found.row.password)'
    BY <2>2
  <2> QED
    BY <1>3, <2>3, <2>4 DEF FreshRequest
<1>4. ASSUME NEW r \in Request, request'[r] # None PROVE FreshRequest(request[r])'
  <2>1. CASE request'[r] \notin {request[r], None}
    BY <1>4, <2>1
  <2>2. CASE request'[r] \in {request[r], None}
    <3>1. request'[r] = request[r] /\ request[r] # None
      BY <1>4, <2>2
    <3> DEFINE q == request[r]
    <3>2. q \in InFlight /\ FreshRequest(q) /\ Sound(q, secret_key)
      BY <3>1, LiveFresh
    <3>3. PICK p \in InFlight : p = q /\ FreshRequest(p) /\ Sound(p, secret_key)
      BY <3>2
    <3>4. FreshRequest(p)'
      BY <1>3, <3>3
    <3>5. request'[r] = p
      BY <3>1, <3>3
    <3> QED
      BY <3>4, <3>5 DEF FreshRequest, FreshRecord, Fresh
  <2> QED
    BY <2>1, <2>2
<1>5. RequestsAreFresh'
  BY <1>4 DEF RequestsAreFresh, Live
<1> QED
  BY <1>2, <1>5 DEF JInv

LEMMA SaveUserJInv ==
  ASSUME JInv, IInv', NEW r \in Request, SaveUser(r)
  PROVE  JInv'
<1> DEFINE q == request[r]
           u == q.found.id
           row == q.found.row
<1>1. q \in InFlight /\ Sound(q, secret_key) /\ FreshRequest(q) /\ q.pc = "save"
  BY LiveFresh DEF SaveUser, Running
<1>2. u \in UserId /\ u \notin Current /\ q.found # None
  BY <1>1 DEF Sound, InFlight, Object, FreshRequest
<1>3. password' = password /\ store' = store /\ (users' = users \/ users' = [users EXCEPT ![u] = row])
  BY DEF SaveUser, Step
<1>4. \A v \in Current : users'[v] = users[v]
  BY <1>2, <1>3 DEF JInv, IInv, TypeOK, Current
<1>5. TableIsCurrent'
  BY <1>3, <1>4 DEF JInv, TableIsCurrent
<1>6. \A h \in Hash : Fresh(h) => Fresh(h)'
  BY <1>3, <1>4 DEF Fresh, Current
<1>7. PICK w \in InFlight : /\ request' = [request EXCEPT ![r] = w]
                            /\ w.record = q.record /\ w.pc = "view" /\ w.found \in {q.found, None}
  <2> DEFINE w1 == [q EXCEPT !.pc = "view"]
             w2 == [q EXCEPT !.pc = "view", !.found = None]
  <2>1. w1 \in InFlight /\ w1.record = q.record /\ w1.pc = "view" /\ w1.found = q.found
    BY <1>1 DEF InFlight
  <2>2. w2 \in InFlight /\ w2.record = q.record /\ w2.pc = "view" /\ w2.found = None
    BY <1>1 DEF InFlight
  <2>3. request' = [request EXCEPT ![r] = w1] \/ request' = [request EXCEPT ![r] = w2]
    BY DEF SaveUser, Step
  <2> HIDE DEF w1, w2, q
  <2> QED
    BY <2>1, <2>2, <2>3
<1>8. FreshRequest(w) /\ (w.record # None => Whole(w.record))
  BY <1>1, <1>7 DEF FreshRequest, Sound
<1>9. FreshRequest(w)'
  <2>1. w.record # None /\ w.record.user # None => w.record.hash[2] \in Hash
    BY <1>8 DEF InFlight, Record, Whole
  <2>2. w.record # None => FreshRecord(w.record)'
    BY <1>6, <1>8, <2>1 DEF FreshRequest, FreshRecord
  <2>3. w.found # None => w.found.row.password \in Hash /\ Fresh(w.found.row.password)
    BY <1>8 DEF InFlight, Object, Row, FreshRequest
  <2>4. w.found # None => Fresh(w.found.row.password)'
    BY <1>6, <2>3
  <2> QED
    BY <1>7, <2>2, <2>4 DEF FreshRequest
<1>10. request'[r] = w
  BY <1>7 DEF JInv, IInv, TypeOK
<1>11. FreshRequest(request[r])'
  BY <1>9, <1>10 DEF FreshRequest, FreshRecord, Fresh
<1>12. \A x \in Request : request'[x] \in {request[x], None} \/ FreshRequest(request[x])'
  BY <1>7, <1>11 DEF JInv, IInv, TypeOK
<1> QED
  BY <1>3, <1>5, <1>6, <1>12, TableJInv

LEMMA RespondJInv ==
  ASSUME JInv, IInv', NEW r \in Request, Respond(r)
  PROVE  JInv'
<1> DEFINE q == request[r]
<1>1. q \in InFlight /\ FreshRequest(q)
  BY LiveFresh DEF Respond, Running
<1>2. request' = [request EXCEPT ![r] = None] /\ users' = users /\ password' = password
  BY DEF Respond
<1>3. request \in [Request -> InFlight \cup {None}] /\ store \in [SessionId -> Record \cup {None}]
  BY DEF JInv, IInv, TypeOK
<1>4. ASSUME NEW x \in Request, request'[x] # None PROVE FreshRequest(request[x])'
  <2>1. request'[x] = request[x] /\ request[x] # None
    BY <1>2, <1>3, <1>4
  <2>2. FreshRequest(request[x])
    BY <2>1, LiveFresh
  <2> QED
    BY <1>2, <2>1, <2>2 DEF FreshRequest, FreshRecord, Fresh
<1>5. RequestsAreFresh'
  BY <1>4 DEF RequestsAreFresh, Live
<1>6. store' = store \/ \E s \in SessionId : store' = [store EXCEPT ![s] = q.record]
  BY <1>1 DEF Respond, InFlight
<1>7. ASSUME NEW s \in SessionId, store'[s] # None PROVE FreshRecord(store[s])'
  <2>1. store'[s] = store[s] \/ store'[s] = q.record
    BY <1>3, <1>6
  <2>2. store'[s] = store[s] => FreshRecord(store[s])
    BY <1>7 DEF JInv, StoreIsFresh
  <2>3. store'[s] = q.record => FreshRecord(q.record)
    BY <1>1, <1>7 DEF FreshRequest
  <2> QED
    BY <1>2, <2>1, <2>2, <2>3 DEF FreshRecord, Fresh
<1>8. StoreIsFresh'
  BY <1>7 DEF StoreIsFresh
<1>9. TableIsCurrent'
  BY <1>2 DEF JInv, TableIsCurrent
<1> QED
  BY <1>5, <1>8, <1>9 DEF JInv

LEMMA FailJInv ==
  ASSUME JInv, IInv', NEW r \in Request, Fail(r)
  PROVE  JInv'
<1>1. request' = [request EXCEPT ![r] = None] /\ UNCHANGED <<users, password, store>>
  BY DEF Fail
<1>2. TableIsCurrent'
  BY <1>1 DEF JInv, TableIsCurrent
<1>3. \A h \in Hash : Fresh(h) => Fresh(h)'
  BY <1>1 DEF Fresh
<1>4. \A x \in Request : request'[x] \in {request[x], None}
  BY <1>1 DEF JInv, IInv, TypeOK
<1> QED
  BY <1>1, <1>2, <1>3, <1>4, TableJInv

(* There is no hash of a user who is still to come.                         *)
LEMMA CreateUserJInv ==
  ASSUME JInv, IInv', NEW u \in UserId, NEW username \in Username, CreateUser(u, username)
  PROVE  JInv'
<1>1. /\ password[u] = 0 /\ hashes \in Nat
      /\ users' = [users EXCEPT ![u] = [username |-> username, password |-> NewHash(u, 1)]]
      /\ password' = [password EXCEPT ![u] = 1]
      /\ UNCHANGED <<store, request>>
  BY SessionAssumption DEF CreateUser, JInv, IInv, TypeOK
<1>2. users \in [UserId -> Row \cup {None}] /\ password \in [UserId -> 0..MaxPasswords]
  BY DEF JInv, IInv, TypeOK
<1>3. ASSUME NEW v \in Current, users'[v] # None
      PROVE  users'[v].password.password = password'[v] /\ users'[v].password.number # 0
  <2>1. CASE v = u
    BY <1>1, <1>2, <2>1 DEF NewHash, Current
  <2>2. CASE v # u
    BY <1>1, <1>2, <1>3, <2>2 DEF JInv, TableIsCurrent, Current
  <2> QED
    BY <2>1, <2>2
<1>4. TableIsCurrent'
  BY <1>3 DEF TableIsCurrent
<1>5. ASSUME NEW h \in Hash, Fresh(h) PROVE Fresh(h)'
  <2>1. h.user \in UserId /\ h.password \in 1..MaxPasswords
    BY DEF Hash
  <2>2. CASE h.user = u
    <3>1. h.user \notin Current
      BY <1>1, <1>5, <2>1, <2>2, SessionAssumption DEF Fresh
    <3> QED
      BY <3>1 DEF Fresh, Current
  <2>3. CASE h.user # u
    BY <1>1, <1>2, <1>5, <2>1, <2>3 DEF Fresh, Current
  <2> QED
    BY <2>2, <2>3
<1>6. \A x \in Request : request'[x] \in {request[x], None}
  BY <1>1
<1> QED
  BY <1>1, <1>4, <1>5, <1>6, TableJInv

(* Hashes of the password before the change are not of the last one.        *)
LEMMA ChangePasswordJInv ==
  ASSUME JInv, IInv', NEW u \in UserId, ChangePassword(u)
  PROVE  JInv'
<1> DEFINE n == password[u] + 1
<1>1. /\ users[u] # None /\ hashes \in Nat /\ password[u] \in Nat
      /\ users' = [users EXCEPT ![u] = [users[u] EXCEPT !.password = NewHash(u, n)]]
      /\ password' = [password EXCEPT ![u] = n]
      /\ UNCHANGED <<store, request>>
  BY SessionAssumption DEF ChangePassword, JInv, IInv, TypeOK
<1>2. users \in [UserId -> Row \cup {None}] /\ password \in [UserId -> 0..MaxPasswords]
  BY DEF JInv, IInv, TypeOK
<1>3. ASSUME NEW v \in Current, users'[v] # None
      PROVE  users'[v].password.password = password'[v] /\ users'[v].password.number # 0
  <2>1. CASE v = u
    <3>1. users[u] \in Row
      BY <1>1, <1>2
    <3>2. users'[v].password = NewHash(u, n) /\ password'[v] = n
      BY <1>1, <1>2, <2>1, <3>1 DEF Row
    <3>3. NewHash(u, n).password = n /\ NewHash(u, n).number # 0
      BY <1>1 DEF NewHash
    <3> QED
      BY <3>2, <3>3
  <2>2. CASE v # u
    BY <1>1, <1>2, <1>3, <2>2 DEF JInv, TableIsCurrent, Current
  <2> QED
    BY <2>1, <2>2
<1>4. TableIsCurrent'
  BY <1>3 DEF TableIsCurrent
<1>5. ASSUME NEW h \in Hash, Fresh(h) PROVE Fresh(h)'
  <2>1. h.user \in UserId /\ h.password \in Nat
    BY DEF Hash
  <2>2. CASE h.user = u
    <3>1. h.user \in Current => h.password <= password[u]
      BY <1>5, <2>2 DEF Fresh
    <3>2. password'[u] = password[u] + 1
      BY <1>1, <1>2
    <3>3. h.user \in Current => h.password < password'[h.user]
      BY <1>1, <2>1, <2>2, <3>1, <3>2
    <3>4. password'[h.user] \in Nat
      BY <1>1, <2>2, <3>2
    <3>5. h.user \in Current => h.password <= password'[h.user] /\ h.password # password'[h.user]
      BY <2>1, <3>3, <3>4
    <3> QED
      BY <3>5 DEF Fresh, Current
  <2>3. CASE h.user # u
    BY <1>1, <1>2, <1>5, <2>1, <2>3 DEF Fresh, Current
  <2> QED
    BY <2>2, <2>3
<1>6. \A x \in Request : request'[x] \in {request[x], None}
  BY <1>1
<1> QED
  BY <1>1, <1>4, <1>5, <1>6, TableJInv

LEMMA DeleteUserJInv ==
  ASSUME JInv, IInv', NEW u \in UserId, DeleteUser(u)
  PROVE  JInv'
<1>1. users' = [users EXCEPT ![u] = None] /\ UNCHANGED <<password, store, request>>
  BY DEF DeleteUser
<1>2. \A v \in UserId : users'[v] # None => users'[v] = users[v]
  BY <1>1 DEF JInv, IInv, TypeOK
<1>3. TableIsCurrent'
  BY <1>1, <1>2 DEF JInv, TableIsCurrent, Current
<1>4. \A h \in Hash : Fresh(h) => Fresh(h)'
  BY <1>1, <1>2 DEF Fresh, Current
<1>5. \A x \in Request : request'[x] \in {request[x], None}
  BY <1>1
<1> QED
  BY <1>1, <1>3, <1>4, <1>5, TableJInv

LEMMA RestartJInv ==
  ASSUME JInv, IInv', Restart
  PROVE  JInv'
<1>1. users' = users /\ password' = password /\ Live' = {}
      /\ (store' = store \/ store' = [s \in SessionId |-> None])
  BY DEF Restart, Live
<1>2. TableIsCurrent' /\ StoreIsFresh'
  BY <1>1 DEF JInv, TableIsCurrent, StoreIsFresh, FreshRecord, Fresh
<1>3. RequestsAreFresh'
  BY <1>1 DEF RequestsAreFresh
<1> QED
  BY <1>2, <1>3 DEF JInv

LEMMA UnchangedJInv ==
  ASSUME JInv, IInv', UNCHANGED vars
  PROVE  JInv'
<1>1. UNCHANGED <<users, password, store, request>>
  BY DEF vars
<1>2. TableIsCurrent'
  BY <1>1 DEF JInv, TableIsCurrent
<1>3. \A h \in Hash : Fresh(h) => Fresh(h)'
  BY <1>1 DEF Fresh
<1>4. \A x \in Request : request'[x] \in {request[x], None}
  BY <1>1
<1> QED
  BY <1>1, <1>2, <1>3, <1>4, TableJInv

LEMMA NextJInv == JInv /\ [Next]_vars => JInv'
<1> SUFFICES ASSUME JInv, [Next]_vars PROVE JInv'
  OBVIOUS
<1>1. IInv'
  BY NextIInv DEF JInv
<1> QED
  BY <1>1, BeginJInv, SavedIdJInv, FetchJInv, AuthenticateJInv, SaveUserJInv, LoginJInv,
     LogoutJInv, RespondJInv, FailJInv, CreateUserJInv, ChangePasswordJInv, DeleteUserJInv,
     RestartJInv, UnchangedJInv DEF Next

LEMMA JInvAlways == Spec => []JInv
BY InitJInv, NextJInv, PTL DEF Spec

(* Only the fetch itself ends a fetch with an answer.                       *)
LEMMA OnlyFetchAnswers ==
  ASSUME IInv, Next, NEW r \in Request, Running(r, "fetch"),
         request'[r] # None, request'[r].user # None
  PROVE  Fetch(r)
<1>1. request[r] \in InFlight /\ request[r].pc = "fetch" /\ request[r].user = None
  BY LiveRequest DEF Running, Sound
<1>2. request'[r] # request[r]
  BY <1>1
<1>3. request \in [Request -> InFlight \cup {None}]
  BY DEF IInv, TypeOK
<1>4. ~ \E c \in Client : Begin(r, c)
  BY <1>1 DEF Begin, Running
<1>5. ~SavedId(r) /\ ~Login(r) /\ ~Logout(r) /\ ~Respond(r) /\ ~Fail(r) /\ ~SaveUser(r)
  BY <1>1 DEF SavedId, Login, Logout, Respond, Fail, SaveUser, Calls, Running
<1>6. ~ \E u \in UserId : Authenticate(r, u)
  BY <1>1 DEF Authenticate, Calls, Running
<1>7. ASSUME NEW x \in Request, x # r,
             \/ \E c \in Client : Begin(x, c)
             \/ SavedId(x) \/ Fetch(x)
             \/ \E u \in UserId : Authenticate(x, u)
             \/ SaveUser(x) \/ Login(x) \/ Logout(x) \/ Respond(x) \/ Fail(x)
      PROVE  request'[r] = request[r]
  BY <1>3, <1>7 DEF Begin, SavedId, Fetch, Authenticate, SaveUser, Login, Logout, Respond, Fail,
       Call, Step
<1>8. ASSUME \E u \in UserId :
               \/ \E username \in Username : CreateUser(u, username)
               \/ ChangePassword(u) \/ DeleteUser(u)
      PROVE  request'[r] = request[r]
  BY <1>8 DEF CreateUser, ChangePassword, DeleteUser
<1>9. ~Restart
  BY DEF Restart
<1> QED
  BY <1>2, <1>4, <1>5, <1>6, <1>7, <1>8, <1>9 DEF Next

(* What a fetch finds out, for the user u of a session.                     *)
LEMMA FetchAnswers ==
  ASSUME JInv, NEW r \in Request, Fetch(r), NEW u \in UserId, request[r].record.user = u
  PROVE  /\ request'[r].user = u \/ request'[r].user = Anonymous
         /\ request'[r].user = u =>
              users[u] # None /\ request[r].record.hash[2] = users[u].password
         /\ request'[r].user = Anonymous =>
              users[u] = None \/ ~SessionHashValid(request[r], users[u])
<1> DEFINE q == request[r]
           row == users[u]
<1>1. q \in InFlight /\ Sound(q, secret_key) /\ q.pc = "fetch"
  BY LiveFresh DEF Fetch, Running
<1>2. q.record \in Record /\ q.record.hash # None
  BY <1>1, Nones DEF Sound, InFlight, Record, Whole
<1>3. request'[r] = Checked(q, row)
  BY DEF Fetch, Step, JInv, IInv, TypeOK
<1> HIDE DEF q, row
<1>4. CASE row = None \/ ~SessionHashValid(q, row)
  <2>1. Checked(q, row) = [LoggedOut(q) EXCEPT !.pc = "view"]
    BY <1>2, <1>4 DEF Checked
  <2>2. Checked(q, row).user = Anonymous
    BY <1>1, <2>1 DEF LoggedOut, InFlight
  <2> QED
    BY <1>3, <1>4, <2>2, Nones DEF q, row
<1>5. CASE row # None /\ SessionHashValid(q, row)
  <2>1. Checked(q, row) = Served(q, row)
    BY <1>2, <1>5 DEF Checked
  <2>2. Checked(q, row).user = q.record.user
    BY <1>1, <2>1 DEF Served, Inserted, InFlight
  <2>3. q.record.user = u
    BY DEF q
  <2>4. q.record.hash[2] = row.password
    BY <1>5 DEF SessionHashValid
  <2> QED
    BY <1>3, <1>5, <2>2, <2>3, <2>4, Nones DEF q, row
<1> QED
  BY <1>4, <1>5

(* A session serves a current user only with the last password.             *)
THEOREM OnlyTheLastPasswordServes == Spec => ServedKnowsPassword
<1>1. ASSUME JInv, [Next]_vars, NEW r \in Request, NEW u \in Current, Answers(r, u)
      PROVE  request[r].record.hash[2].password = password[u]
  <2>1. u \in UserId /\ IInv
    BY <1>1 DEF Current, JInv
  <2>2. Running(r, "fetch") /\ request[r].record.user = u /\ request'[r] # None /\ request'[r].user = u
    BY <1>1 DEF Answers
  <2>3. request'[r] # request[r]
    BY <2>1, <2>2, LiveRequest, Nones DEF Running, Sound
  <2>4. Next
    BY <1>1, <2>3 DEF vars
  <2>5. u # None
    BY <2>1, Nones
  <2>6. Fetch(r)
    BY <2>1, <2>2, <2>4, <2>5, OnlyFetchAnswers
  <2>7. users[u] # None /\ request[r].record.hash[2] = users[u].password
    BY <1>1, <2>1, <2>2, <2>6, FetchAnswers
  <2> QED
    BY <1>1, <2>7 DEF JInv, TableIsCurrent
<1>2. JInv /\ [Next]_vars =>
        [\A r \in Request : \A u \in Current :
           Answers(r, u) => request[r].record.hash[2].password = password[u]]_vars
  BY <1>1
<1> QED
  BY <1>2, JInvAlways, PTL DEF Spec, ServedKnowsPassword

(* A current user is logged out only for one of the three reasons.          *)
THEOREM RejectionsHaveAReason == Spec => RejectedForAReason
<1> DEFINE Reason(r, u) ==
      \/ users[u] = None
      \/ request[r].record.hash[2].password # password[u]
      \/ request[r].record.hash[1] \notin {secret_key} \cup fallback_secret_keys
<1>1. ASSUME JInv, [Next]_vars, NEW r \in Request, NEW u \in Current, Rejects(r, u)
      PROVE  Reason(r, u)
  <2> SUFFICES ASSUME users[u] # None, request[r].record.hash[2].password = password[u],
                      request[r].record.hash[1] \in {secret_key} \cup fallback_secret_keys
               PROVE  FALSE
    OBVIOUS
  <2>1. u \in UserId /\ IInv
    BY <1>1 DEF Current, JInv
  <2>2. Running(r, "fetch") /\ request[r].record.user = u /\ request'[r] # None
        /\ request'[r].user = Anonymous
    BY <1>1 DEF Rejects
  <2>3. /\ request[r] \in InFlight /\ Sound(request[r], secret_key) /\ FreshRequest(request[r])
        /\ request[r].pc = "fetch"
    BY <1>1, <2>2, LiveFresh DEF Running
  <2>4. request'[r] # request[r]
    BY <2>2, <2>3, Nones DEF Sound
  <2>5. Next
    BY <1>1, <2>4 DEF vars
  <2>6. Fetch(r)
    BY <2>1, <2>2, <2>5, Nones, OnlyFetchAnswers
  <2>7. ~SessionHashValid(request[r], users[u])
    BY <1>1, <2>1, <2>2, <2>6, FetchAnswers
  <2> DEFINE h == request[r].record.hash
  <2>8. request[r].record \in Record /\ h # None /\ h[2].user = u
    BY <2>1, <2>2, <2>3, Nones DEF Sound, InFlight, Whole
  <2>9. h \in Key \X Hash
    BY <2>8 DEF Record
  <2>10. h = <<h[1], h[2]>>
    BY <2>9
  <2>11. Fresh(h[2])
    BY <2>1, <2>2, <2>3, <2>8, Nones DEF FreshRequest, FreshRecord
  <2>12. h[2] = users[u].password
    BY <1>1, <2>8, <2>11 DEF Fresh
  <2>13. h = <<h[1], users[u].password>> /\ h[1] \in {secret_key} \cup fallback_secret_keys
    BY <2>10, <2>12
  <2> QED
    BY <2>7, <2>13 DEF SessionHashValid
<1>2. JInv /\ [Next]_vars =>
        [\A r \in Request : \A u \in Current : Rejects(r, u) => Reason(r, u)]_vars
  BY <1>1
<1> QED
  BY <1>2, JInvAlways, PTL DEF Spec, RejectedForAReason

(* No step brings a current user back.                                      *)
THEOREM DeletedUsersStayDeleted == Spec => DeletedStaysDeleted
<1>1. ASSUME JInv, [Next]_vars, NEW u \in Current, password[u] # 0, users[u] = None
      PROVE  users'[u] = None
  <2>1. users \in [UserId -> Row \cup {None}] /\ u \in UserId
    BY <1>1 DEF JInv, IInv, TypeOK, Current
  <2>2. ASSUME NEW r \in Request, SaveUser(r) PROVE users'[u] = None
    <3>1. request[r].found.id \notin Current
      BY <1>1, <2>2, LiveFresh DEF SaveUser, Running, FreshRequest
    <3>2. users' = users \/ users' = [users EXCEPT ![request[r].found.id] = request[r].found.row]
      BY <2>2 DEF SaveUser
    <3> QED
      BY <1>1, <2>1, <3>1, <3>2
  <2>3. ASSUME NEW v \in UserId,
               \/ \E username \in Username : CreateUser(v, username)
               \/ ChangePassword(v) \/ DeleteUser(v)
        PROVE  users'[u] = None
    <3>1. CASE v = u
      BY <1>1, <2>1, <2>3, <3>1 DEF CreateUser, ChangePassword, DeleteUser
    <3>2. CASE v # u
      BY <1>1, <2>1, <2>3, <3>2 DEF CreateUser, ChangePassword, DeleteUser
    <3> QED
      BY <3>1, <3>2
  <2>4. ASSUME NEW r \in Request,
               \/ \E c \in Client : Begin(r, c)
               \/ SavedId(r) \/ Fetch(r)
               \/ \E v \in UserId : Authenticate(r, v)
               \/ Login(r) \/ Logout(r) \/ Respond(r) \/ Fail(r)
        PROVE  users'[u] = None
    BY <1>1, <2>4 DEF Begin, SavedId, Fetch, Authenticate, Login, Logout, Respond, Fail
  <2>5. CASE Restart \/ UNCHANGED vars
    BY <1>1, <2>5 DEF Restart, vars
  <2> QED
    BY <1>1, <2>2, <2>3, <2>4, <2>5 DEF Next
<1>2. JInv /\ [Next]_vars =>
        [\A u \in Current : password[u] # 0 /\ users[u] = None => users'[u] = None]_vars
  BY <1>1
<1> QED
  BY <1>2, JInvAlways, PTL DEF Spec, DeletedStaysDeleted
==============================================================================
