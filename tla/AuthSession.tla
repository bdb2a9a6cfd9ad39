----------------------------- MODULE AuthSession -----------------------------
(***************************************************************************)
(* AuthRequestExt (src/cot/src/auth.rs) over DatabaseUserBackend           *)
(* (src/cot/src/auth/db.rs): requests that share the users' table and the  *)
(* sessions.  A request works on a copy of its session's record, read at   *)
(* the first use and written back as a whole when the response is sent.    *)
(*                                                                         *)
(* Every hash of a password is new (it is salted), so a hash is known by   *)
(* its number; obsolete hashes have number 0.  The passwords a user has    *)
(* had are numbered too.  HMAC is one-to-one: a session hash is the pair   *)
(* of the key and the hash.                                                *)
(***************************************************************************)
EXTENDS Naturals, Sequences

CONSTANTS
  Client,         \* browsers, each with a cookie for its session
  Request,        \* places for requests in flight
  SessionId,
  UserId,         \* Auto<i64>: 1, 2, ...
  Username,
  InitialNames,   \* the usernames of the first users, by id
  ObsoleteUsers,  \* those of them whose hash is of an outdated algorithm
  Configs,        \* the configurations of successive starts of the server
  MaxHashes,      \* bound: hashes made
  MaxPasswords,   \* bound: passwords a user has
  MaxCalls,       \* bound: calls of AuthRequestExt by one view
  Anonymous,      \* the AnonymousUser
  None

Key == UNION {{c.secret_key} \cup c.fallback_secret_keys : c \in {Configs[i] : i \in DOMAIN Configs}}
Hash == [user : UserId, password : 1..MaxPasswords, number : 0..MaxHashes]
Row == [username : Username, password : Hash]
Record == [user : UserId \cup {None}, hash : (Key \X Hash) \cup {None}]
Object == [id : UserId, row : Row]

ASSUME SessionAssumption ==
  /\ UserId \subseteq Nat \ {0}
  /\ InitialNames \in Seq(Username)
  /\ \A i, j \in DOMAIN InitialNames : InitialNames[i] = InitialNames[j] => i = j
  /\ DOMAIN InitialNames \subseteq UserId
  /\ ObsoleteUsers \subseteq DOMAIN InitialNames
  /\ MaxHashes \in Nat /\ DOMAIN InitialNames \subseteq 1..MaxHashes
  /\ MaxPasswords \in Nat \ {0} /\ MaxCalls \in Nat
  /\ Configs # <<>> /\ DOMAIN Configs = 1..Len(Configs)
  /\ Anonymous # None /\ Anonymous \notin UserId
  /\ None \notin UserId \cup Record \cup Row \cup Object \cup SessionId \cup (Key \X Hash)

VARIABLES
  config,    \* the configuration of the running server
  users,     \* the table of DatabaseUser
  hashes,    \* hashes made so far
  password,  \* the last password given to each user, 0 before there is one
  store,     \* the session store
  cookie,    \* the session id each client sends
  request    \* the requests in flight
vars == <<config, users, hashes, password, store, cookie, request>>

secret_key == Configs[config].secret_key
fallback_secret_keys == Configs[config].fallback_secret_keys
Empty == [user |-> None, hash |-> None]

InFlight == [pc : {"view", "fetch", "save", "panicked"}, client : Client,
             sid : SessionId \cup {None}, record : Record \cup {None}, modified : BOOLEAN,
             user : UserId \cup {Anonymous, None},  \* the UserExtension
             found : Object \cup {None},            \* the result of authenticate
             calls : 0..MaxCalls]

TypeOK ==
  /\ config \in DOMAIN Configs
  /\ users \in [UserId -> Row \cup {None}]
  /\ hashes \in 0..MaxHashes
  /\ password \in [UserId -> 0..MaxPasswords]
  /\ store \in [SessionId -> Record \cup {None}]
  /\ cookie \in [Client -> SessionId \cup {None}]
  /\ request \in [Request -> InFlight \cup {None}]

Init ==
  /\ config = 1
  /\ users = [u \in UserId |->
       IF u \in DOMAIN InitialNames
         THEN [username |-> InitialNames[u],
               password |-> [user |-> u, password |-> 1,
                             number |-> IF u \in ObsoleteUsers THEN 0 ELSE u]]
         ELSE None]
  /\ hashes = Len(InitialNames)
  /\ password = [u \in UserId |-> IF u \in DOMAIN InitialNames THEN 1 ELSE 0]
  /\ store = [s \in SessionId |-> None]
  /\ cookie = [c \in Client |-> None]
  /\ request = [r \in Request |-> None]

-----------------------------------------------------------------------------
(* The session's record is read from the store when it is first used; a     *)
(* session that is not there is a new one.                                  *)
Loaded(q) ==
  IF q.record # None THEN q
  ELSE IF q.sid = None THEN [q EXCEPT !.record = Empty]
  ELSE IF store[q.sid] = None THEN [q EXCEPT !.sid = None, !.record = Empty]
  ELSE [q EXCEPT !.record = store[q.sid]]

Inserted(q, record) ==
  [q EXCEPT !.record = record, !.modified = @ \/ record # q.record]

(* logout                                                                   *)
LoggedOut(q) ==
  [q EXCEPT !.record = Empty, !.modified = TRUE, !.user = Anonymous]

Running(r, pc) == request[r] # None /\ request[r].pc = pc
Calls(r) == Running(r, "view") /\ request[r].calls # 0
Step(r, q) ==
  /\ request' = [request EXCEPT ![r] = q]
  /\ UNCHANGED <<config, password, store, cookie>>
Call(r, q) == Step(r, [q EXCEPT !.calls = @ - 1])

Begin(r, c) ==
  /\ request[r] = None
  /\ request' = [request EXCEPT ![r] =
       [pc |-> "view", client |-> c, sid |-> cookie[c], record |-> None, modified |-> FALSE,
        user |-> None, found |-> None, calls |-> MaxCalls]]
  /\ UNCHANGED <<config, users, hashes, password, store, cookie>>

(* user(), when no extension is set yet: the id saved in the session ...    *)
SavedId(r) ==
  /\ Calls(r)
  /\ request[r].user = None
  /\ LET q == Loaded(request[r])
     IN  Call(r, IF q.record.user = None THEN LoggedOut(q) ELSE [q EXCEPT !.pc = "fetch"])
  /\ UNCHANGED <<users, hashes>>

(* Mutant: the session hash is not checked.                                 *)
AnyHashValid(q, row) == q.record.hash # None

(* Mutant: fallback keys are not tried.                                     *)
PrimaryHashValid(q, row) == q.record.hash = <<secret_key, row.password>>

(* session_auth_hash_valid                                                  *)
SessionHashValid(q, row) ==
  \E key \in {secret_key} \cup fallback_secret_keys : q.record.hash = <<key, row.password>>

(* Mutant: the session hash is not renewed when a fallback key matched.     *)
ServedAsIs(q, row) == [q EXCEPT !.pc = "view", !.user = q.record.user]

Served(q, row) ==
  [Inserted(q, [q.record EXCEPT !.hash = <<secret_key, row.password>>])
     EXCEPT !.pc = "view", !.user = q.record.user]

(* get_user_with_saved_id, once the row is there; the second case is the    *)
(* expect in session_auth_hash_valid.                                       *)
Checked(q, row) ==
  CASE row = None -> [LoggedOut(q) EXCEPT !.pc = "view"]
    [] row # None /\ q.record.hash = None -> [q EXCEPT !.pc = "panicked"]
    [] row # None /\ q.record.hash # None ->
         IF SessionHashValid(q, row) THEN Served(q, row) ELSE [LoggedOut(q) EXCEPT !.pc = "view"]

(* ... and the user with that id.                                           *)
Fetch(r) ==
  /\ Running(r, "fetch")
  /\ Step(r, Checked(request[r], users[request[r].record.user]))
  /\ UNCHANGED <<users, hashes>>

(* Mutant: every hash is upgraded.                                          *)
AlwaysObsolete(row) == row.password.number < MaxHashes
(* is_hash_obsolete                                                         *)
Obsolete(row) == row.password.number = 0
NewHash(u, p) == [user |-> u, password |-> p, number |-> hashes + 1]

(* authenticate with the right password; nothing changes with a wrong one.  *)
(* It is never a view's last call.                                          *)
Authenticate(r, u) ==
  /\ Calls(r) /\ request[r].calls > 1
  /\ users[u] # None
  /\ UNCHANGED users
  /\ \/ /\ ~Obsolete(users[u])
        /\ Call(r, [request[r] EXCEPT !.found = [id |-> u, row |-> users[u]]])
        /\ UNCHANGED hashes
     \/ /\ Obsolete(users[u])
        /\ hashes < MaxHashes
        /\ hashes' = hashes + 1
        /\ Call(r, [request[r] EXCEPT !.pc = "save",
             !.found = [id |-> u, row |-> [users[u] EXCEPT !.password = NewHash(u, @.password)]]])

Taken(username) == \E u \in UserId : users[u] # None /\ users[u].username = username

(* OkObsolete: the user object, as it was read, is saved with the new hash  *)
(* (an INSERT that becomes an UPDATE if there is a row with this id).  If   *)
(* another user has the username by then it is an error, as on SQLite and   *)
(* PostgreSQL.  Left out: MySQL updates the other user's row instead, id    *)
(* included (see Clash in Orm).                                             *)
SaveUser(r) ==
  /\ Running(r, "save")
  /\ LET u == request[r].found.id
         row == request[r].found.row
     IN  \/ /\ users[u] # None \/ ~Taken(row.username)
            /\ users' = [users EXCEPT ![u] = row]
            /\ Step(r, [request[r] EXCEPT !.pc = "view"])
         \/ /\ users[u] = None /\ Taken(row.username)
            /\ Step(r, [request[r] EXCEPT !.pc = "view", !.found = None])
            /\ UNCHANGED users
  /\ UNCHANGED hashes

(* Mutant: the session gets no hash.                                        *)
LoginIdOnly(r) ==
  /\ Calls(r)
  /\ request[r].found # None
  /\ LET q == Loaded(request[r])
     IN  Call(r, [Inserted(q, [q.record EXCEPT !.user = q.found.id])
                    EXCEPT !.user = q.found.id, !.found = None])
  /\ UNCHANGED <<users, hashes>>

(* login of the user that authenticate returned.                            *)
Login(r) ==
  /\ Calls(r)
  /\ request[r].found # None
  /\ LET q == Loaded(request[r])
     IN  Call(r, [Inserted(q, [user |-> q.found.id,
                               hash |-> <<secret_key, q.found.row.password>>])
                    EXCEPT !.user = q.found.id, !.found = None])
  /\ UNCHANGED <<users, hashes>>

Logout(r) ==
  /\ Calls(r)
  /\ Call(r, LoggedOut(Loaded(request[r])))
  /\ UNCHANGED <<users, hashes>>

(* The view returns a response: a session that was modified is written, as  *)
(* a new one if it has no id; a cookie for a session not there is removed.  *)
Respond(r) ==
  /\ Running(r, "view")
  /\ LET q == request[r]
         save(s) == /\ store' = [store EXCEPT ![s] = q.record]
                    /\ cookie' = [cookie EXCEPT ![q.client] = s]
     IN  \/ /\ q.sid # None /\ q.modified
            /\ save(q.sid)
         \/ /\ q.sid = None /\ q.record \notin {Empty, None}
            /\ \E s \in SessionId : store[s] = None /\ s \notin {cookie[c] : c \in Client} /\ save(s)
         \/ /\ q.sid = None /\ q.record \in {Empty, None}
            /\ cookie' = [cookie EXCEPT ![q.client] = None]
            /\ UNCHANGED store
         \/ /\ q.sid # None /\ ~q.modified
            /\ UNCHANGED <<store, cookie>>
  /\ request' = [request EXCEPT ![r] = None]
  /\ UNCHANGED <<config, users, hashes, password>>

(* The view returns an error or panics: nothing is written.                 *)
Fail(r) ==
  /\ Running(r, "view") \/ Running(r, "panicked")
  /\ request' = [request EXCEPT ![r] = None]
  /\ UNCHANGED <<config, users, hashes, password, store, cookie>>

-----------------------------------------------------------------------------
(* create_user, with an id that was never used                              *)
CreateUser(u, username) ==
  /\ password[u] = 0 /\ \A v \in UserId : v < u => password[v] # 0
  /\ ~Taken(username)
  /\ hashes < MaxHashes
  /\ hashes' = hashes + 1
  /\ users' = [users EXCEPT ![u] = [username |-> username, password |-> NewHash(u, 1)]]
  /\ password' = [password EXCEPT ![u] = 1]
  /\ UNCHANGED <<config, store, cookie, request>>

(* The application changes a user's password, or deletes the user.          *)
ChangePassword(u) ==
  /\ users[u] # None
  /\ password[u] < MaxPasswords /\ hashes < MaxHashes
  /\ hashes' = hashes + 1
  /\ password' = [password EXCEPT ![u] = @ + 1]
  /\ users' = [users EXCEPT ![u].password = NewHash(u, password[u] + 1)]
  /\ UNCHANGED <<config, store, cookie, request>>
DeleteUser(u) ==
  /\ users[u] # None
  /\ users' = [users EXCEPT ![u] = None]
  /\ UNCHANGED <<config, hashes, password, store, cookie, request>>

(* The server is restarted with other keys; a session store in memory, as   *)
(* that of SessionMiddleware, is lost, others are not.                      *)
Restart ==
  /\ config + 1 \in DOMAIN Configs
  /\ config' = config + 1
  /\ request' = [r \in Request |-> None]
  /\ store' \in {store, [s \in SessionId |-> None]}
  /\ UNCHANGED <<users, hashes, password, cookie>>

Next ==
  \/ \E r \in Request :
       \/ \E c \in Client : Begin(r, c)
       \/ SavedId(r) \/ Fetch(r)
       \/ \E u \in UserId : Authenticate(r, u)
       \/ SaveUser(r) \/ Login(r) \/ Logout(r) \/ Respond(r) \/ Fail(r)
  \/ \E u \in UserId :
       \/ \E username \in Username : CreateUser(u, username)
       \/ ChangePassword(u) \/ DeleteUser(u)
  \/ Restart

Spec == Init /\ [][Next]_vars

-----------------------------------------------------------------------------
Records == {store[s] : s \in SessionId} \cup
           {request[r].record : r \in {q \in Request : request[q] # None}}

(* Whatever requests do to their copies of a session, and in whatever order *)
(* the copies are written back, a session that names a user has a hash made *)
(* from a password hash of that very user: the expect in                    *)
(* session_auth_hash_valid, and the hash check, rely on it.                 *)
SessionsAreWhole ==
  \A d \in Records \ {None} :
    IF d.user = None THEN d.hash = None
    ELSE d.hash # None /\ d.hash[2].user = d.user

(* What user() answers in a request agrees with the session that will be    *)
(* written back, whose hash is then under the present key, also after       *)
(* several logins and logouts in one request.                               *)
ExtensionAgrees ==
  \A r \in {q \in Request : request[q] # None} :
    LET q == request[r]
    IN  /\ q.user = Anonymous => q.record = Empty
        /\ q.user \in UserId => q.record.user = q.user /\ q.record.hash[1] = secret_key
        /\ q.pc # "panicked"

(* user() finds the user in this step, and finds no user in that one.       *)
Answers(r, u) == Running(r, "fetch") /\ request[r].record.user = u /\ request'[r] # None
                   /\ request'[r].user = u
Rejects(r, u) == Running(r, "fetch") /\ request[r].record.user = u /\ request'[r] # None
                   /\ request'[r].user = Anonymous

Current == UserId \ ObsoleteUsers

(* A session in which a user logged in stays the user's until the password  *)
(* changes, and not longer ("when a user changes their password, the        *)
(* session hash is also changed, and all their sessions are invalidated").  *)
ServedKnowsPassword ==
  [][\A r \in Request : \A u \in Current :
       Answers(r, u) => request[r].record.hash[2].password = password[u]]_vars

(* The same for users whose hash has still to be upgraded.                  *)
AnyServedKnowsPassword ==
  [][\A r \in Request : \A u \in UserId :
       Answers(r, u) => request[r].record.hash[2].password = password[u]]_vars

(* Nobody is logged out without a reason: the user is gone, has changed the *)
(* password since the login, or the session was last used under a key that  *)
(* is no longer accepted.                                                   *)
RejectedForAReason ==
  [][\A r \in Request : \A u \in Current :
       Rejects(r, u) =>
         \/ users[u] = None
         \/ request[r].record.hash[2].password # password[u]
         \/ request[r].record.hash[1] \notin {secret_key} \cup fallback_secret_keys]_vars

(* A user who was deleted does not come back, not under another name either.*)
DeletedStaysDeleted ==
  [][\A u \in Current : password[u] # 0 /\ users[u] = None => users'[u] = None]_vars
==============================================================================
