----------------------------- MODULE Server_proofs -----------------------------
(***************************************************************************)
(* No request is served before the start is complete, connections are lost *)
(* for two reasons only, and an error page shows the place of its own      *)
(* panic: for any number of threads and requests, any applications and     *)
(* files, any configurations, and whatever views and handlers do.          *)
(*                                                                         *)
(* The start and the requests change different variables: the invariant    *)
(* has a part for each.  For the second part the steps of a request's      *)
(* handler fall into three kinds, whatever view it is that takes them.     *)
(*                                                                         *)
(* And what the server makes of what was sent: forms are heard as they     *)
(* were filled in, and the admin's pages are for those who have logged in. *)
(* build_context and the browser's sending go through sequences: they are  *)
(* followed element by element, by induction over how many there are.      *)
(***************************************************************************)
EXTENDS Server, WellFoundedInduction, TLAPS

Phases == {"Uninitialized", "WithConfig", "WithApps", "Initialized", "Bound", "Migrated",
           "Initializing", "Ready", "Serving", "Done", "Failed"}
BootInv ==
  /\ phase \in Phases
  /\ config \in Configs
  /\ hook = IF phase = "Serving" /\ config.register_panic_hook THEN "error_page" ELSE "default"
  /\ phase \in {"WithApps", "Initialized", "Bound", "Migrated", "Ready", "Serving"} => apps = Apps
  /\ phase = "Initializing" => taken = Apps
  /\ phase \in {"Initialized", "Bound", "Migrated", "Initializing", "Ready", "Serving"} =>
       files = StaticFiles(Apps)
  /\ phase \in {"Uninitialized", "WithConfig", "WithApps", "Initialized", "Bound", "Done"} => ~migrated
  /\ phase \in {"Migrated", "Initializing", "Ready", "Serving"} => migrated = config.database
  /\ phase \in {"Bound", "Migrated", "Initializing", "Ready", "Serving"} => command = "run"
  /\ migrated => command = "run"

(* A thread whose request has just panicked, before the page is built.      *)
Panicked(t) ==
  /\ polled[t] \in Request
  /\ at[polled[t]] = "caught"
  /\ outcome[polled[t]].kind = "panic" /\ outcome[polled[t]].hooked
Shown(r) == IF config.register_panic_hook THEN r ELSE None

Types ==
  /\ at \in [Request -> {"client", "waiting", "middleware", "view", "authenticate", "caught",
                         "answered", "dropped"}]
  /\ polled \in [Thread -> Request \cup {None}]
  /\ DOMAIN location = Thread
  /\ DOMAIN outcome = Request
  /\ DOMAIN answer = Request
WhereTheyAre ==
  /\ \A r \in Request : at[r] # "client" => command = "run"
  /\ \A r \in Request : at[r] \in {"middleware", "view", "authenticate", "caught", "answered"} =>
                          phase = "Serving"
  /\ \A t \in Thread : polled[t] # None => phase = "Serving"
  /\ \A t, u \in Thread : polled[t] = polled[u] /\ polled[t] # None => t = u
  /\ \A r \in Request : answer[r] # None => at[r] = "answered"
  /\ \A r \in Request : at[r] = "caught" =>
                          outcome[r].kind \in {"response", "trigger", "error", "panic"}
Places ==
  /\ hook = "default" => \A t \in Thread : location[t] = None
  /\ config.debug => \A t \in Thread :
       IF Panicked(t) THEN location[t] = Shown(polled[t]) ELSE location[t] \in {None, "elsewhere"}
RequestInv == Types /\ WhereTheyAre /\ Places /\ OwnLocation /\ DroppedForAReason

-----------------------------------------------------------------------------
(* What StaticFiles serves: every file of every app.                        *)
LEMMA StaticFilesDomain == DOMAIN StaticFiles(Apps) = UNION {Apps[k].files : k \in DOMAIN Apps}
<1>1. \A k \in DOMAIN Apps : Apps[k] \in App
  BY ServerAssumption
<1>2. \A k \in DOMAIN Apps : Apps[k].files \subseteq Files
  BY <1>1 DEF App
<1> QED BY <1>2 DEF StaticFiles

LEMMA BootInit == Init => BootInv
BY DEF Init, BootInv, Phases

(* The start: one stage after the other.                                    *)
LEMMA BootStart == ASSUME BootInv, Start \/ Fail PROVE BootInv'
<1> USE DEF BootInv, Phases, Advance
<1>0. config.database \in BOOLEAN
  BY ServerAssumption
<1>1. CASE WithConfig BY <1>1 DEF WithConfig
<1>2. CASE WithApps BY <1>2 DEF WithApps
<1>3. CASE CollectStatic BY <1>3 DEF CollectStatic
<1>4. CASE Boot BY <1>4 DEF Boot
<1>5. CASE Check BY <1>5 DEF Check
<1>6. CASE Bind BY <1>6 DEF Bind
<1>7. CASE Migrate BY <1>0, <1>7 DEF Migrate
<1>8. CASE TakeApps BY <1>8 DEF TakeApps
<1>9. CASE InitApps BY <1>9 DEF InitApps
<1>10. CASE Serve BY <1>10 DEF Serve
<1>11. CASE Fail BY <1>11 DEF Fail, MayFail
<1> QED BY <1>1, <1>2, <1>3, <1>4, <1>5, <1>6, <1>7, <1>8, <1>9, <1>10, <1>11 DEF Start

LEMMA BootKept == ASSUME BootInv, UNCHANGED boot PROVE BootInv'
BY DEF BootInv, boot, StaticFiles

-----------------------------------------------------------------------------
(* The steps of handlers: a request goes on to another place, or its        *)
(* handler comes to its end, with a panic that ran the hook or without.     *)
Moves(t, r) ==
  /\ polled' = polled \/ polled' = [polled EXCEPT ![t] = None]
  /\ polled[t] = r /\ at[r] \in {"middleware", "view", "authenticate"}
  /\ at' = at \/ \E place \in {"view", "authenticate"} : at' = [at EXCEPT ![r] = place]
  /\ UNCHANGED <<location, outcome, answer>>
Finishes(t, r, result) ==
  /\ polled[t] = r /\ at[r] \in {"middleware", "view", "authenticate"}
  /\ result.kind \in {"response", "trigger", "error", "panic"}
  /\ Ends(r, result)
  /\ IF result.kind = "panic" /\ result.hooked THEN PanicHook(t, r)
     ELSE UNCHANGED location \/ PanicHook(t, "elsewhere")
  /\ UNCHANGED <<polled, answer>>
Handler(t, r) ==
  Handle(t, r) \/ View(t, r) \/ FormView(t, r) \/ LoginView(t, r) \/ Authenticate(t, r) \/ AdminView(t, r)

LEMMA HandlerShape ==
  ASSUME NEW t \in Thread, NEW r \in Request, Wait(t, r) \/ Handler(t, r)
  PROVE  (Moves(t, r) \/ \E result : Finishes(t, r, result)) /\ UNCHANGED <<boot, input>>
<1>1. ASSUME polled[t] = r, at[r] \in {"middleware", "view", "authenticate"},
             NEW result, result.kind \in {"response", "trigger", "error"}, Ends(r, result),
             UNCHANGED location \/ PanicHook(t, "elsewhere"), UNCHANGED <<polled, answer>>
      PROVE  \E x : Finishes(t, r, x)
  <2>1. Finishes(t, r, result)
    BY <1>1 DEF Finishes
  <2> QED BY <2>1
<1>2. ASSUME polled[t] = r, at[r] \in {"middleware", "view", "authenticate"},
             NEW hooked \in BOOLEAN, Ends(r, Panic(hooked)),
             IF hooked THEN PanicHook(t, r) ELSE UNCHANGED location \/ PanicHook(t, "elsewhere"),
             UNCHANGED <<polled, answer>>
      PROVE  \E x : Finishes(t, r, x)
  <2>1. Panic(hooked).kind = "panic" /\ Panic(hooked).hooked = hooked
    BY DEF Panic
  <2>2. Finishes(t, r, Panic(hooked))
    BY <1>2, <2>1 DEF Finishes
  <2> QED BY <2>2
<1>3. /\ \A name, content : Page(name, content).kind = "response"
      /\ NotFound.kind = "trigger" /\ Error.kind = "error"
  BY DEF Page, NotFound, Error
<1>4. CASE Wait(t, r)
  BY <1>4 DEF Wait, Moves
<1>5. CASE Handle(t, r)
  BY <1>1, <1>3, <1>5 DEF Handle, Moves
<1>6. CASE View(t, r)
  <2> DEFINE Caught == UNCHANGED location \/ PanicHook(t, "elsewhere")
  <2>1. CASE \E result \in {Page("app", None), Error} : Ends(r, result) /\ Caught
    BY <1>1, <1>3, <1>6, <2>1 DEF View
  <2>2. CASE Ends(r, Panic(FALSE)) /\ Caught
    BY <1>2, <1>6, <2>2 DEF View
  <2>3. CASE Ends(r, Panic(TRUE)) /\ PanicHook(t, r)
    BY <1>2, <1>6, <2>3 DEF View
  <2> QED BY <1>6, <2>1, <2>2, <2>3 DEF View
<1>7. CASE FormView(t, r)
  BY <1>1, <1>3, <1>7 DEF FormView
<1>8. CASE LoginView(t, r)
  <2> DEFINE result == from_request(LoginForm, body[r])
  <2>0. /\ polled[t] = r /\ at[r] \in {"middleware", "view", "authenticate"}
        /\ UNCHANGED <<boot, input, waits, signed_in, polled, answer>>
    BY <1>8 DEF LoginView
  <2>1. \/ Ends(r, Page("login", build_context(LoginForm, body[r]))) /\ UNCHANGED location
        \/ Ends(r, Error) /\ UNCHANGED location
        \/ Ends(r, Page("login", result.context)) /\ UNCHANGED location
        \/ at' = [at EXCEPT ![r] = "authenticate"] /\ UNCHANGED <<outcome, location>>
        \/ Ends(r, Panic(TRUE)) /\ PanicHook(t, r)
    BY <1>8 DEF LoginView
  <2> HIDE DEF result
  <2>2. CASE at' = [at EXCEPT ![r] = "authenticate"] /\ UNCHANGED <<outcome, location>>
    BY <2>0, <2>2 DEF Moves
  <2>3. CASE Ends(r, Panic(TRUE)) /\ PanicHook(t, r)
    BY <1>2, <2>0, <2>3
  <2>4. ASSUME NEW ending, Ends(r, ending), UNCHANGED location, ending.kind \in {"response", "error"}
        PROVE  \E x : Finishes(t, r, x)
    BY <1>1, <2>0, <2>4
  <2>5. CASE Ends(r, Page("login", build_context(LoginForm, body[r]))) /\ UNCHANGED location
    BY <1>3, <2>0, <2>4, <2>5
  <2>6. CASE Ends(r, Page("login", result.context)) /\ UNCHANGED location
    BY <1>3, <2>0, <2>4, <2>6
  <2>7. CASE Ends(r, Error) /\ UNCHANGED location
    BY <1>3, <2>0, <2>4, <2>7
  <2> QED BY <2>0, <2>1, <2>2, <2>3, <2>5, <2>6, <2>7
<1>9. CASE Authenticate(t, r)
  BY <1>1, <1>3, <1>9 DEF Authenticate
<1>10. CASE AdminView(t, r)
  <2>1. CASE Ends(r, Panic(TRUE)) /\ PanicHook(t, r)
    BY <1>2, <1>10, <2>1 DEF AdminView
  <2>2. ASSUME NEW ending, Ends(r, ending), UNCHANGED location, ending.kind \in {"response", "error"}
        PROVE  \E x : Finishes(t, r, x)
    BY <1>1, <1>10, <2>2 DEF AdminView
  <2>3. /\ UNCHANGED <<boot, input>>
        /\ \/ Ends(r, Page("redirect", "login")) /\ UNCHANGED location
           \/ Ends(r, Page("models", model_managers)) /\ UNCHANGED location
           \/ Ends(r, Page("objects", input[r].target)) /\ UNCHANGED location
           \/ Ends(r, Panic(TRUE)) /\ PanicHook(t, r)
           \/ Ends(r, Error) /\ UNCHANGED location
    BY <1>10 DEF AdminView
  <2>4. CASE Ends(r, Page("redirect", "login")) /\ UNCHANGED location
    BY <1>3, <2>2, <2>3, <2>4
  <2>5. CASE Ends(r, Page("models", model_managers)) /\ UNCHANGED location
    BY <1>3, <2>2, <2>3, <2>5
  <2>6. CASE Ends(r, Page("objects", input[r].target)) /\ UNCHANGED location
    BY <1>3, <2>2, <2>3, <2>6
  <2>7. CASE Ends(r, Error) /\ UNCHANGED location
    BY <1>3, <2>2, <2>3, <2>7
  <2> QED BY <2>1, <2>3, <2>4, <2>5, <2>6, <2>7
<1> QED BY <1>4, <1>5, <1>6, <1>7, <1>8, <1>9, <1>10 DEF Handler

-----------------------------------------------------------------------------
LEMMA RequestInit == Init => RequestInv
BY DEF Init, RequestInv, Types, WhereTheyAre, Places, Panicked, OwnLocation, DroppedForAReason, Failed

(* The properties, for one request.                                         *)
OwnPlace(r) ==
  IF Failed(r) /\ config.debug /\ outcome[r].kind = "panic"
  THEN IF outcome[r].hooked THEN answer[r].location = Shown(r) ELSE answer[r].location \in {None, "elsewhere"}
  ELSE answer[r].location = None
Excused(r) == phase = "Failed" \/ (~config.debug /\ Failed(r) /\ input[r].handler = "panics")

(* They are not lost for those who have been answered or dropped.           *)
LEMMA EndedStay ==
  ASSUME RequestInv, UNCHANGED <<config, input>>, phase = "Failed" => phase' = "Failed",
         \A q \in Request : at[q] \in {"answered", "dropped"} => outcome'[q] = outcome[q]
  PROVE  /\ \A q \in Request : answer[q] # None /\ answer'[q] = answer[q] => OwnPlace(q)'
         /\ \A q \in Request : at[q] = "dropped" => Excused(q)'
<1>1. ASSUME NEW q \in Request, answer[q] # None, answer'[q] = answer[q] PROVE OwnPlace(q)'
  <2>1. OwnPlace(q) /\ at[q] = "answered"
    BY <1>1 DEF RequestInv, OwnLocation, OwnPlace, Shown, WhereTheyAre
  <2> QED BY <1>1, <2>1 DEF OwnPlace, Shown, Failed
<1>2. ASSUME NEW q \in Request, at[q] = "dropped" PROVE Excused(q)'
  BY <1>2 DEF RequestInv, DroppedForAReason, Excused, Failed
<1> QED BY <1>1, <1>2

LEMMA ByRequest ==
  /\ (\A q \in Request : answer'[q] # None => OwnPlace(q)') => OwnLocation'
  /\ (\A q \in Request : at'[q] = "dropped" => Excused(q)') => DroppedForAReason'
BY DEF OwnLocation, DroppedForAReason, OwnPlace, Excused, Shown

(* The start leaves the requests alone, except that Fail drops those who    *)
(* wait.                                                                    *)
LEMMA RequestStart ==
  ASSUME BootInv, RequestInv, Start \/ Fail
  PROVE  RequestInv'
<1>1. /\ phase \notin {"Serving", "Failed"}
      /\ UNCHANGED <<config, command, input, polled, location, outcome, answer>>
      /\ \/ UNCHANGED at
         \/ /\ phase' = "Failed"
            /\ at' = [r \in Request |-> IF at[r] = "waiting" THEN "dropped" ELSE at[r]]
  <2>1. CASE Fail
    BY <2>1 DEF Fail, MayFail
  <2>2. CASE Start
    BY <2>2 DEF Start, WithConfig, WithApps, CollectStatic, Boot, Check, Bind, Migrate, TakeApps,
                InitApps, Serve, Advance, served
  <2> QED BY <2>1, <2>2
<1>2. Types'
  BY <1>1 DEF RequestInv, Types
<1>3. WhereTheyAre'
  BY <1>1 DEF RequestInv, Types, WhereTheyAre
<1>4. /\ hook = "default"
      /\ \A t \in Thread : ~Panicked(t)' /\ ~Panicked(t)
  BY <1>1 DEF BootInv, RequestInv, Types, WhereTheyAre, Panicked
<1>5. Places'
  BY <1>1, <1>4 DEF RequestInv, Places
<1>6. OwnLocation' /\ DroppedForAReason'
  <2>1. \A q \in Request : at'[q] = "dropped" => at[q] = "dropped" \/ phase' = "Failed"
    BY <1>1
  <2> QED BY <1>1, <2>1, EndedStay, ByRequest DEF Excused
<1> QED BY <1>2, <1>3, <1>5, <1>6 DEF RequestInv

-----------------------------------------------------------------------------
(* Requests before and between their polls.                                 *)
LEMMA RequestConnect ==
  ASSUME BootInv, RequestInv, NEW r \in Request, Connect(r)
  PROVE  RequestInv'
<1> USE DEF Connect, boot
<1>1. Types'
  BY DEF RequestInv, Types
<1>2. WhereTheyAre'
  BY DEF BootInv, RequestInv, Types, WhereTheyAre
<1>3. \A t \in Thread : Panicked(t)' <=> Panicked(t)
  BY DEF RequestInv, Types, Panicked
<1>4. Places'
  BY <1>3 DEF RequestInv, Places, Shown
<1>5. OwnLocation' /\ DroppedForAReason'
  BY EndedStay, ByRequest DEF RequestInv, Types
<1> QED BY <1>1, <1>2, <1>4, <1>5 DEF RequestInv

LEMMA RequestPoll ==
  ASSUME BootInv, RequestInv, NEW t \in Thread, NEW r \in Request, Poll(t, r)
  PROVE  RequestInv'
<1> USE DEF Poll, boot, Suspended
<1>0. None \notin Request
  BY ServerAssumption
<1>1. Types'
  BY DEF RequestInv, Types
<1>2. WhereTheyAre'
  BY <1>0 DEF RequestInv, Types, WhereTheyAre
<1>3. \A u \in Thread : Panicked(u)' <=> Panicked(u)
  BY <1>0 DEF RequestInv, Types, Panicked
<1>4. \A u \in Thread : Panicked(u) => polled'[u] = polled[u]
  BY <1>0 DEF RequestInv, Types, Panicked
<1>5. Places'
  BY <1>3, <1>4 DEF RequestInv, Places, Shown
<1>6. OwnLocation' /\ DroppedForAReason'
  BY EndedStay, ByRequest DEF RequestInv, Types
<1> QED BY <1>1, <1>2, <1>5, <1>6 DEF RequestInv

(* The polls.                                                               *)
LEMMA RequestMoves ==
  ASSUME BootInv, RequestInv, NEW t \in Thread, NEW r \in Request, Moves(t, r),
         UNCHANGED <<boot, input>>
  PROVE  RequestInv'
<1> USE DEF Moves, boot
<1>0. None \notin Request
  BY ServerAssumption
<1>1. Types'
  BY DEF RequestInv, Types
<1>2. WhereTheyAre'
  BY <1>0 DEF RequestInv, Types, WhereTheyAre
<1>3. \A u \in Thread : Panicked(u)' <=> Panicked(u)
  BY <1>0 DEF RequestInv, Types, WhereTheyAre, Panicked
<1>4. \A u \in Thread : Panicked(u) => polled'[u] = polled[u]
  BY <1>0 DEF RequestInv, Types, Panicked
<1>5. Places'
  BY <1>3, <1>4 DEF RequestInv, Places, Shown
<1>6. OwnLocation' /\ DroppedForAReason'
  BY EndedStay, ByRequest DEF RequestInv, Types
<1> QED BY <1>1, <1>2, <1>5, <1>6 DEF RequestInv

LEMMA RequestFinishes ==
  ASSUME BootInv, RequestInv, NEW t \in Thread, NEW r \in Request, NEW result,
         Finishes(t, r, result), UNCHANGED <<boot, input>>
  PROVE  RequestInv'
<1> USE DEF Finishes, Ends, boot
<1>0. None \notin Request
  BY ServerAssumption
<1>1. Types'
  BY DEF RequestInv, Types, PanicHook
<1>2. WhereTheyAre'
  BY <1>0 DEF RequestInv, Types, WhereTheyAre
<1>3. \A u \in Thread \ {t} : (Panicked(u)' <=> Panicked(u)) /\ location'[u] = location[u]
  BY <1>0 DEF RequestInv, Types, WhereTheyAre, Panicked, PanicHook
<1>4. ~Panicked(t)
  BY DEF Panicked
<1>5. Panicked(t)' <=> (result.kind = "panic" /\ result.hooked)
  BY DEF RequestInv, Types, Panicked
<1>6. phase = "Serving"
  BY DEF RequestInv, WhereTheyAre
<1>7. Places'
  <2>1. hook = "default" => location' = location
    BY DEF PanicHook
  <2>2. hook # "default" => hook = "error_page" /\ config.register_panic_hook
    BY DEF BootInv
  <2>3. hook = "default" => ~config.register_panic_hook
    BY <1>6 DEF BootInv
  <2>4. CASE Panicked(t)'
    <3>1. location'[t] = Shown(r)
      BY <1>5, <2>1, <2>2, <2>3, <2>4 DEF RequestInv, Places, PanicHook, Types, Shown
    <3> QED BY <1>3, <2>1, <2>4, <3>1 DEF RequestInv, Places, Shown
  <2>5. CASE ~Panicked(t)'
    <3>1. location'[t] = location[t] \/ location'[t] = "elsewhere"
      BY <1>5, <2>5 DEF PanicHook, RequestInv, Types
    <3> QED BY <1>3, <1>4, <2>1, <2>5, <3>1 DEF RequestInv, Places, Shown
  <2> QED BY <2>4, <2>5
<1>8. OwnLocation' /\ DroppedForAReason'
  BY EndedStay, ByRequest DEF RequestInv, Types
<1> QED BY <1>1, <1>2, <1>7, <1>8 DEF RequestInv

(* The end of a request: its thread has nothing left to show.               *)
LEMMA RequestAnswered ==
  ASSUME BootInv, RequestInv, NEW t \in Thread, NEW r \in Request,
         polled[t] = r, at[r] = "caught",
         NEW status, NEW page, NEW content, NEW shown, Sent(t, r, status, page, content, shown),
         IF config.debug /\ outcome[r].kind = "panic"
         THEN /\ shown = location[t]
              /\ location' = [location EXCEPT ![t] = None]
         ELSE shown = None /\ location' = location,
         UNCHANGED <<boot, input, outcome>>
  PROVE  RequestInv'
<1> USE DEF Sent, boot
<1>0. None \notin Request
  BY ServerAssumption
<1>1. Types'
  BY DEF RequestInv, Types
<1>2. WhereTheyAre'
  BY <1>0 DEF RequestInv, Types, WhereTheyAre
<1>3. \A u \in Thread \ {t} : (Panicked(u)' <=> Panicked(u)) /\ location'[u] = location[u]
  BY <1>0 DEF RequestInv, Types, WhereTheyAre, Panicked
<1>4. ~Panicked(t)'
  BY <1>0 DEF RequestInv, Types, Panicked
<1>5. Panicked(t) <=> outcome[r].kind = "panic" /\ outcome[r].hooked
  BY DEF Panicked
<1>6. Places'
  <2>1. hook = "default" => \A u \in Thread : location'[u] = None
    BY DEF RequestInv, Types, Places
  <2>2. config.debug => location'[t] \in {None, "elsewhere"}
    BY <1>5 DEF RequestInv, Types, Places
  <2>3. ASSUME config.debug, NEW u \in Thread \ {t}
        PROVE  IF Panicked(u)' THEN location'[u] = Shown(polled'[u]) ELSE location'[u] \in {None, "elsewhere"}
    <3>1. polled'[u] = polled[u]
      BY DEF RequestInv, Types
    <3> QED BY <1>3, <2>3, <3>1 DEF RequestInv, Places
  <2> QED BY <1>4, <2>1, <2>2, <2>3 DEF Places, Shown
<1>7. OwnPlace(r)'
  <2>1. answer'[r].location = shown
    BY DEF RequestInv, Types
  <2>2. config.debug /\ outcome[r].kind = "panic" =>
          IF outcome[r].hooked THEN shown = Shown(r) ELSE shown \in {None, "elsewhere"}
    BY <1>5 DEF RequestInv, Places
  <2>3. OwnPlace(r)' = (IF Failed(r) /\ config.debug /\ outcome[r].kind = "panic"
          THEN IF outcome[r].hooked THEN answer'[r].location = Shown(r) ELSE answer'[r].location \in {None, "elsewhere"}
          ELSE answer'[r].location = None)
    BY DEF OwnPlace, Failed, Shown
  <2>4. Failed(r) /\ config.debug /\ outcome[r].kind = "panic" <=> config.debug /\ outcome[r].kind = "panic"
    BY DEF Failed
  <2> QED BY <2>1, <2>2, <2>3, <2>4
<1>8. \A q \in Request : q # r => answer'[q] = answer[q] /\ at'[q] = at[q]
  BY DEF RequestInv, Types
<1>9. at'[r] = "answered"
  BY DEF RequestInv, Types
<1>10. OwnLocation' /\ DroppedForAReason'
  BY <1>7, <1>8, <1>9, EndedStay, ByRequest
<1> QED BY <1>1, <1>2, <1>6, <1>10 DEF RequestInv

LEMMA RequestDropped ==
  ASSUME BootInv, RequestInv, NEW t \in Thread, NEW r \in Request,
         polled[t] = r, at[r] = "caught", outcome[r].kind # "response",
         ~config.debug, input[r].handler = "panics", Dropped(t, r), PanicHook(t, r),
         UNCHANGED <<boot, input, outcome>>
  PROVE  RequestInv'
<1> USE DEF Dropped, boot
<1>0. None \notin Request
  BY ServerAssumption
<1>1. Types'
  BY DEF RequestInv, Types, PanicHook
<1>2. WhereTheyAre'
  BY <1>0 DEF RequestInv, Types, WhereTheyAre
<1>3. Places'
  BY DEF RequestInv, Places, PanicHook
<1>4. Excused(r)'
  BY DEF RequestInv, WhereTheyAre, Excused, Failed
<1>5. \A q \in Request : answer'[q] = answer[q] /\ (q # r => at'[q] = at[q])
  BY DEF RequestInv, Types
<1>6. OwnLocation' /\ DroppedForAReason'
  BY <1>4, <1>5, EndedStay, ByRequest
<1> QED BY <1>1, <1>2, <1>3, <1>6 DEF RequestInv

(* The three ways of answering are of these two kinds.                      *)
LEMMA RequestAnswers ==
  ASSUME BootInv, RequestInv, NEW t \in Thread, NEW r \in Request,
         Respond(t, r) \/ CotErrorPage(t, r) \/ CustomErrorPage(t, r)
  PROVE  RequestInv'
<1>1. CASE Respond(t, r)
  BY <1>1, RequestAnswered DEF Respond, boot
<1>2. CASE CotErrorPage(t, r)
  BY <1>2, RequestAnswered DEF CotErrorPage, boot
<1>3. CASE CustomErrorPage(t, r)
  BY <1>3, RequestAnswered, RequestDropped DEF CustomErrorPage, boot
<1> QED BY <1>1, <1>2, <1>3

(* A panic between the polls leaves only a place that is nobody's.          *)
LEMMA RequestTask ==
  ASSUME BootInv, RequestInv, NEW t \in Thread, TaskPanics(t)
  PROVE  RequestInv'
<1> USE DEF TaskPanics, boot
<1>0. None \notin Request
  BY ServerAssumption
<1>1. Types'
  BY DEF RequestInv, Types, PanicHook
<1>2. WhereTheyAre'
  BY DEF RequestInv, Types, WhereTheyAre
<1>3. \A u \in Thread : /\ Panicked(u)' <=> Panicked(u)
                        /\ location'[u] = location[u] \/ (u = t /\ location'[u] = "elsewhere")
  BY DEF RequestInv, Types, Panicked, PanicHook
<1>4. ~Panicked(t)
  BY <1>0 DEF Panicked
<1>5. hook = "default" => location' = location
  BY DEF PanicHook
<1>6. Places'
  BY <1>3, <1>4, <1>5 DEF RequestInv, Places, Shown
<1>7. OwnLocation' /\ DroppedForAReason'
  BY EndedStay, ByRequest DEF RequestInv, Types
<1> QED BY <1>1, <1>2, <1>6, <1>7 DEF RequestInv

LEMMA RequestStutters ==
  ASSUME RequestInv, UNCHANGED vars
  PROVE  RequestInv'
BY DEF RequestInv, Types, WhereTheyAre, Places, Panicked, Shown, OwnLocation, DroppedForAReason,
       Failed, vars, boot, served

-----------------------------------------------------------------------------
LEMMA Inductive == BootInv /\ RequestInv /\ [Next]_vars => BootInv' /\ RequestInv'
<1> SUFFICES ASSUME BootInv, RequestInv, [Next]_vars PROVE BootInv' /\ RequestInv'
  OBVIOUS
<1>1. CASE Start \/ Fail
  BY <1>1, BootStart, RequestStart
<1>2. ASSUME NEW r \in Request, Connect(r) PROVE BootInv' /\ RequestInv'
  BY <1>2, BootKept, RequestConnect DEF Connect
<1>3. ASSUME NEW t \in Thread, NEW r \in Request, Poll(t, r) PROVE BootInv' /\ RequestInv'
  BY <1>3, BootKept, RequestPoll DEF Poll
<1>4. ASSUME NEW t \in Thread, NEW r \in Request, Wait(t, r) \/ Handler(t, r)
      PROVE  BootInv' /\ RequestInv'
  <2>1. (Moves(t, r) \/ \E result : Finishes(t, r, result)) /\ UNCHANGED <<boot, input>>
    BY <1>4, HandlerShape
  <2> QED BY <2>1, BootKept, RequestMoves, RequestFinishes
<1>5. ASSUME NEW t \in Thread, NEW r \in Request,
             Respond(t, r) \/ CotErrorPage(t, r) \/ CustomErrorPage(t, r)
      PROVE  BootInv' /\ RequestInv'
  <2>1. UNCHANGED boot
    BY <1>5 DEF Respond, CotErrorPage, CustomErrorPage
  <2> QED BY <1>5, <2>1, BootKept, RequestAnswers
<1>6. ASSUME NEW t \in Thread, TaskPanics(t) PROVE BootInv' /\ RequestInv'
  BY <1>6, BootKept, RequestTask DEF TaskPanics
<1>7. CASE UNCHANGED vars
  BY <1>7, BootKept, RequestStutters DEF vars
<1> QED BY <1>1, <1>2, <1>3, <1>4, <1>5, <1>6, <1>7 DEF Next, Step, Handler

LEMMA Invariance == Spec => [](BootInv /\ RequestInv)
<1>1. Init => BootInv /\ RequestInv
  BY BootInit, RequestInit
<1> QED BY <1>1, Inductive, PTL DEF Spec

(* Whoever looks at a request finds the start complete: migrations, apps,   *)
(* static files and panic hook; check and collect-static serve nobody.      *)
THEOREM ServerServesAfterStart == Spec => []ServedAfterStart
<1>1. BootInv /\ RequestInv => ServedAfterStart
  <2> SUFFICES ASSUME BootInv, RequestInv PROVE ServedAfterStart
    OBVIOUS
  <2>1. ASSUME NEW r \in Request, at[r] \notin {"client", "waiting", "dropped"} PROVE phase = "Serving"
    BY <2>1 DEF RequestInv, Types, WhereTheyAre
  <2>2. phase = "Serving" =>
          /\ apps = Apps /\ files = StaticFiles(Apps) /\ migrated = config.database
          /\ hook = (IF config.register_panic_hook THEN "error_page" ELSE "default")
    BY DEF BootInv
  <2>3. command # "run" => ~migrated /\ \A r \in Request : at[r] = "client"
    BY DEF BootInv, RequestInv, WhereTheyAre
  <2> QED BY <2>1, <2>2, <2>3, StaticFilesDomain DEF ServedAfterStart
<1> QED BY <1>1, Invariance, PTL

(* The location that a panic leaves in its thread is taken by the page of   *)
(* the same request, however requests and panics are spread over threads.   *)
THEOREM ServerShowsOwnLocation == Spec => []OwnLocation
<1>1. BootInv /\ RequestInv => OwnLocation
  BY DEF RequestInv
<1> QED BY <1>1, Invariance, PTL

(* No view takes the connection of its client with it: only a start that    *)
(* fails and an error handler that panics do.                               *)
THEOREM ServerDropsForAReason == Spec => []DroppedForAReason
<1>1. BootInv /\ RequestInv => DroppedForAReason
  BY DEF RequestInv
<1> QED BY <1>1, Invariance, PTL

-----------------------------------------------------------------------------
(* Facts about numbers.                                                     *)
LEMMA Least ==
  ASSUME NEW S, S \subseteq Nat, S # {}
  PROVE  \E m \in S : \A k \in S : m <= k
<1> DEFINE R == {ss \in Nat \X Nat : ss[1] < ss[2]}
<1>1. IsWellFoundedOn(R, Nat)
  BY NatLessThanWellFounded DEF OpToRel
<1>2. \A x, y \in Nat : <<x, y>> \in R <=> x < y
  OBVIOUS
<1> HIDE DEF R
<1>3. PICK m \in S : \A k \in S : <<k, m>> \notin R
  BY <1>1, WFMin
<1>4. \A k \in S : ~(k < m)
  BY <1>2, <1>3
<1> QED
  BY <1>4

LEMMA UpTo ==
  ASSUME NEW S, 0 \in S, \A n \in Nat : n \in S => n + 1 \in S
  PROVE  \A n \in Nat : n \in S
<1> SUFFICES ASSUME Nat \ S # {} PROVE FALSE
  OBVIOUS
<1>1. PICK m \in Nat \ S : \A k \in Nat \ S : m <= k
  BY Least
<1>2. m # 0 /\ m - 1 \in Nat
  BY <1>1
<1>3. m - 1 \in S
  BY <1>1, <1>2
<1> QED
  BY <1>1, <1>2, <1>3

LEMMA Highest ==
  ASSUME NEW n \in Nat, NEW s \in SUBSET (1..n), s # {}
  PROVE  Max(s) \in s /\ \A x \in s : x <= Max(s)
<1> DEFINE Bounds == {b \in Nat : \A x \in s : x <= b}
<1>1. n \in Bounds /\ Bounds \subseteq Nat
  OBVIOUS
<1> HIDE DEF Bounds
<1>2. PICK m \in Bounds : \A b \in Bounds : m <= b
  BY <1>1, Least
<1>3. m \in Nat /\ \A x \in s : x <= m
  BY <1>2 DEF Bounds
<1>4. m \in s
  <2> SUFFICES ASSUME m \notin s PROVE FALSE
    OBVIOUS
  <2>1. \A x \in s : x <= m - 1
    BY <1>3
  <2>2. PICK x \in s : x \in 1..n
    OBVIOUS
  <2>3. m - 1 \in Nat
    BY <1>3, <2>2
  <2>4. m - 1 \in Bounds
    BY <2>1, <2>3 DEF Bounds
  <2> QED
    BY <1>2, <1>3, <2>4
<1>5. \E x \in s : \A y \in s : x >= y
  BY <1>3, <1>4
<1>6. Max(s) \in s /\ \A y \in s : Max(s) >= y
  BY <1>5 DEF Max
<1> QED
  BY <1>6

-----------------------------------------------------------------------------
(* build_context, pair by pair: the context after each part of the pairs.   *)
After(form, pairs, contexts, s) ==
  IF s = {} THEN NewContext(form)
  ELSE set_value(form, contexts[s \ {Max(s)}], pairs[Max(s)])
Contexts(form, pairs) ==
  CHOOSE contexts : contexts = [s \in SUBSET DOMAIN pairs |-> After(form, pairs, contexts, s)]

LEMMA BuildContext ==
  \A form, pairs : build_context(form, pairs) = Contexts(form, pairs)[DOMAIN pairs]
BY DEF build_context, FoldLeft, MapThenFoldSet, Contexts, After

(* There are such contexts.                                                 *)
LEMMA ContextsExist ==
  ASSUME NEW form, NEW pairs, NEW n \in Nat, DOMAIN pairs = 1..n
  PROVE  Contexts(form, pairs)
           = [s \in SUBSET (1..n) |-> After(form, pairs, Contexts(form, pairs), s)]
<1> DEFINE Sub(m) == {s \in SUBSET (1..n) : \A x \in s : x <= m}
           Goes(m) == \E c : c = [s \in Sub(m) |-> After(form, pairs, c, s)]
           S == {m \in Nat : Goes(m)}
<1>1. 0 \in S
  <2> DEFINE c == [s \in Sub(0) |-> NewContext(form)]
  <2>1. \A s \in Sub(0) : s = {}
    OBVIOUS
  <2>2. c = [s \in Sub(0) |-> After(form, pairs, c, s)]
    BY <2>1 DEF After
  <2> HIDE DEF c
  <2>3. Goes(0)
    BY <2>2
  <2> QED
    BY <2>3
<1>2. ASSUME NEW m \in Nat, m \in S PROVE m + 1 \in S
  <2>1. PICK c : c = [s \in Sub(m) |-> After(form, pairs, c, s)]
    BY <1>2
  <2> DEFINE d == [s \in Sub(m + 1) |-> After(form, pairs, c, s)]
  <2>2. ASSUME NEW s \in Sub(m + 1) PROVE After(form, pairs, d, s) = After(form, pairs, c, s)
    <3>1. CASE s = {}
      BY <3>1 DEF After
    <3>2. CASE s # {}
      <4> DEFINE r == s \ {Max(s)}
      <4>1. Max(s) \in s /\ \A x \in s : x <= Max(s)
        BY <3>2, Highest
      <4>2. r \in Sub(m) /\ r \in Sub(m + 1)
        <5>1. s \in SUBSET (1..n) /\ \A x \in s : x <= m + 1
          OBVIOUS
        <5>2. /\ Max(s) <= m + 1 /\ Max(s) \in 1..n
              /\ \A x \in r : x \in 1..n /\ x # Max(s) /\ x <= Max(s)
          BY <4>1, <5>1
        <5>3. \A x \in r : x <= m /\ x <= m + 1
          BY <5>2
        <5> QED
          BY <5>1, <5>3
      <4>3. d[r] = After(form, pairs, c, r) /\ c[r] = After(form, pairs, c, r)
        BY <2>1, <4>2
      <4>4. d[r] = c[r]
        BY <4>3
      <4> HIDE DEF d
      <4> QED
        BY <3>2, <4>4 DEF After
    <3> QED
      BY <3>1, <3>2
  <2>3. d = [s \in Sub(m + 1) |-> After(form, pairs, d, s)]
    BY <2>2
  <2> HIDE DEF d
  <2>4. Goes(m + 1)
    BY <2>3
  <2> HIDE DEF Goes
  <2> QED
    BY <2>4
<1> HIDE DEF S
<1>3. n \in S
  BY <1>1, <1>2, UpTo
<1>4. Goes(n)
  BY <1>3 DEF S
<1>5. Sub(n) = SUBSET (1..n)
  OBVIOUS
<1> QED
  BY <1>4, <1>5 DEF Contexts

(* v is what the last pair of that name gives it, None if there is none.    *)
LastOf(pairs, n, id, v) ==
  \/ v = None /\ \A j \in 1..n : pairs[j][1] # id
  \/ \E j \in 1..n : /\ pairs[j][1] = id /\ pairs[j][2] = v
                     /\ \A l \in 1..n : pairs[l][1] = id => l <= j

(* Each field gets the value of the last pair with its name.                *)
LEMMA ContextIsLast ==
  ASSUME NEW form, NEW pairs, NEW n \in Nat, DOMAIN pairs = 1..n
  PROVE  /\ DOMAIN build_context(form, pairs) = DOMAIN form
         /\ \A k \in DOMAIN form : LastOf(pairs, n, form[k].id, build_context(form, pairs)[k])
<1> DEFINE C == Contexts(form, pairs)
           Good(m) == /\ DOMAIN C[1..m] = DOMAIN form
                      /\ \A k \in DOMAIN form : LastOf(pairs, m, form[k].id, C[1..m][k])
           S == {m \in Nat : m <= n => Good(m)}
<1>1. C = [s \in SUBSET (1..n) |-> After(form, pairs, C, s)]
  BY ContextsExist, ZenonT(30)
<1> HIDE DEF C
<1>2. 0 \in S
  <2>1. 1..0 \in SUBSET (1..n) /\ 1..0 = {}
    OBVIOUS
  <2>2. C[1..0] = NewContext(form)
    BY <1>1, <2>1 DEF After
  <2>3. Good(0)
    BY <2>2 DEF NewContext, LastOf
  <2> QED
    BY <2>3
<1>3. ASSUME NEW m \in Nat, m \in S PROVE m + 1 \in S
  <2> SUFFICES ASSUME m + 1 <= n PROVE Good(m + 1)
    OBVIOUS
  <2>1. Good(m)
    BY <1>3
  <2> DEFINE s == 1..(m + 1)
  <2>2. s \in SUBSET (1..n) /\ s # {}
    <3>1. \A x \in s : x \in 1..n
      OBVIOUS
    <3>2. m + 1 \in s
      OBVIOUS
    <3> QED
      BY <3>1, <3>2
  <2>3. Max(s) \in s /\ \A x \in s : x <= Max(s)
    BY <2>2, Highest
  <2>4. Max(s) = m + 1
    BY <2>3
  <2>5. s \ {m + 1} = 1..m
    OBVIOUS
  <2> HIDE DEF s
  <2>6. C[s] = set_value(form, C[1..m], pairs[m + 1])
    BY <1>1, <2>2, <2>4, <2>5 DEF After
  <2>7. /\ DOMAIN C[s] = DOMAIN form
        /\ \A k \in DOMAIN form :
             C[s][k] = IF form[k].id = pairs[m + 1][1] THEN pairs[m + 1][2] ELSE C[1..m][k]
    BY <2>6 DEF set_value
  <2>8. ASSUME NEW k \in DOMAIN form PROVE LastOf(pairs, m + 1, form[k].id, C[s][k])
    <3>1. LastOf(pairs, m, form[k].id, C[1..m][k])
      BY <2>1
    <3>2. CASE form[k].id = pairs[m + 1][1]
      <4>1. m + 1 \in 1..(m + 1) /\ \A l \in 1..(m + 1) : l <= m + 1
        OBVIOUS
      <4>2. C[s][k] = pairs[m + 1][2]
        BY <2>7, <3>2
      <4> QED
        BY <3>2, <4>1, <4>2 DEF LastOf
    <3>3. CASE form[k].id # pairs[m + 1][1]
      <4>1. C[s][k] = C[1..m][k]
        BY <2>7, <3>3
      <4>2. \A l \in 1..(m + 1) : l \in 1..m \/ l = m + 1
        OBVIOUS
      <4>3. \A l \in 1..m : l \in 1..(m + 1)
        OBVIOUS
      <4> QED
        BY <3>1, <3>3, <4>1, <4>2, <4>3 DEF LastOf
    <3> QED
      BY <3>2, <3>3
  <2> QED
    BY <2>7, <2>8 DEF s
<1> HIDE DEF S
<1>4. n \in S
  BY <1>2, <1>3, UpTo
<1>5. Good(n)
  BY <1>4 DEF S
<1>6. build_context(form, pairs) = C[1..n]
  BY BuildContext DEF C
<1> QED
  BY <1>5, <1>6

-----------------------------------------------------------------------------
(* FlattenSeq, sequence by sequence.                                        *)
Joined(seqs, joined, k) == IF k = 1 THEN seqs[k] ELSE joined[k - 1] \o seqs[k]

LEMMA FlattenParts ==
  ASSUME NEW n \in Nat \ {0}, NEW seqs, DOMAIN seqs = 1..n, Len(seqs) = n
  PROVE  \E f : /\ f[1] = seqs[1]
                /\ \A k \in 2..n : f[k] = f[k - 1] \o seqs[k]
                /\ FlattenSeq(seqs) = f[n]
<1> DEFINE Goes(m) == \E f : f = [k \in 1..m |-> Joined(seqs, f, k)]
           S == {m \in Nat : Goes(m)}
           F == CHOOSE f : f = [k \in 1..n |-> Joined(seqs, f, k)]
<1>1. 0 \in S
  <2> DEFINE c == [k \in 1..0 |-> seqs[k]]
  <2>1. 1..0 = {}
    OBVIOUS
  <2>2. c = [k \in 1..0 |-> Joined(seqs, c, k)]
    BY <2>1
  <2> HIDE DEF c
  <2>3. Goes(0)
    BY <2>2
  <2> HIDE DEF Goes
  <2> QED
    BY <2>3
<1>2. ASSUME NEW m \in Nat, m \in S PROVE m + 1 \in S
  <2>1. PICK c : c = [k \in 1..m |-> Joined(seqs, c, k)]
    BY <1>2
  <2> DEFINE d == [k \in 1..(m + 1) |-> Joined(seqs, c, k)]
  <2>2. ASSUME NEW k \in 1..(m + 1) PROVE Joined(seqs, d, k) = Joined(seqs, c, k)
    <3>1. CASE k = 1
      BY <3>1 DEF Joined
    <3>2. CASE k # 1
      <4>1. k - 1 \in 1..m /\ k - 1 \in 1..(m + 1)
        BY <3>2
      <4>2. d[k - 1] = c[k - 1]
        BY <2>1, <4>1
      <4> HIDE DEF d
      <4> QED
        BY <3>2, <4>2 DEF Joined
    <3> QED
      BY <3>1, <3>2
  <2>3. d = [k \in 1..(m + 1) |-> Joined(seqs, d, k)]
    BY <2>2
  <2> HIDE DEF d
  <2>4. Goes(m + 1)
    BY <2>3
  <2> HIDE DEF Goes
  <2> QED
    BY <2>4
<1> HIDE DEF S
<1>3. n \in S
  BY <1>1, <1>2, UpTo
<1>4. Goes(n)
  BY <1>3 DEF S
<1>5. F = [k \in 1..n |-> Joined(seqs, F, k)]
  BY <1>4
<1>6. FlattenSeq(seqs) = F[n]
  BY DEF FlattenSeq, Joined
<1> HIDE DEF F
<1>7. /\ \A k \in 1..n : F[k] = Joined(seqs, F, k)
      /\ 1 \in 1..n /\ \A k \in 2..n : k \in 1..n /\ k # 1
  BY <1>5
<1>8. F[1] = seqs[1] /\ \A k \in 2..n : F[k] = F[k - 1] \o seqs[k]
  BY <1>7 DEF Joined
<1> QED
  BY <1>6, <1>8

LEMMA Concat ==
  ASSUME NEW S, NEW s \in Seq(S), NEW r \in Seq(S)
  PROVE  /\ s \o r \in Seq(S) /\ Len(s \o r) = Len(s) + Len(r)
         /\ \A e \in 1..Len(s) : (s \o r)[e] = s[e]
         /\ \A e \in 1..Len(r) : (s \o r)[Len(s) + e] = r[e]
OBVIOUS

LEMMA FlattenOne ==
  ASSUME NEW seqs, DOMAIN seqs = 1..1, Len(seqs) = 1 PROVE FlattenSeq(seqs) = seqs[1]
<1>1. 1 \in Nat \ {0}
  OBVIOUS
<1>2. PICK f : /\ f[1] = seqs[1]
               /\ \A k \in 2..1 : f[k] = f[k - 1] \o seqs[k]
               /\ FlattenSeq(seqs) = f[1]
  BY <1>1, FlattenParts
<1> QED
  BY <1>2

LEMMA FlattenTwo ==
  ASSUME NEW seqs, DOMAIN seqs = 1..2, Len(seqs) = 2 PROVE FlattenSeq(seqs) = seqs[1] \o seqs[2]
<1>1. 2 \in Nat \ {0}
  OBVIOUS
<1>2. PICK f : /\ f[1] = seqs[1]
               /\ \A k \in 2..2 : f[k] = f[k - 1] \o seqs[k]
               /\ FlattenSeq(seqs) = f[2]
  BY <1>1, FlattenParts
<1>3. 2 \in 2..2 /\ 2 - 1 = 1
  OBVIOUS
<1>4. f[2] = f[1] \o seqs[2]
  BY <1>2, <1>3
<1> QED
  BY <1>2, <1>4

(* What the browser sends for a field: pairs with its name, the last one    *)
(* with what was entered.                                                   *)
Chosen(field, entered) ==
  IF field.type = "Bool" THEN IF entered = "ticked" THEN "1" ELSE "0" ELSE entered
Pair == Names \X DOMAIN Text

AcceptsAll(field, entered) ==
  LET shown == Show(field) IN \A j \in DOMAIN shown : Accepts(shown[j], entered)

PartOf(part, field, entered) ==
  /\ part \in Seq(Pair) /\ Len(part) \in Nat \ {0}
  /\ \A j \in 1..Len(part) : part[j][1] = field.id
  /\ part[Len(part)][2] = Chosen(field, entered)

LEMMA FieldTypes ==
  ASSUME NEW field \in FormField
  PROVE  /\ field.id \in Names /\ field.type \in {"String", "Password", "Integer", "Bool"}
         /\ \A entered \in Entries(field) : field.type # "Bool" => entered \in DOMAIN Text
BY DEF FormField, Entries

LEMMA PartIs ==
  ASSUME NEW field \in FormField, NEW entered \in Entries(field), AcceptsAll(field, entered)
  PROVE  PartOf(Part(field, entered), field, entered)
<1> DEFINE shown == Show(field)
           sends == [j \in DOMAIN shown |-> Sends(field.id, shown[j], entered)]
           part == Part(field, entered)
<1>0. /\ field.id \in Names /\ field.type \in {"String", "Password", "Integer", "Bool"}
      /\ field.type # "Bool" => entered \in DOMAIN Text
      /\ "0" \in DOMAIN Text /\ "1" \in DOMAIN Text
  BY FieldTypes, TextType
<1>1. part = FlattenSeq(sends)
  BY DEF Part
<1>2. DOMAIN sends = DOMAIN shown /\ \A j \in DOMAIN shown : sends[j] = Sends(field.id, shown[j], entered)
  OBVIOUS
<1> SUFFICES PartOf(part, field, entered)
  OBVIOUS
<1> HIDE DEF sends, part
<1>3. ASSUME DOMAIN shown = 1..1, Len(sends) = 1 PROVE part = sends[1]
  BY <1>1, <1>2, <1>3, FlattenOne
<1>4. ASSUME DOMAIN shown = 1..2, Len(sends) = 2 PROVE part = sends[1] \o sends[2]
  BY <1>1, <1>2, <1>4, FlattenTwo
<1>5. CASE field.type # "Bool"
  <2>1. PICK type \in {"text", "password", "number"} : shown = <<Control(type, field)>>
    BY <1>0, <1>5 DEF Show
  <2>2. DOMAIN shown = 1..1 /\ shown[1] = Control(type, field)
    BY <2>1
  <2>3. Control(type, field).type = type
    BY DEF Control
  <2>4. sends[1] = <<<<field.id, entered>>>>
    BY <1>2, <2>2, <2>3 DEF Sends
  <2>5. Len(sends) = 1
    BY <1>2, <2>2 DEF sends
  <2>6. part = <<<<field.id, entered>>>>
    BY <1>3, <2>2, <2>4, <2>5
  <2>7. part \in Seq(Pair) /\ Len(part) = 1 /\ part[1] = <<field.id, entered>>
    BY <1>0, <1>5, <2>6 DEF Pair
  <2> QED
    BY <1>5, <2>7 DEF PartOf, Chosen
<1>6. CASE field.type = "Bool" /\ field.must_be_true
  <2> DEFINE box == [Control("checkbox", field) EXCEPT !.required = field.must_be_true, !.value = "1"]
  <2>1. shown = <<box>>
    BY <1>6 DEF Show, ShowBool
  <2>2. box.type = "checkbox" /\ box.required /\ box.value = "1"
    BY <1>6 DEF Control
  <2> HIDE DEF box
  <2>3. DOMAIN shown = 1..1 /\ shown[1] = box
    BY <2>1
  <2>8. Accepts(box, entered)
    BY <2>3 DEF AcceptsAll
  <2>4. entered = "ticked"
    BY <2>2, <2>8 DEF Accepts
  <2>5. sends[1] = <<<<field.id, "1">>>>
    BY <1>2, <2>2, <2>3, <2>4 DEF Sends
  <2>6. Len(sends) = 1
    BY <1>2, <2>3 DEF sends
  <2>7. part = <<<<field.id, "1">>>>
    BY <1>3, <2>3, <2>5, <2>6
  <2>9. part \in Seq(Pair) /\ Len(part) = 1 /\ part[1] = <<field.id, "1">>
    BY <1>0, <2>7 DEF Pair
  <2> QED
    BY <1>6, <2>4, <2>9 DEF PartOf, Chosen
<1>7. CASE field.type = "Bool" /\ ~field.must_be_true
  <2> DEFINE box == [Control("checkbox", field) EXCEPT !.required = field.must_be_true, !.value = "1"]
             hidden == [Control("hidden", field) EXCEPT !.required = FALSE, !.value = "0"]
  <2>1. shown = <<hidden, box>>
    BY <1>7 DEF Show, ShowBool
  <2>2. box.type = "checkbox" /\ box.value = "1" /\ hidden.type = "hidden" /\ hidden.value = "0"
    BY DEF Control
  <2> HIDE DEF box, hidden
  <2>3. DOMAIN shown = 1..2 /\ shown[1] = hidden /\ shown[2] = box
    BY <2>1
  <2>4. sends[1] = <<<<field.id, "0">>>>
    BY <1>2, <2>2, <2>3 DEF Sends
  <2>5. sends[2] = IF entered = "ticked" THEN <<<<field.id, "1">>>> ELSE <<>>
    BY <1>2, <2>2, <2>3 DEF Sends
  <2>6. Len(sends) = 2
    BY <1>2, <2>3 DEF sends
  <2>7. part = sends[1] \o sends[2]
    BY <1>4, <2>3, <2>6
  <2>8. CASE entered = "ticked"
    <3>1. part = sends[1] \o sends[2] /\ sends[2] = <<<<field.id, "1">>>>
      BY <2>5, <2>7, <2>8
    <3>2. /\ sends[1] \in Seq(Pair) /\ Len(sends[1]) = 1 /\ sends[1][1] = <<field.id, "0">>
          /\ sends[2] \in Seq(Pair) /\ Len(sends[2]) = 1 /\ sends[2][1] = <<field.id, "1">>
      BY <1>0, <2>4, <3>1 DEF Pair
    <3>3. /\ part \in Seq(Pair) /\ Len(part) = 2
          /\ part[1] = <<field.id, "0">> /\ part[1 + 1] = <<field.id, "1">>
      BY <3>1, <3>2, Concat
    <3> QED
      BY <1>7, <2>8, <3>3 DEF PartOf, Chosen
  <2>9. CASE entered # "ticked"
    <3>1. part = <<<<field.id, "0">>>>
      BY <2>4, <2>5, <2>7, <2>9
    <3>2. part \in Seq(Pair) /\ Len(part) = 1 /\ part[1] = <<field.id, "0">>
      BY <1>0, <3>1 DEF Pair
    <3> QED
      BY <1>7, <2>9, <3>2 DEF PartOf, Chosen
  <2> QED
    BY <2>8, <2>9
<1> QED
  BY <1>0, <1>5, <1>6, <1>7

(* The last pair of that name is the j-th.                                  *)
IsLast(pairs, id, v, j) ==
  /\ j \in 1..Len(pairs) /\ pairs[j][1] = id /\ pairs[j][2] = v
  /\ \A l \in 1..Len(pairs) : pairs[l][1] = id => l <= j

(* What the browser sends for the first m fields.                           *)
SentFor(pairs, form, entered, m) ==
  /\ pairs \in Seq(Pair)
  /\ \A j \in 1..Len(pairs) : \E k \in 1..m : pairs[j][1] = form[k].id
  /\ \A k \in 1..m : \E j : IsLast(pairs, form[k].id, Chosen(form[k], entered[k]), j)

LEMMA SentForOneMore ==
  ASSUME NEW form, NEW entered, NEW n \in Nat, DOMAIN form = 1..n,
         \A j, k \in 1..n : form[j].id = form[k].id => j = k,
         NEW m \in Nat, m + 1 <= n, NEW pairs, SentFor(pairs, form, entered, m),
         NEW part, PartOf(part, form[m + 1], entered[m + 1])
  PROVE  SentFor(pairs \o part, form, entered, m + 1)
<1> DEFINE all == pairs \o part
           P == Len(pairs)
           Q == Len(part)
<1>1. /\ all \in Seq(Pair) /\ Len(all) = P + Q /\ P \in Nat /\ Q \in Nat \ {0}
      /\ \A j \in 1..P : all[j] = pairs[j]
      /\ \A j \in 1..Q : all[P + j] = part[j]
  BY Concat DEF SentFor, PartOf
<1> HIDE DEF all, P, Q
<1>2. /\ \A j \in 1..P : \E k \in 1..m : pairs[j][1] = form[k].id
      /\ \A j \in 1..Q : part[j][1] = form[m + 1].id
      /\ part[Q][2] = Chosen(form[m + 1], entered[m + 1])
  BY DEF SentFor, PartOf, P, Q
<1>3. \A j \in 1..(P + Q) : j \in 1..P \/ (j - P \in 1..Q /\ P + (j - P) = j)
  BY <1>1
<1>4. ASSUME NEW j \in 1..(P + Q) PROVE \E k \in 1..(m + 1) : all[j][1] = form[k].id
  <2>1. CASE j \in 1..P
    <3>1. PICK k \in 1..m : pairs[j][1] = form[k].id
      BY <1>2, <2>1
    <3>2. k \in 1..(m + 1) /\ all[j][1] = form[k].id
      BY <1>1, <2>1, <3>1
    <3> QED
      BY <3>2
  <2>2. CASE j \notin 1..P
    <3>1. j - P \in 1..Q /\ all[j] = part[j - P]
      BY <1>1, <1>3, <2>2
    <3>2. all[j][1] = form[m + 1].id /\ m + 1 \in 1..(m + 1)
      BY <1>2, <3>1
    <3> QED
      BY <3>2
  <2> QED
    BY <2>1, <2>2
<1>5. ASSUME NEW k \in 1..m
      PROVE  \E j : IsLast(all, form[k].id, Chosen(form[k], entered[k]), j)
  <2>1. PICK j : IsLast(pairs, form[k].id, Chosen(form[k], entered[k]), j)
    BY DEF SentFor
  <2>2. /\ j \in 1..P /\ pairs[j][1] = form[k].id /\ pairs[j][2] = Chosen(form[k], entered[k])
        /\ \A l \in 1..P : pairs[l][1] = form[k].id => l <= j
    BY <2>1 DEF IsLast, P
  <2>3. form[m + 1].id # form[k].id
    BY m + 1 \in 1..n, k \in 1..n, k # m + 1
  <2>4. ASSUME NEW l \in 1..(P + Q), all[l][1] = form[k].id PROVE l <= j
    <3>1. l \in 1..P
      <4> SUFFICES ASSUME l \notin 1..P PROVE FALSE
        OBVIOUS
      <4>1. l - P \in 1..Q /\ P + (l - P) = l
        BY <1>3
      <4>2. all[l] = part[l - P]
        BY <1>1, <4>1
      <4> QED
        BY <1>2, <2>3, <2>4, <4>1, <4>2
    <3> QED
      BY <1>1, <2>2, <2>4, <3>1
  <2>5. j \in 1..(P + Q) /\ all[j] = pairs[j]
    BY <1>1, <2>2
  <2> QED
    BY <1>1, <2>2, <2>4, <2>5 DEF IsLast
<1>6. IsLast(all, form[m + 1].id, Chosen(form[m + 1], entered[m + 1]), P + Q)
  <2>1. P + Q \in 1..(P + Q) /\ Q \in 1..Q /\ \A l \in 1..(P + Q) : l <= P + Q
    BY <1>1
  <2>2. all[P + Q] = part[Q]
    BY <1>1, <2>1
  <2> QED
    BY <1>1, <1>2, <2>1, <2>2 DEF IsLast
<1>7. \A k \in 1..(m + 1) : k \in 1..m \/ k = m + 1
  OBVIOUS
<1> QED
  BY <1>1, <1>4, <1>5, <1>6, <1>7 DEF SentFor, all

(* A browser sends one value for each field that counts: what was entered.  *)
LEMMA BrowserSends ==
  ASSUME NEW form, IsForm(form), NEW entered, NEW pairs, SentByBrowser(form, entered, pairs)
  PROVE  \A k \in DOMAIN form :
           \E j : IsLast(pairs, form[k].id, Chosen(form[k], entered[k]), j)
<1> DEFINE n == Len(form)
           parts == [k \in DOMAIN form |-> Part(form[k], entered[k])]
<1>1. /\ n \in Nat /\ DOMAIN form = 1..n /\ \A k \in 1..n : form[k] \in FormField
      /\ \A j, k \in 1..n : form[j].id = form[k].id => j = k
  BY DEF IsForm
<1>2. ASSUME NEW k \in 1..n PROVE PartOf(parts[k], form[k], entered[k])
  <2>1. entered[k] \in Entries(form[k]) /\ AcceptsAll(form[k], entered[k])
    BY <1>1 DEF SentByBrowser, Submits, AcceptsAll
  <2>2. PartOf(Part(form[k], entered[k]), form[k], entered[k])
    BY <1>1, <2>1, PartIs
  <2> QED
    BY <1>1, <2>2
<1>3. DOMAIN parts = 1..n /\ Len(parts) = n
  BY <1>1
<1>4. pairs = FlattenSeq(parts)
  BY DEF SentByBrowser, Submitted
<1> HIDE DEF parts, n
<1>5. SUFFICES ASSUME n # 0 PROVE SentFor(pairs, form, entered, n)
  BY <1>1 DEF SentFor
<1>6. n \in Nat \ {0}
  BY <1>1, <1>5
<1>7. PICK f : /\ f[1] = parts[1]
               /\ \A k \in 2..n : f[k] = f[k - 1] \o parts[k]
               /\ FlattenSeq(parts) = f[n]
  BY <1>3, <1>6, FlattenParts, ZenonT(30)
<1> DEFINE S == {m \in Nat : m + 1 <= n => SentFor(f[m + 1], form, entered, m + 1)}
<1>8. 0 \in S
  <2>1. SentFor(<<>>, form, entered, 0)
    BY DEF SentFor
  <2>2. PartOf(parts[0 + 1], form[0 + 1], entered[0 + 1]) /\ 0 + 1 <= n
    BY <1>2, <1>6
  <2>3. SentFor(<<>> \o parts[0 + 1], form, entered, 0 + 1)
    BY <1>1, <2>1, <2>2, SentForOneMore
  <2>4. <<>> \o parts[0 + 1] = f[0 + 1]
    BY <1>7, <2>2 DEF PartOf
  <2> QED
    BY <2>3, <2>4
<1>9. ASSUME NEW m \in Nat, m \in S PROVE m + 1 \in S
  <2> SUFFICES ASSUME m + 1 + 1 <= n PROVE SentFor(f[m + 1 + 1], form, entered, m + 1 + 1)
    OBVIOUS
  <2>1. m + 1 \in Nat /\ m + 1 <= n /\ m + 1 + 1 \in 1..n /\ m + 1 + 1 \in 2..n /\ m + 1 + 1 - 1 = m + 1
    BY <1>1
  <2>2. SentFor(f[m + 1], form, entered, m + 1)
    BY <1>9, <2>1
  <2>3. PartOf(parts[m + 1 + 1], form[m + 1 + 1], entered[m + 1 + 1])
    BY <1>2, <2>1
  <2>4. f[m + 1 + 1] = f[m + 1] \o parts[m + 1 + 1]
    <3> DEFINE k == m + 1 + 1
    <3>1. k \in 2..n /\ k - 1 = m + 1
      BY <2>1
    <3> HIDE DEF k
    <3>2. f[k] = f[k - 1] \o parts[k]
      BY <1>7, <3>1
    <3> QED
      BY <3>1, <3>2 DEF k
  <2>5. SentFor(f[m + 1] \o parts[m + 1 + 1], form, entered, m + 1 + 1)
    BY <1>1, <2>1, <2>2, <2>3, SentForOneMore
  <2> QED
    BY <2>4, <2>5
<1> HIDE DEF S
<1>10. n - 1 \in Nat /\ n - 1 + 1 = n
  BY <1>6
<1>11. n - 1 \in S
  BY <1>8, <1>9, <1>10, UpTo
<1>12. SentFor(f[n - 1 + 1], form, entered, n - 1 + 1)
  BY <1>10, <1>11, <1>6 DEF S
<1> QED
  BY <1>4, <1>7, <1>10, <1>12

(* What is right for a field: the errors that the three exceptions excuse.  *)
Heard(field, entered, cleaned) ==
  CASE cleaned.error = None -> cleaned.value = Meant(field, entered)
    [] cleaned.error = "MaximumLengthExceeded" -> Text[entered].bytes > field.max_length
    [] cleaned.error = "InvalidValue" ->
         /\ field.type = "Integer"
         /\ Text[entered].parsed = None \/ Text[entered].number = 0
    [] OTHER -> FALSE

LEMMA HeardIs ==
  ASSUME NEW field, NEW entered
  PROVE  /\ Heard(field, entered, Cleaned(Meant(field, entered)))
         /\ Text[entered].bytes > field.max_length =>
              Heard(field, entered, Refused("MaximumLengthExceeded"))
         /\ field.type = "Integer" /\ (Text[entered].parsed = None \/ Text[entered].number = 0) =>
              Heard(field, entered, Refused("InvalidValue"))
<1>1. Cleaned(Meant(field, entered)).error = None
      /\ Cleaned(Meant(field, entered)).value = Meant(field, entered)
  BY DEF Cleaned
<1>2. Refused("MaximumLengthExceeded").error = "MaximumLengthExceeded"
      /\ Refused("InvalidValue").error = "InvalidValue"
  BY DEF Refused
<1>3. "MaximumLengthExceeded" # None /\ "InvalidValue" # None
  BY NoneIsNoText
<1> QED
  BY <1>1, <1>2, <1>3 DEF Heard

LEMMA FieldIsHeard ==
  ASSUME NEW field \in FormField, NEW entered \in Entries(field), AcceptsAll(field, entered),
         field.required = (field.type # "Bool" \/ field.optional),
         field.type = "Integer" => field.min..field.max \subseteq field.range \cup {0}
  PROVE  Heard(field, entered, clean_value(field, Chosen(field, entered)))
<1> DEFINE v == Chosen(field, entered)
<1>0. field.type \in {"String", "Password", "Integer", "Bool"}
  BY FieldTypes
<1>1. CASE field.type \in {"String", "Password"}
  <2>1. PICK type \in {"text", "password"} : Show(field) = <<Control(type, field)>>
    BY <1>1 DEF Show
  <2>2. Accepts(Control(type, field), entered)
    BY <2>1 DEF AcceptsAll
  <2>3. entered # ""
    BY <1>1, <2>2 DEF Accepts, Control
  <2>4. entered \in DOMAIN Text /\ v = entered
    BY <1>1 DEF Entries, Chosen
  <2>5. v \notin {None, ""}
    BY <2>3, <2>4, NoneIsNoText
  <2>6. clean_value(field, v) = CleanString(field, v)
    BY <1>1, <2>5 DEF clean_value
  <2>7. Meant(field, entered) = entered
    BY <1>1 DEF Meant
  <2>8. CleanString(field, entered)
          = IF field.max_length # None /\ Text[entered].bytes > field.max_length
            THEN Refused("MaximumLengthExceeded") ELSE Cleaned(entered)
    BY DEF CleanString
  <2> QED
    BY <2>4, <2>6, <2>7, <2>8, HeardIs
<1>2. CASE field.type = "Integer"
  <2>1. Show(field) = <<Control("number", field)>>
    BY <1>2 DEF Show
  <2>2. Accepts(Control("number", field), entered)
    BY <2>1 DEF AcceptsAll
  <2>3. entered # "" /\ Text[entered].number # None /\ Text[entered].number \in field.min..field.max
    BY <1>2, <2>2 DEF Accepts, Control
  <2>4. entered \in DOMAIN Text /\ v = entered
    BY <1>2 DEF Entries, Chosen
  <2>5. v \notin {None, ""}
    BY <2>3, <2>4, NoneIsNoText
  <2>6. clean_value(field, v) = CleanInteger(field, v)
    BY <1>2, <2>5 DEF clean_value
  <2>7. Text[entered].number \in field.range \cup {0}
    BY <1>2, <2>3
  <2>8. Text[entered].parsed # None => Text[entered].parsed = Text[entered].number
    BY <2>3, <2>4, TextType
  <2>9. Meant(field, entered) = Text[entered].number
    BY <1>2 DEF Meant
  <2>10. CASE Text[entered].parsed # None /\ Text[entered].parsed \in field.range
    <3>1. CleanInteger(field, entered) = Cleaned(Text[entered].number)
      BY <2>8, <2>10 DEF CleanInteger
    <3> QED
      BY <2>4, <2>6, <2>9, <3>1, HeardIs
  <2>11. CASE ~(Text[entered].parsed # None /\ Text[entered].parsed \in field.range)
    <3>1. CleanInteger(field, entered) = Refused("InvalidValue")
      BY <2>11 DEF CleanInteger
    <3>2. Text[entered].parsed = None \/ Text[entered].number = 0
      BY <2>7, <2>8, <2>11
    <3> QED
      BY <1>2, <2>4, <2>6, <3>1, <3>2, HeardIs
  <2> QED
    BY <2>10, <2>11
<1>3. CASE field.type = "Bool"
  <2>1. v \in {"0", "1"} /\ (v = "1" <=> entered = "ticked") /\ v \notin {None, ""}
    BY <1>3, TextType, NoneIsNoText DEF Chosen
  <2>2. clean_value(field, v) = CleanBool(field, v)
    BY <1>3, <2>1 DEF clean_value
  <2>3. field.must_be_true => entered = "ticked"
    <3> SUFFICES ASSUME field.must_be_true PROVE entered = "ticked"
      OBVIOUS
    <3> DEFINE box == [Control("checkbox", field) EXCEPT !.required = field.must_be_true, !.value = "1"]
    <3>1. Show(field) = <<box>>
      BY <1>3 DEF Show, ShowBool
    <3>2. box.type = "checkbox" /\ box.required
      BY DEF Control
    <3> HIDE DEF box
    <3>3. Accepts(box, entered)
      BY <3>1 DEF AcceptsAll
    <3> QED
      BY <3>2, <3>3 DEF Accepts
  <2> HIDE DEF v
  <2>4. clean_value(field, v) = Cleaned(entered = "ticked")
    <3>1. CASE v = "1"
      BY <2>1, <2>2, <3>1 DEF CleanBool
    <3>2. CASE v = "0"
      BY <2>1, <2>2, <2>3, <3>2 DEF CleanBool
    <3> QED
      BY <2>1, <3>1, <3>2
  <2>5. Meant(field, entered) = (entered = "ticked")
    BY <1>3 DEF Meant
  <2> QED
    BY <2>4, <2>5, HeardIs DEF v
<1> QED
  BY <1>0, <1>1, <1>2, <1>3

-----------------------------------------------------------------------------
(* A browser's form is heard.                                               *)
LEMMA FormIsHeard ==
  ASSUME NEW form, NEW entered, NEW pairs, pairs \in Seq(Pair),
         IsForm(form), SentByBrowser(form, entered, pairs), NEW k \in DOMAIN form
  PROVE  /\ from_request(form, pairs).errors[k]
              = clean_value(form[k], Chosen(form[k], entered[k])).error
         /\ from_request(form, pairs).values[k]
              = clean_value(form[k], Chosen(form[k], entered[k])).value
         /\ Heard(form[k], entered[k], clean_value(form[k], Chosen(form[k], entered[k])))
<1> DEFINE n == Len(pairs)
           v == Chosen(form[k], entered[k])
           context == build_context(form, pairs)
<1>1. n \in Nat /\ DOMAIN pairs = 1..n
  OBVIOUS
<1>2. PICK j : IsLast(pairs, form[k].id, v, j)
  BY BrowserSends
<1>3. /\ j \in 1..n /\ pairs[j][1] = form[k].id /\ pairs[j][2] = v
      /\ \A l \in 1..n : pairs[l][1] = form[k].id => l <= j
  BY <1>2 DEF IsLast
<1>4. LastOf(pairs, n, form[k].id, context[k])
  BY <1>1, ContextIsLast
<1> HIDE DEF context, v
<1>5. context[k] = v
  <2>1. CASE \A l \in 1..n : pairs[l][1] # form[k].id
    BY <1>3, <2>1
  <2>2. ASSUME NEW l \in 1..n, pairs[l][1] = form[k].id, pairs[l][2] = context[k],
               \A i \in 1..n : pairs[i][1] = form[k].id => i <= l
        PROVE  context[k] = v
    <3>1. l <= j /\ j <= l
      BY <1>3, <2>2
    <3>2. l = j
      BY <1>1, <1>3, <3>1
    <3> QED
      BY <1>3, <2>2, <3>2
  <2> QED
    BY <1>4, <2>1, <2>2 DEF LastOf
<1>6. /\ from_request(form, pairs).errors[k] = clean_value(form[k], context[k]).error
      /\ from_request(form, pairs).values[k] = clean_value(form[k], context[k]).value
  BY DEF from_request, context
<1>7. /\ form[k] \in FormField
      /\ form[k].required = (form[k].type # "Bool" \/ form[k].optional)
      /\ form[k].type = "Integer" => form[k].min..form[k].max \subseteq form[k].range \cup {0}
  BY DEF IsForm
<1>8. entered[k] \in Entries(form[k]) /\ AcceptsAll(form[k], entered[k])
  BY DEF SentByBrowser, Submits, AcceptsAll
<1>9. Heard(form[k], entered[k], clean_value(form[k], v))
  BY <1>7, <1>8, FieldIsHeard DEF v
<1> QED
  BY <1>5, <1>6, <1>9 DEF v

(* A login without errors has sent a name and a password.                   *)
LEMMA LoginValues ==
  ASSUME NEW pairs, pairs \in Seq(Pair), ~has_errors(from_request(LoginForm, pairs)),
         NEW k \in {1, 2}
  PROVE  \E j \in DOMAIN pairs :
           /\ pairs[j] = <<LoginForm[k].id, from_request(LoginForm, pairs).values[k]>>
           /\ \A l \in DOMAIN pairs : pairs[l][1] = LoginForm[k].id => l <= j
<1> DEFINE n == Len(pairs)
           context == build_context(LoginForm, pairs)
           field == LoginForm[k]
<1>1. n \in Nat /\ DOMAIN pairs = 1..n
  OBVIOUS
<1>2. /\ DOMAIN LoginForm = {1, 2}
      /\ field.type \in {"String", "Password"} /\ ~field.optional /\ field.max_length = None
  BY DEF LoginForm, StringField, PasswordField, Field
<1>3. LastOf(pairs, n, field.id, context[k])
  BY <1>1, <1>2, ContextIsLast
<1>4. /\ from_request(LoginForm, pairs).errors[k] = clean_value(field, context[k]).error
      /\ from_request(LoginForm, pairs).values[k] = clean_value(field, context[k]).value
      /\ k \in DOMAIN from_request(LoginForm, pairs).errors
  BY <1>2 DEF from_request
<1> HIDE DEF context, field, n
<1>5. clean_value(field, context[k]).error = None
  BY <1>4 DEF has_errors
<1>6. context[k] \notin {None, ""}
  BY <1>2, <1>5, NoneIsNoText DEF clean_value, Refused
<1>7. clean_value(field, context[k]) = Cleaned(context[k])
  <2>1. clean_value(field, context[k]) = CleanString(field, context[k])
    BY <1>2, <1>6 DEF clean_value
  <2> QED
    BY <1>2, <2>1 DEF CleanString
<1>8. from_request(LoginForm, pairs).values[k] = context[k]
  BY <1>4, <1>7 DEF Cleaned
<1>9. PICK j \in 1..n : /\ pairs[j][1] = field.id /\ pairs[j][2] = context[k]
                        /\ \A l \in 1..n : pairs[l][1] = field.id => l <= j
  BY <1>3, <1>6 DEF LastOf
<1>10. pairs[j] = <<field.id, context[k]>>
  <2>1. pairs[j] \in Names \X DOMAIN Text
    BY <1>1, <1>9 DEF Pair
  <2> QED
    BY <1>9, <2>1
<1> QED
  BY <1>1, <1>8, <1>9, <1>10 DEF field

-----------------------------------------------------------------------------
(* What requests carry, what is made of it, and who is signed in.           *)
LoggedIn(q) ==
  /\ input[q].target = "login" /\ input[q].method = "POST"
  /\ ~has_errors(from_request(LoginForm, input[q].pairs))
  /\ Knows(Credentials(q))
Due(r, page, content) ==
  /\ page = "form" => content = from_request(input[r].form, input[r].pairs)
  /\ page \in {"models", "objects"} => input[r].client \in signed_in

BodyKept ==
  /\ DOMAIN body = Request
  /\ \A r \in Request : at[r] \in {"client", "waiting", "middleware", "view"} =>
                          body[r] = input[r].pairs
LoggingIn ==
  \A r \in Request : at[r] = "authenticate" =>
    /\ input[r].target = "login" /\ input[r].method = "POST"
    /\ ~has_errors(from_request(LoginForm, input[r].pairs))
SignedIn == \A c \in signed_in : \E q \in Request : input[q].client = c /\ LoggedIn(q)
Results ==
  /\ \A r \in Request : outcome[r].kind = "response" => Due(r, outcome[r].page, outcome[r].content)
  /\ \A r \in Request : answer[r] # None => Due(r, answer[r].page, answer[r].content)
ContentInv == input \in Inputs /\ BodyKept /\ LoggingIn /\ SignedIn /\ Results

LEMMA ContentInit == Init => ContentInv
BY DEF Init, ContentInv, BodyKept, LoggingIn, SignedIn, Results

(* Steps that neither take a body nor end a handler.                        *)
Earlier == {"client", "waiting", "middleware", "view"}
Quiet ==
  /\ UNCHANGED <<input, body, signed_in, outcome, answer>>
  /\ \A q \in Request : /\ at'[q] \in Earlier => at[q] \in Earlier
                        /\ at'[q] = "authenticate" => at[q] = "authenticate"

LEMMA ContentQuiet ==
  ASSUME ContentInv, Quiet
  PROVE  ContentInv'
<1>1. BodyKept' /\ LoggingIn'
  BY DEF ContentInv, Quiet, BodyKept, LoggingIn, Earlier
<1>2. SignedIn' /\ Results'
  BY DEF ContentInv, Quiet, SignedIn, LoggedIn, Credentials, Results, Due
<1> QED
  BY <1>1, <1>2 DEF ContentInv, Quiet

(* A handler ends: what it answers is right, and whom it signs in.          *)
Concludes(r, result) ==
  /\ Ends(r, result) /\ UNCHANGED <<input, answer>>
  /\ body' = body \/ body' = [body EXCEPT ![r] = <<>>]
  /\ result.kind = "response" => Due(r, result.page, result.content)
  /\ signed_in' = signed_in \/ (signed_in' = signed_in \cup {input[r].client} /\ LoggedIn(r))

LEMMA ContentConcludes ==
  ASSUME RequestInv, ContentInv, NEW r \in Request, NEW result, Concludes(r, result)
  PROVE  ContentInv'
<1>1. /\ at'[r] = "caught" /\ outcome'[r] = result
      /\ \A q \in Request \ {r} : at'[q] = at[q] /\ outcome'[q] = outcome[q]
  BY DEF RequestInv, Types, Concludes, Ends
<1>2. DOMAIN body' = Request /\ \A q \in Request \ {r} : body'[q] = body[q]
  BY DEF ContentInv, BodyKept, Concludes
<1>3. BodyKept' /\ LoggingIn'
  BY <1>1, <1>2 DEF ContentInv, Concludes, BodyKept, LoggingIn
<1>4. signed_in \subseteq signed_in' /\ UNCHANGED <<input, answer>>
  BY DEF Concludes
<1>5. SignedIn'
  <2>1. \A q : LoggedIn(q)' <=> LoggedIn(q)
    BY <1>4 DEF LoggedIn, Credentials
  <2> QED
    BY <1>4, <2>1 DEF ContentInv, SignedIn, Concludes
<1>6. Results'
  <2>1. \A q, page, content : Due(q, page, content) => Due(q, page, content)'
    BY <1>4 DEF Due
  <2>2. result.kind = "response" => Due(r, result.page, result.content)
    BY DEF Concludes
  <2> QED
    BY <1>1, <1>4, <2>1, <2>2 DEF ContentInv, Results
<1> QED
  BY <1>3, <1>4, <1>5, <1>6 DEF ContentInv

LEMMA Kinds ==
  \A name, content : /\ Page(name, content).kind = "response"
                     /\ Page(name, content).page = name /\ Page(name, content).content = content
BY DEF Page

(* A handler that ends without signing in: the pages that promise nothing.  *)
Plain(ending) == ending.kind # "response" \/ ending.page \notin {"form", "models", "objects"}

LEMMA PlainEndings ==
  /\ Plain(NotFound) /\ Plain(Error) /\ \A hooked : Plain(Panic(hooked))
  /\ \A name, content : name \notin {"form", "models", "objects"} => Plain(Page(name, content))
  /\ \A content : /\ Plain(Page("file", content)) /\ Plain(Page("app", content))
                  /\ Plain(Page("login", content)) /\ Plain(Page("redirect", content))
BY DEF Plain, Page, NotFound, Error, Panic

LEMMA ContentPlain ==
  ASSUME RequestInv, ContentInv, NEW r \in Request, NEW result, Ends(r, result),
         Plain(result),
         body' = body \/ body' = [body EXCEPT ![r] = <<>>],
         UNCHANGED <<input, answer, signed_in>>
  PROVE  ContentInv'
<1>1. Concludes(r, result)
  BY DEF Concludes, Due, Plain
<1> QED
  BY <1>1, ContentConcludes

LEMMA ContentHandle ==
  ASSUME RequestInv, ContentInv, NEW t \in Thread, NEW r \in Request,
         Handle(t, r) \/ View(t, r)
  PROVE  ContentInv'
<1>1. UNCHANGED <<input, body, signed_in, answer>>
  BY DEF Handle, View, boot
<1>2. CASE at' = [at EXCEPT ![r] = "view"] /\ at[r] = "middleware" /\ UNCHANGED outcome
  <2>1. Quiet
    BY <1>1, <1>2 DEF Quiet, Earlier, RequestInv, Types
  <2> QED
    BY <2>1, ContentQuiet
<1>3. ASSUME NEW result, Ends(r, result), Plain(result)
      PROVE  ContentInv'
  BY <1>1, <1>3, ContentPlain
<1>4. \/ at' = [at EXCEPT ![r] = "view"] /\ at[r] = "middleware" /\ UNCHANGED outcome
      \/ Ends(r, Page("file", files[input[r].target]))
      \/ Ends(r, NotFound) \/ Ends(r, Page("app", None)) \/ Ends(r, Error)
      \/ Ends(r, Panic(FALSE)) \/ Ends(r, Panic(TRUE))
  BY DEF Handle, View
<1> QED
  BY <1>2, <1>3, <1>4, PlainEndings

LEMMA ContentFormView ==
  ASSUME RequestInv, ContentInv, NEW t \in Thread, NEW r \in Request, FormView(t, r)
  PROVE  ContentInv'
<1>1. at[r] = "view" /\ UNCHANGED <<input, signed_in, answer>>
  BY DEF FormView, boot
<1>2. body[r] = input[r].pairs
  BY <1>1 DEF ContentInv, BodyKept
<1>3. CASE Ends(r, Error) /\ UNCHANGED body
  BY <1>1, <1>3, PlainEndings, ContentPlain
<1> DEFINE content == from_request(input[r].form, body[r])
<1>4. CASE Ends(r, Page("form", content)) /\ Taken(r)
  <2>1. body' = body \/ body' = [body EXCEPT ![r] = <<>>]
    BY <1>4 DEF Taken
  <2>2. Due(r, "form", content)
    BY <1>2 DEF Due
  <2> HIDE DEF content
  <2>3. Concludes(r, Page("form", content))
    BY <1>1, <1>4, <2>1, <2>2, Kinds DEF Concludes
  <2> QED
    BY <2>3, ContentConcludes
<1> QED
  BY <1>3, <1>4 DEF FormView

LEMMA ContentLoginView ==
  ASSUME RequestInv, ContentInv, NEW t \in Thread, NEW r \in Request, LoginView(t, r)
  PROVE  ContentInv'
<1> DEFINE result == from_request(LoginForm, body[r])
<1>1. at[r] = "view" /\ input[r].target = "login" /\ UNCHANGED <<input, signed_in, answer>>
  BY DEF LoginView, boot
<1>2. body[r] = input[r].pairs
  BY <1>1 DEF ContentInv, BodyKept
<1>3. \/ /\ body' = body \/ body' = [body EXCEPT ![r] = <<>>]
         /\ \/ Ends(r, Page("login", build_context(LoginForm, body[r])))
            \/ Ends(r, Error) \/ Ends(r, Page("login", result.context)) \/ Ends(r, Panic(TRUE))
      \/ /\ input[r].method = "POST" /\ ~has_errors(result)
         /\ at' = [at EXCEPT ![r] = "authenticate"]
         /\ Taken(r) /\ UNCHANGED outcome
  BY DEF LoginView, Taken
<1>4. ASSUME NEW ending, Ends(r, ending), body' = body \/ body' = [body EXCEPT ![r] = <<>>],
             Plain(ending)
      PROVE  ContentInv'
  BY <1>1, <1>4, ContentPlain
<1>5. CASE /\ input[r].method = "POST" /\ ~has_errors(result)
           /\ at' = [at EXCEPT ![r] = "authenticate"]
           /\ Taken(r) /\ UNCHANGED outcome
  <2>1. /\ DOMAIN body' = Request /\ \A q \in Request \ {r} : body'[q] = body[q]
        /\ at'[r] = "authenticate" /\ \A q \in Request \ {r} : at'[q] = at[q]
    BY <1>5 DEF Taken, ContentInv, BodyKept, RequestInv, Types
  <2>2. BodyKept'
    BY <1>1, <2>1 DEF ContentInv, BodyKept
  <2>3. LoggingIn'
    BY <1>1, <1>2, <1>5, <2>1 DEF ContentInv, LoggingIn
  <2>4. SignedIn' /\ Results'
    BY <1>1, <1>5 DEF ContentInv, SignedIn, LoggedIn, Credentials, Results, Due
  <2> QED
    BY <1>1, <2>2, <2>3, <2>4 DEF ContentInv
<1> HIDE DEF result
<1> QED
  BY <1>3, <1>4, <1>5, PlainEndings

LEMMA ContentAuthenticate ==
  ASSUME RequestInv, ContentInv, NEW t \in Thread, NEW r \in Request, Authenticate(t, r)
  PROVE  ContentInv'
<1>1. at[r] = "authenticate" /\ UNCHANGED <<input, body, answer>>
  BY DEF Authenticate, boot
<1>2. CASE Knows(Credentials(r)) /\ signed_in' = signed_in \cup {input[r].client}
           /\ Ends(r, Page("redirect", "index"))
  <2>1. LoggedIn(r)
    BY <1>1, <1>2 DEF ContentInv, LoggingIn, LoggedIn
  <2>2. Due(r, "redirect", "index")
    BY DEF Due
  <2>3. Concludes(r, Page("redirect", "index"))
    BY <1>1, <1>2, <2>1, <2>2, Kinds DEF Concludes
  <2> QED
    BY <2>3, ContentConcludes
<1>3. ASSUME NEW ending, Ends(r, ending), UNCHANGED signed_in,
             Plain(ending)
      PROVE  ContentInv'
  BY <1>1, <1>3, ContentPlain
<1>4. \/ Knows(Credentials(r)) /\ signed_in' = signed_in \cup {input[r].client}
           /\ Ends(r, Page("redirect", "index"))
      \/ Ends(r, Page("login", build_context(LoginForm, body[r]))) /\ UNCHANGED signed_in
      \/ Ends(r, Error) /\ UNCHANGED signed_in
  BY DEF Authenticate
<1> QED
  BY <1>2, <1>3, <1>4, PlainEndings

LEMMA ContentAdminView ==
  ASSUME RequestInv, ContentInv, NEW t \in Thread, NEW r \in Request, AdminView(t, r)
  PROVE  ContentInv'
<1>1. UNCHANGED <<input, body, signed_in, answer>>
  BY DEF AdminView, boot
<1>2. ASSUME NEW ending, Ends(r, ending), ending.kind = "response" => Due(r, ending.page, ending.content)
      PROVE  ContentInv'
  BY <1>1, <1>2, ContentConcludes DEF Concludes
<1>3. \/ Ends(r, Page("redirect", "login")) \/ Ends(r, Panic(TRUE)) \/ Ends(r, Error)
      \/ input[r].client \in signed_in /\ Ends(r, Page("models", model_managers))
      \/ input[r].client \in signed_in /\ Ends(r, Page("objects", input[r].target))
  BY DEF AdminView
<1>4. input[r].client \in signed_in => \A content : Due(r, "models", content) /\ Due(r, "objects", content)
  BY DEF Due
<1>5. ASSUME NEW name, NEW content, Ends(r, Page(name, content)), Due(r, name, content)
      PROVE  ContentInv'
  BY <1>2, <1>5, Kinds
<1>6. ASSUME NEW ending, Ends(r, ending), Plain(ending) PROVE ContentInv'
  BY <1>1, <1>6, ContentPlain
<1>7. CASE input[r].client \in signed_in /\ Ends(r, Page("models", model_managers))
  BY <1>4, <1>5, <1>7
<1>8. CASE input[r].client \in signed_in /\ Ends(r, Page("objects", input[r].target))
  BY <1>4, <1>5, <1>8
<1> QED
  BY <1>3, <1>6, <1>7, <1>8, PlainEndings

(* The end of a request sends what its handler has concluded, or an error.  *)
LEMMA ContentAnswered ==
  ASSUME RequestInv, ContentInv, NEW t \in Thread, NEW r \in Request,
         Respond(t, r) \/ CotErrorPage(t, r) \/ CustomErrorPage(t, r)
  PROVE  ContentInv'
<1>1. UNCHANGED <<input, body, signed_in, outcome>>
  BY DEF Respond, CotErrorPage, CustomErrorPage, boot
<1>2. at'[r] \in {"answered", "dropped"} /\ \A q \in Request \ {r} : at'[q] = at[q]
  BY DEF Respond, CotErrorPage, CustomErrorPage, Sent, Dropped, RequestInv, Types
<1>3. BodyKept' /\ LoggingIn' /\ SignedIn'
  <2>1. BodyKept' /\ LoggingIn'
    BY <1>1, <1>2 DEF ContentInv, BodyKept, LoggingIn
  <2>2. SignedIn'
    BY <1>1 DEF ContentInv, SignedIn, LoggedIn, Credentials
  <2> QED
    BY <2>1, <2>2
<1>4. ASSUME NEW status, NEW page, NEW content, NEW shown, Sent(t, r, status, page, content, shown),
             Due(r, page, content)
      PROVE  Results'
  <2>1. /\ answer'[r].page = page /\ answer'[r].content = content
        /\ \A q \in Request \ {r} : answer'[q] = answer[q]
    BY <1>4 DEF Sent, RequestInv, Types
  <2>2. \A q, p, c : Due(q, p, c)' <=> Due(q, p, c)
    BY <1>1 DEF Due
  <2> QED
    BY <1>1, <1>4, <2>1, <2>2 DEF ContentInv, Results
<1>5. \A content : Due(r, "diagnostics", content) /\ Due(r, "custom", content) /\ Due(r, "built-in", content)
  BY DEF Due
<1>6. CASE Respond(t, r)
  <2>1. Due(r, outcome[r].page, outcome[r].content)
    BY <1>6 DEF Respond, ContentInv, Results
  <2>2. \E status : Sent(t, r, status, outcome[r].page, outcome[r].content, None)
    BY <1>6 DEF Respond
  <2> QED
    BY <1>1, <1>3, <1>4, <2>1, <2>2 DEF ContentInv
<1>7. CASE CotErrorPage(t, r)
  <2>1. \E status, content, shown : Sent(t, r, status, "diagnostics", content, shown)
    BY <1>7 DEF CotErrorPage
  <2>2. Results'
    BY <1>4, <1>5, <2>1
  <2> QED
    BY <1>1, <1>3, <2>2 DEF ContentInv
<1>8. CASE CustomErrorPage(t, r)
  <2>1. \/ UNCHANGED answer
        \/ \E status : Sent(t, r, status, "custom", None, None)
        \/ \E status : Sent(t, r, status, "built-in", None, None)
    BY <1>8 DEF CustomErrorPage, Dropped
  <2>2. UNCHANGED answer => Results'
    BY <1>1 DEF ContentInv, Results, Due
  <2>3. Results'
    BY <1>4, <1>5, <2>1, <2>2
  <2> QED
    BY <1>1, <1>3, <2>3 DEF ContentInv
<1> QED
  BY <1>6, <1>7, <1>8

LEMMA ContentInductive == RequestInv /\ ContentInv /\ [Next]_vars => ContentInv'
<1> SUFFICES ASSUME RequestInv, ContentInv, [Next]_vars PROVE ContentInv'
  OBVIOUS
<1>1. CASE Start \/ Fail
  <2>1. UNCHANGED <<input, body, signed_in, outcome, answer>>
    BY <1>1 DEF Start, WithConfig, WithApps, CollectStatic, Boot, Check, Bind, Migrate, TakeApps,
                InitApps, Serve, Fail, served
  <2>2. UNCHANGED at \/ at' = [r \in Request |-> IF at[r] = "waiting" THEN "dropped" ELSE at[r]]
    BY <1>1 DEF Start, WithConfig, WithApps, CollectStatic, Boot, Check, Bind, Migrate, TakeApps,
                InitApps, Serve, Fail, served
  <2> QED
    BY <2>1, <2>2, ContentQuiet DEF Quiet, Earlier
<1>2. ASSUME NEW r \in Request, Connect(r) PROVE ContentInv'
  BY <1>2, ContentQuiet DEF Connect, Quiet, Earlier, RequestInv, Types
<1>3. ASSUME NEW t \in Thread, NEW r \in Request, Poll(t, r) \/ Wait(t, r) PROVE ContentInv'
  BY <1>3, ContentQuiet DEF Poll, Wait, Quiet, Earlier, RequestInv, Types
<1>4. ASSUME NEW t \in Thread, TaskPanics(t) PROVE ContentInv'
  BY <1>4, ContentQuiet DEF TaskPanics, Quiet, Earlier
<1>5. CASE UNCHANGED vars
  BY <1>5, ContentQuiet DEF vars, served, Quiet, Earlier
<1> QED
  BY <1>1, <1>2, <1>3, <1>4, <1>5, ContentHandle, ContentFormView, ContentLoginView,
     ContentAuthenticate, ContentAdminView, ContentAnswered DEF Next, Step

LEMMA ContentInvariance == Spec => []ContentInv
<1>1. Init => ContentInv
  BY ContentInit
<1>2. BootInv /\ RequestInv /\ ContentInv /\ [Next]_vars => ContentInv'
  BY ContentInductive
<1> QED
  BY <1>1, <1>2, Invariance, PTL DEF Spec

(* A form that a browser let through is accepted as the user filled it in,  *)
(* with three exceptions: for any form and entries, and whatever else the   *)
(* server does meanwhile.                                                   *)
THEOREM ServerHearsTheBrowser == Spec => []BrowserIsHeard
<1>1. ContentInv => BrowserIsHeard
  <2> SUFFICES ASSUME ContentInv, NEW r \in Request,
                      answer[r] # None, answer[r].page = "form", input[r].entered # None,
                      NEW k \in DOMAIN input[r].form
               PROVE  Heard(input[r].form[k], input[r].entered[k],
                            [error |-> answer[r].content.errors[k], value |-> answer[r].content.values[k]])
    BY DEF BrowserIsHeard, Heard
  <2> DEFINE form == input[r].form
             entered == input[r].entered
             cleaned == clean_value(form[k], Chosen(form[k], entered[k]))
  <2>1. answer[r].content = from_request(form, input[r].pairs)
    BY DEF ContentInv, Results, Due
  <2>2. input[r].pairs \in Seq(Pair) /\ IsForm(form) /\ SentByBrowser(form, entered, input[r].pairs)
    BY InputsAreSent DEF ContentInv, Pair
  <2>3. /\ answer[r].content.errors[k] = cleaned.error
        /\ answer[r].content.values[k] = cleaned.value
        /\ Heard(form[k], entered[k], cleaned)
    BY <2>1, <2>2, FormIsHeard
  <2> HIDE DEF cleaned
  <2> QED
    BY <2>3 DEF Heard
<1> QED
  BY <1>1, ContentInvariance, PTL

(* Whoever gets a page of the admin's has sent a user's name and password   *)
(* to login, in a POST: for any users and any requests.                     *)
THEOREM ServerAdminNeedsLogin == Spec => []AdminNeedsLogin
<1>1. ContentInv => AdminNeedsLogin
  <2> SUFFICES ASSUME ContentInv, NEW r \in Request,
                      answer[r] # None, answer[r].page \in {"models", "objects"}
               PROVE  \E q \in Request :
                        /\ input[q].client = input[r].client
                        /\ input[q].target = "login" /\ input[q].method = "POST"
                        /\ \E name \in DOMAIN Users, i, j \in DOMAIN input[q].pairs :
                             /\ input[q].pairs[i] = <<"username", name>>
                             /\ input[q].pairs[j] = <<"password", Users[name]>>
                             /\ \A k \in DOMAIN input[q].pairs :
                                  /\ input[q].pairs[k][1] = "username" => k <= i
                                  /\ input[q].pairs[k][1] = "password" => k <= j
    BY DEF AdminNeedsLogin
  <2>1. input[r].client \in signed_in
    BY DEF ContentInv, Results, Due
  <2>2. PICK q \in Request : input[q].client = input[r].client /\ LoggedIn(q)
    BY <2>1 DEF ContentInv, SignedIn
  <2> DEFINE pairs == input[q].pairs
             values == from_request(LoginForm, pairs).values
  <2>3. pairs \in Seq(Pair) /\ ~has_errors(from_request(LoginForm, pairs))
    BY <2>2, InputsAreSent DEF ContentInv, Pair, LoggedIn
  <2>4. LoginForm[1].id = "username" /\ LoginForm[2].id = "password"
    BY DEF LoginForm, StringField, PasswordField, Field
  <2>5. PICK i \in DOMAIN pairs :
               /\ pairs[i] = <<LoginForm[1].id, values[1]>>
               /\ \A l \in DOMAIN pairs : pairs[l][1] = LoginForm[1].id => l <= i
    BY <2>3, LoginValues
  <2>6. PICK j \in DOMAIN pairs :
               /\ pairs[j] = <<LoginForm[2].id, values[2]>>
               /\ \A l \in DOMAIN pairs : pairs[l][1] = LoginForm[2].id => l <= j
    BY <2>3, LoginValues
  <2>7. values[1] \in DOMAIN Users /\ Users[values[1]] = values[2]
    BY <2>2 DEF LoggedIn, Knows, Credentials
  <2>8. input[q].target = "login" /\ input[q].method = "POST"
    BY <2>2 DEF LoggedIn
  <2> HIDE DEF values
  <2> QED
    BY <2>2, <2>4, <2>5, <2>6, <2>7, <2>8
<1> QED
  BY <1>1, ContentInvariance, PTL
===============================================================================
