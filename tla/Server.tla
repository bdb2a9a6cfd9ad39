-------------------------------- MODULE Server --------------------------------
(***************************************************************************)
(* A Cot project from its command line to the answers it gives: the stages *)
(* of Bootstrapper, the tasks of the CLI, run_at (src/cot/src/project.rs,  *)
(* cli.rs), the middlewares and static files around the router, the error  *)
(* pages with the thread-locals of the panic hook (error_page.rs), the     *)
(* reading of forms (Forms, request.rs) and the admin panel (admin.rs).    *)
(*                                                                         *)
(* Requests are futures that are polled by the threads of the runtime.  A  *)
(* thread polls one request until it waits for something or is answered;   *)
(* between two polls a request may change thread.                          *)
(***************************************************************************)
EXTENDS Forms, FiniteSets

CONSTANTS
  Thread, Request, Client,
  Apps,      \* what register_apps registers: a sequence of apps
  Files,     \* paths of static files
  Models,    \* url_names of admin's models
  Configs,   \* ProjectConfig: debug, register_panic_hook, and whether there is a database
  Inputs,    \* functions from Request to what is requested
  Users,     \* the users' passwords, by name
  MaxWaits   \* bound: how often a request waits

App == [files : SUBSET Files, models : SUBSET Models]

ASSUME ServerAssumption ==
  /\ Apps \in Seq(App)
  /\ None \notin Request
  /\ Configs \subseteq [debug : BOOLEAN, register_panic_hook : BOOLEAN, database : BOOLEAN]
(* The pairs of a request into whose form something was entered come from a *)
(* browser that has shown the form; those of other requests are any pairs.  *)
ASSUME InputsAreSent ==
  \A asked \in Inputs : \A r \in Request :
    /\ asked[r].pairs \in Seq(Names \X DOMAIN Text)
    /\ asked[r].entered # None => /\ IsForm(asked[r].form)
                                  /\ SentByBrowser(asked[r].form, asked[r].entered, asked[r].pairs)

VARIABLES
  command,   \* the subcommand: "run" (none), "check" or "collect-static"
  config,    \* the project's configuration
  phase,     \* the Bootstrapper's type parameter, then the stages of run_at
  apps,      \* the apps in the ProjectContext
  taken,     \* the apps that run_at has taken out of it
  migrated,  \* the migrations of all apps were run
  files,     \* StaticFiles: the app whose file is at a path
  collected, \* what collect-static has written
  hook,      \* the panic hook: "default", or with "error_page" behind it
  input,     \* each request: client, target, method, is_form (its content type), pairs (of the
             \* query or the body), form and entered (for a form), handler (what the project's
             \* error handler does if it comes to that)
  body,      \* the pairs that are still in the request's body
  at,        \* where each request is
  waits,     \* how often it has waited
  signed_in, \* clients whose session has a user
  polled,    \* the request that each thread polls
  location,  \* PANIC_LOCATION of each thread: the request that panicked, or "elsewhere"
  outcome,   \* the result of catch_unwind around the request's handler
  answer     \* the response that was sent
boot == <<command, config, phase, apps, taken, migrated, files, collected, hook>>
served == <<body, at, waits, signed_in, polled, location, outcome, answer>>
vars == <<boot, input, served>>

Init ==
  /\ command \in {"run", "check", "collect-static"}
  /\ config \in Configs
  /\ phase = "Uninitialized"
  /\ apps = <<>> /\ taken = <<>>
  /\ migrated = FALSE
  /\ files = <<>> /\ collected = <<>>
  /\ hook = "default"
  /\ input \in Inputs
  /\ body = [r \in Request |-> input[r].pairs]
  /\ at = [r \in Request |-> "client"]
  /\ waits = [r \in Request |-> 0]
  /\ signed_in = {}
  /\ polled = [t \in Thread |-> None]
  /\ location = [t \in Thread |-> None]
  /\ outcome = [r \in Request |-> [kind |-> "none"]]
  /\ answer = [r \in Request |-> None]

-----------------------------------------------------------------------------
(* The start.  A stage that fails ends it: the listener is closed, and with *)
(* it the connections that were waiting for the server.                     *)
Advance(from, to) == phase = from /\ phase' = to
MayFail ==
  \/ phase \in {"Uninitialized", "WithApps", "Initializing", "Ready"}
  \/ phase = "Initialized" /\ command = "run"
  \/ phase = "Bound" /\ config.database
(* Mutant: the listener stays open.                                         *)
FailListening ==
  /\ MayFail
  /\ phase' = "Failed"
  /\ UNCHANGED <<command, config, apps, taken, migrated, files, collected, hook, input, served>>
Fail ==
  /\ MayFail
  /\ phase' = "Failed"
  /\ at' = [r \in Request |-> IF at[r] = "waiting" THEN "dropped" ELSE at[r]]
  /\ UNCHANGED <<command, config, apps, taken, migrated, files, collected, hook, input, body,
                 waits, signed_in, polled, location, outcome, answer>>

(* Bootstrapper::with_config_name, read_config.                             *)
WithConfig ==
  /\ Advance("Uninitialized", "WithConfig")
  /\ UNCHANGED <<command, config, apps, taken, migrated, files, collected, hook, input, served>>

(* Bootstrapper::with_apps.                                                 *)
WithApps ==
  /\ Advance("WithConfig", "WithApps")
  /\ apps' = Apps
  /\ UNCHANGED <<command, config, taken, migrated, files, collected, hook, input, served>>

(* StaticFiles::from: of two apps with a file of the same path, the last.   *)
StaticFiles(registered) ==
  LET having(path) == {k \in DOMAIN registered : path \in registered[k].files}
  IN [path \in {p \in Files : having(p) # {}} |->
        CHOOSE k \in having(path) : \A j \in having(path) : j <= k]

(* CollectStatic::execute writes them and ends.                             *)
CollectStatic ==
  /\ command = "collect-static"
  /\ Advance("WithApps", "Done")
  /\ collected' = StaticFiles(apps)
  /\ UNCHANGED <<command, config, apps, taken, migrated, files, hook, input, served>>

(* Bootstrapper::boot: the middlewares, the auth backend, the database.     *)
Boot ==
  /\ command # "collect-static"
  /\ Advance("WithApps", "Initialized")
  /\ files' = StaticFiles(apps)
  /\ UNCHANGED <<command, config, apps, taken, migrated, collected, hook, input, served>>

(* Check::execute ends here.                                                *)
Check ==
  /\ command = "check"
  /\ Advance("Initialized", "Done")
  /\ UNCHANGED <<command, config, apps, taken, migrated, files, collected, hook, input, served>>

(* run: from here on, clients can connect.                                  *)
Bind ==
  /\ command = "run"
  /\ Advance("Initialized", "Bound")
  /\ UNCHANGED <<command, config, apps, taken, migrated, files, collected, hook, input, served>>

(* run_at: MigrationEngine::run, if there is a database.                    *)
Migrate ==
  /\ Advance("Bound", "Migrated")
  /\ migrated' = (migrated \/ config.database)
  /\ UNCHANGED <<command, config, apps, taken, files, collected, hook, input, served>>

(* std::mem::take(&mut context.apps).                                       *)
TakeApps ==
  /\ Advance("Migrated", "Initializing")
  /\ taken' = apps /\ apps' = <<>>
  /\ UNCHANGED <<command, config, migrated, files, collected, hook, input, served>>

(* Mutant: the apps are not put back.                                       *)
InitWithoutPuttingBack ==
  /\ Advance("Initializing", "Ready")
  /\ taken' = <<>>
  /\ UNCHANGED <<command, config, apps, migrated, files, collected, hook, input, served>>
(* App::init of each of them (Fail if one fails), and back into the context.*)
InitApps ==
  /\ Advance("Initializing", "Ready")
  /\ apps' = taken /\ taken' = <<>>
  /\ UNCHANGED <<command, config, migrated, files, collected, hook, input, served>>

(* set_hook, if configured, and axum::serve, which does not return.         *)
Serve ==
  /\ Advance("Ready", "Serving")
  /\ hook' = IF config.register_panic_hook THEN "error_page" ELSE hook
  /\ UNCHANGED <<command, config, apps, taken, migrated, files, collected, input, served>>

Start == WithConfig \/ WithApps \/ CollectStatic \/ Boot \/ Check \/ Bind \/ Migrate
           \/ TakeApps \/ InitApps \/ Serve

-----------------------------------------------------------------------------
(* Requests.  A connection is accepted by the system as soon as the address *)
(* is bound, and waits.                                                     *)
Connect(r) ==
  /\ phase \in {"Bound", "Migrated", "Initializing", "Ready", "Serving"}
  /\ at[r] = "client" /\ input[r].target # "none"
  /\ at' = [at EXCEPT ![r] = "waiting"]
  /\ UNCHANGED <<boot, input, body, waits, signed_in, polled, location, outcome, answer>>

Suspended == {"waiting", "view", "authenticate"}
Poll(t, r) ==
  /\ phase = "Serving"
  /\ polled[t] = None /\ \A u \in Thread : polled[u] # r
  /\ at[r] \in Suspended
  /\ polled' = [polled EXCEPT ![t] = r]
  /\ at' = [at EXCEPT ![r] = IF @ = "waiting" THEN "middleware" ELSE @]
  /\ UNCHANGED <<boot, input, body, waits, signed_in, location, outcome, answer>>

(* The handler of the request r that t polls waits for something.           *)
Wait(t, r) ==
  /\ polled[t] = r /\ at[r] \in {"view", "authenticate"}
  /\ waits[r] < MaxWaits
  /\ waits' = [waits EXCEPT ![r] = @ + 1]
  /\ polled' = [polled EXCEPT ![t] = None]
  /\ UNCHANGED <<boot, input, body, at, signed_in, location, outcome, answer>>

(* The handler has come to its end; what follows is still the same poll.    *)
Ends(r, result) ==
  /\ outcome' = [outcome EXCEPT ![r] = result]
  /\ at' = [at EXCEPT ![r] = "caught"]
Page(name, content) == [kind |-> "response", page |-> name, content |-> content]
NotFound == [kind |-> "trigger"]
Error == [kind |-> "error"]
Panic(hooked) == [kind |-> "panic", hooked |-> hooked]

(* error_page_panic_hook, behind the hook that was there before.            *)
PanicHook(t, what) ==
  location' = IF hook = "error_page" THEN [location EXCEPT ![t] = what] ELSE location

(* StaticFilesMiddleware, and the router behind it.                         *)
Handle(t, r) ==
  /\ polled[t] = r /\ at[r] = "middleware"
  /\ \/ input[r].target \in DOMAIN files /\ Ends(r, Page("file", files[input[r].target]))
     \/ /\ input[r].target \in (Files \ DOMAIN files) \cup {"nowhere"}
        /\ Ends(r, NotFound)
     \/ /\ input[r].target \notin Files \cup {"nowhere"}
        /\ at' = [at EXCEPT ![r] = "view"]
        /\ UNCHANGED outcome
  /\ UNCHANGED <<boot, input, body, waits, signed_in, polled, location, answer>>

(* A view of an application may end in any way, and may have caught a panic *)
(* of its own before.  The payload of a panic that was caught, there or on  *)
(* another thread, may be raised again, which does not run the hook.        *)
View(t, r) ==
  /\ polled[t] = r /\ at[r] = "view" /\ input[r].target = "app"
  /\ \/ /\ \E result \in {Page("app", None), Error, Panic(FALSE)} : Ends(r, result)
        /\ UNCHANGED location \/ PanicHook(t, "elsewhere")
     \/ Ends(r, Panic(TRUE)) /\ PanicHook(t, r)
  /\ UNCHANGED <<boot, input, body, waits, signed_in, polled, answer>>

IsQuery(r) == input[r].method \in {"GET", "HEAD"}
(* form_data is an error for another content type; otherwise it takes the   *)
(* body, except that a query can be read again.                             *)
FormDataFails(r) == ~IsQuery(r) /\ ~input[r].is_form
Taken(r) == body' = IF IsQuery(r) THEN body ELSE [body EXCEPT ![r] = <<>>]

(* A view that answers with what from_request made of its form.             *)
FormView(t, r) ==
  /\ polled[t] = r /\ at[r] = "view" /\ input[r].target = "form"
  /\ \/ FormDataFails(r) /\ Ends(r, Error) /\ UNCHANGED body
     \/ /\ ~FormDataFails(r)
        /\ Ends(r, Page("form", from_request(input[r].form, body[r])))
        /\ Taken(r)
  /\ UNCHANGED <<boot, input, waits, signed_in, polled, location, answer>>

LoginForm == <<StringField("username", FALSE, None), PasswordField("password", None)>>

(* admin.rs: login.  A form that is in order goes on to authenticate.       *)
LoginView(t, r) ==
  /\ polled[t] = r /\ at[r] = "view" /\ input[r].target = "login"
  /\ \/ /\ input[r].method = "GET"
        /\ Ends(r, Page("login", build_context(LoginForm, body[r])))
        /\ UNCHANGED <<body, location>>
     \/ /\ input[r].method = "POST"
        /\ LET result == from_request(LoginForm, body[r])
           IN \/ FormDataFails(r) /\ Ends(r, Error) /\ UNCHANGED body
              \/ /\ ~FormDataFails(r) /\ has_errors(result)
                 /\ Ends(r, Page("login", result.context))
                 /\ Taken(r)
              \/ /\ ~FormDataFails(r) /\ ~has_errors(result)
                 /\ at' = [at EXCEPT ![r] = "authenticate"]
                 /\ Taken(r)
                 /\ UNCHANGED outcome
        /\ UNCHANGED location
     \/ /\ input[r].method \notin {"GET", "POST"}
        /\ Ends(r, Panic(TRUE)) /\ PanicHook(t, r)
        /\ UNCHANGED body
  /\ UNCHANGED <<boot, input, waits, signed_in, polled, answer>>

Credentials(r) == from_request(LoginForm, input[r].pairs).values
(* Mutant: whoever exists is let in.                                        *)
KnowsName(credentials) == credentials[1] \in DOMAIN Users
Knows(credentials) ==
  credentials[1] \in DOMAIN Users /\ Users[credentials[1]] = credentials[2]
(* The rest of it: authenticate, and for a user who is refused the form of  *)
(* what is left of the request.                                             *)
Authenticate(t, r) ==
  /\ polled[t] = r /\ at[r] = "authenticate"
  /\ \/ /\ Knows(Credentials(r))
        /\ signed_in' = signed_in \cup {input[r].client}
        /\ Ends(r, Page("redirect", "index"))
     \/ /\ ~Knows(Credentials(r))
        /\ Ends(r, Page("login", build_context(LoginForm, body[r])))
        /\ UNCHANGED signed_in
     \/ Ends(r, Error) /\ UNCHANGED signed_in  \* the database
  /\ UNCHANGED <<boot, input, body, waits, polled, location, answer>>

model_managers == UNION {apps[k].models : k \in DOMAIN apps}

(* admin.rs: index and view_model, for which find(..).unwrap() may panic.   *)
AdminView(t, r) ==
  /\ polled[t] = r /\ at[r] = "view" /\ input[r].target \in {"index"} \cup Models
  /\ \/ /\ input[r].client \notin signed_in
        /\ Ends(r, Page("redirect", "login"))
        /\ UNCHANGED location
     \/ /\ input[r].client \in signed_in
        /\ \/ /\ input[r].target = "index"
              /\ Ends(r, Page("models", model_managers)) /\ UNCHANGED location
           \/ /\ input[r].target \in model_managers
              /\ Ends(r, Page("objects", input[r].target)) /\ UNCHANGED location
           \/ /\ input[r].target \in Models \ model_managers
              /\ Ends(r, Panic(TRUE)) /\ PanicHook(t, r)
     \/ Ends(r, Error) /\ UNCHANGED location  \* the session store or the database
  /\ UNCHANGED <<boot, input, body, waits, signed_in, polled, answer>>

Sent(t, r, status, page, content, shown) ==
  /\ answer' = [answer EXCEPT ![r] =
       [status |-> status, page |-> page, content |-> content, location |-> shown]]
  /\ at' = [at EXCEPT ![r] = "answered"]
  /\ polled' = [polled EXCEPT ![t] = None]
Status(result) == IF result.kind = "trigger" THEN 404 ELSE 500

Respond(t, r) ==
  /\ polled[t] = r /\ at[r] = "caught" /\ outcome[r].kind = "response"
  /\ Sent(t, r, IF outcome[r].page = "redirect" THEN 303 ELSE 200, outcome[r].page, outcome[r].content, None)
  /\ UNCHANGED <<boot, input, body, waits, signed_in, location, outcome>>

(* Mutant: the location stays where it is.                                  *)
CotErrorPageKeeping(t, r) ==
  /\ polled[t] = r /\ at[r] = "caught" /\ outcome[r].kind # "response" /\ config.debug
  /\ Sent(t, r, Status(outcome[r]), "diagnostics", outcome[r].kind,
          IF outcome[r].kind = "panic" THEN location[t] ELSE None)
  /\ UNCHANGED <<boot, input, body, waits, signed_in, location, outcome>>
(* build_cot_error_page: the page for a panic takes the location that the   *)
(* thread's last panic has left.                                            *)
CotErrorPage(t, r) ==
  /\ polled[t] = r /\ at[r] = "caught" /\ outcome[r].kind # "response" /\ config.debug
  /\ \/ /\ outcome[r].kind = "panic"
        /\ Sent(t, r, 500, "diagnostics", "panic", location[t])
        /\ location' = [location EXCEPT ![t] = None]
     \/ /\ outcome[r].kind # "panic"
        /\ Sent(t, r, Status(outcome[r]), "diagnostics", outcome[r].kind, None)
        /\ UNCHANGED location
  /\ UNCHANGED <<boot, input, body, waits, signed_in, outcome>>

(* build_custom_error_page: the project's handler (the default ones give    *)
(* the status of the error, too), or the built-in page if it fails.  If it  *)
(* panics there is nobody left to answer.                                   *)
Dropped(t, r) ==
  /\ at' = [at EXCEPT ![r] = "dropped"]
  /\ polled' = [polled EXCEPT ![t] = None]
  /\ UNCHANGED answer
(* Mutant: the handler's error is unwrapped.                                *)
CustomErrorPageUnwrapped(t, r) ==
  /\ polled[t] = r /\ at[r] = "caught" /\ outcome[r].kind # "response" /\ ~config.debug
  /\ \/ /\ input[r].handler = "answers"
        /\ Sent(t, r, Status(outcome[r]), "custom", None, None)
        /\ UNCHANGED location
     \/ input[r].handler \in {"fails", "panics"} /\ Dropped(t, r) /\ PanicHook(t, r)
  /\ UNCHANGED <<boot, input, body, waits, signed_in, outcome>>
CustomErrorPage(t, r) ==
  /\ polled[t] = r /\ at[r] = "caught" /\ outcome[r].kind # "response" /\ ~config.debug
  /\ \/ /\ input[r].handler = "answers"
        /\ Sent(t, r, Status(outcome[r]), "custom", None, None)
        /\ UNCHANGED location
     \/ /\ input[r].handler = "fails"
        /\ Sent(t, r, Status(outcome[r]), "built-in", None, None)
        /\ UNCHANGED location
     \/ input[r].handler = "panics" /\ Dropped(t, r) /\ PanicHook(t, r)
  /\ UNCHANGED <<boot, input, body, waits, signed_in, outcome>>

(* Something else that runs on the thread panics.                           *)
TaskPanics(t) ==
  /\ phase = "Serving" /\ polled[t] = None
  /\ PanicHook(t, "elsewhere")
  /\ UNCHANGED <<boot, input, body, at, waits, signed_in, polled, outcome, answer>>

Step(t, r) ==
  \/ Handle(t, r) \/ View(t, r) \/ FormView(t, r) \/ LoginView(t, r) \/ Authenticate(t, r)
  \/ AdminView(t, r) \/ Respond(t, r) \/ CotErrorPage(t, r) \/ CustomErrorPage(t, r)

Next ==
  \/ Start \/ Fail
  \/ \E r \in Request : Connect(r)
  \/ \E t \in Thread, r \in Request : Poll(t, r) \/ Wait(t, r) \/ Step(t, r)
  \/ \E t \in Thread : TaskPanics(t)

Spec == Init /\ [][Next]_vars
FairSpec ==
  /\ Spec
  /\ WF_vars(Start)
  /\ \A r \in Request : /\ WF_vars(\E t \in Thread : Poll(t, r))
                        /\ WF_vars(\E t \in Thread : Step(t, r))

-----------------------------------------------------------------------------
Failed(r) == outcome[r].kind \in {"trigger", "error", "panic"}

(* No request is looked at before the migrations were run and every app is  *)
(* initialised and back in the context, although clients can connect from   *)
(* the moment the address is bound; and check and collect-static neither    *)
(* migrate the database nor let anybody connect.                            *)
ServedAfterStart ==
  /\ \A r \in Request : at[r] \notin {"client", "waiting", "dropped"} =>
       /\ apps = Apps /\ DOMAIN files = UNION {Apps[k].files : k \in DOMAIN Apps}
       /\ migrated = config.database
       /\ hook = (IF config.register_panic_hook THEN "error_page" ELSE "default")
  /\ command # "run" => ~migrated /\ \A r \in Request : at[r] = "client"

(* An error page shows where its own request panicked.  A panic that was    *)
(* raised again without the hook is shown without a place, or with that of  *)
(* a panic on the thread that was caught elsewhere, by a task or a view:    *)
(* never with that of a panic that another request came to its end with.    *)
OwnLocation ==
  \A r \in Request : answer[r] # None =>
    IF Failed(r) /\ config.debug /\ outcome[r].kind = "panic"
    THEN IF outcome[r].hooked
         THEN answer[r].location = (IF config.register_panic_hook THEN r ELSE None)
         ELSE answer[r].location \in {None, "elsewhere"}
    ELSE answer[r].location = None

(* A request that got a connection loses it without an answer only when the *)
(* start fails or the project's own error handler panics: not because its   *)
(* view panicked, nor because that handler returned an error.               *)
DroppedForAReason ==
  \A r \in Request : at[r] = "dropped" =>
    \/ phase = "Failed"
    \/ ~config.debug /\ Failed(r) /\ input[r].handler = "panics"

(* Whoever connects is answered, or at least let go, in the end: also those *)
(* who connect before the server is ready.                                  *)
EveryRequestEnds ==
  \A r \in Request : at[r] = "waiting" ~> at[r] \in {"answered", "dropped"}

Meant(field, entered) ==
  IF field.type = "Bool" THEN entered = "ticked"
  ELSE IF field.type = "Integer" THEN Text[entered].number ELSE entered

(* A form is accepted as the user filled it in whenever the browser that    *)
(* was shown it (its required, maxlength, min and max) let it through, with *)
(* three exceptions: max_length counts bytes where maxlength counts UTF-16  *)
(* units, an integer may be written as str::parse does not read it, and 0   *)
(* lies between the MIN and MAX of a NonZero type.  An empty box is FALSE,  *)
(* not a missing value.                                                     *)
BrowserIsHeard ==
  \A r \in Request :
    LET form == input[r].form
        entered == input[r].entered
        result == answer[r].content
    IN answer[r] # None /\ answer[r].page = "form" /\ entered # None => \A k \in DOMAIN form :
         CASE result.errors[k] = None -> result.values[k] = Meant(form[k], entered[k])
           [] result.errors[k] = "MaximumLengthExceeded" ->
                Text[entered[k]].bytes > form[k].max_length
           [] result.errors[k] = "InvalidValue" ->
                /\ form[k].type = "Integer"
                /\ Text[entered[k]].parsed = None \/ Text[entered[k]].number = 0
           [] OTHER -> FALSE

(* The admin's pages are for clients who have sent a user's name and        *)
(* password to login, in a POST.                                            *)
AdminNeedsLogin ==
  \A r \in Request : answer[r] # None /\ answer[r].page \in {"models", "objects"} =>
    \E q \in Request :
      /\ input[q].client = input[r].client
      /\ input[q].target = "login" /\ input[q].method = "POST"
      /\ \E name \in DOMAIN Users, i, j \in DOMAIN input[q].pairs :
           /\ input[q].pairs[i] = <<"username", name>>
           /\ input[q].pairs[j] = <<"password", Users[name]>>
           /\ \A k \in DOMAIN input[q].pairs :
                /\ input[q].pairs[k][1] = "username" => k <= i
                /\ input[q].pairs[k][1] = "password" => k <= j
===============================================================================
