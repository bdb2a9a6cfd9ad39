------------------------------- MODULE MCServer -------------------------------
(* An instance of Server for TLC: two threads and two requests.             *)
EXTENDS Server

CONSTANTS t1, t2, r1, r2, c1, c2

Of(bytes, units, parsed, number) ==
  [bytes |-> bytes, units |-> units, parsed |-> parsed, number |-> number]
Word(n) == Of(n, n, None, None)
(* "ee" stands for two letters of two bytes each.                           *)
Strings ==
  [s \in {"", "0", "1", "7", "1e1", "on", "off", "ee", "abc", "admin", "right"} |->
     CASE s = "" -> Word(0)
       [] s = "0" -> Of(1, 1, 0, 0)
       [] s = "1" -> Of(1, 1, 1, 1)
       [] s = "7" -> Of(1, 1, 7, 7)
       [] s = "1e1" -> Of(3, 3, None, 10)
       [] s = "on" -> Word(2)
       [] s \in {"off", "abc"} -> Word(3)
       [] s = "ee" -> Of(4, 2, None, None)
       [] s \in {"admin", "right"} -> Word(5)]

TwoApps == <<[files |-> {"a.css", "b.css"}, models |-> {"user"}], [files |-> {"b.css"}, models |-> {}]>>
Passwords == [name \in {"admin"} |-> "right"]
SomeConfigs ==
  [debug : BOOLEAN, register_panic_hook : BOOLEAN, database : {TRUE}]
    \cup [debug : {FALSE}, register_panic_hook : {TRUE}, database : {FALSE}]

Ask(target) ==
  [client |-> c1, target |-> target, method |-> "GET", is_form |-> TRUE, pairs |-> <<>>,
   form |-> <<>>, entered |-> None, handler |-> "answers"]
Nobody == Ask("none")
Handled(request) == {[request EXCEPT !.handler = h] : h \in {"answers", "fails", "panics"}}
Both(first, second) ==
  {[r \in Request |-> IF r = r1 THEN a ELSE b] : a \in first, b \in second}

(* Two views that may panic, and other requests next to one.                *)
Pages == Both({Ask("app")}, Handled(Ask("app"))
                \cup UNION {Handled(Ask(target)) : target \in {"nowhere", "c.css"}}
                \cup {Ask("b.css")})

Login(pairs) == [Ask("login") EXCEPT !.method = "POST", !.pairs = pairs]
Named(name, password) == <<<<"username", name>>, <<"password", password>>>>
Logins ==
  {Login(Named("admin", "right")), Login(Named("admin", "abc")), Login(Named("admin", "")),
   Login(Named("abc", "right") \o Named("admin", "right")),
   Login(Named("admin", "right") \o Named("admin", "abc")),
   [Login(Named("admin", "right")) EXCEPT !.is_form = FALSE],
   [Login(Named("admin", "right")) EXCEPT !.method = "GET"],
   [Login(Named("admin", "right")) EXCEPT !.method = "HEAD"]}
Admin == Both(Logins, {Ask("index")})
  \cup Both({Login(Named("admin", "right"))}, {Ask("user"), Ask("nothing"), [Ask("index") EXCEPT !.client = c2]})

Forms ==
  {<<StringField("s", FALSE, 2)>>, <<StringField("s", FALSE, None)>>, <<PasswordField("s", 3)>>,
   <<StringField("s", TRUE, 3)>>,
   <<IntegerField("n", FALSE, 0..20, 0, 20)>>, <<IntegerField("n", TRUE, 0..20, 1, 6)>>,
   <<IntegerField("n", FALSE, (-3..20) \ {0}, -3, 20)>>,
   <<BoolField("b", FALSE, FALSE)>>, <<BoolField("b", FALSE, TRUE)>>, <<BoolField("b", TRUE, FALSE)>>,
   <<StringField("s", FALSE, 3), BoolField("b", FALSE, FALSE)>>}
Typed(form) == {entered \in [DOMAIN form -> UNION {Entries(form[k]) : k \in DOMAIN form}] :
                  /\ \A k \in DOMAIN form : entered[k] \in Entries(form[k])
                  /\ Submits(form, entered)}
Filled ==
  UNION {{[Ask("form") EXCEPT !.method = m, !.form = form, !.entered = entered,
                               !.pairs = Submitted(form, entered)] :
            entered \in Typed(form), m \in {"GET", "POST"}} : form \in Forms}
(* Sent by something other than a browser that was shown the form.          *)
Made ==
  {[Ask("form") EXCEPT !.method = "POST", !.pairs = pairs, !.is_form = f,
                       !.form = <<StringField("s", FALSE, 3), BoolField("b", FALSE, TRUE)>>] :
     f \in BOOLEAN,
     pairs \in {<<>>, <<<<"b", "off">>, <<"x", "abc">>>>, <<<<"b", "7">>, <<"s", "admin">>>>,
                <<<<"s", "">>, <<"b", "on">>>>}}

SmallInputs == Pages \cup Admin \cup Both(Filled, {Nobody}) \cup Both(Made, {Nobody})
===============================================================================
