-------------------------------- MODULE Router --------------------------------
(***************************************************************************)
(* Router (src/cot/src/router.rs): routers nested in routers, searched for *)
(* the handler of a path (get_handler), and for the URL of a view by its   *)
(* name (reverse_option).  Both functions call themselves on the routers   *)
(* below; their frames are explicit here, and a step is one iteration.     *)
(***************************************************************************)
EXTENDS PathMatcher

CONSTANTS
  None,    \* nothing: no name, or no router below
  Tables,  \* trees of routers: sequences of routers, of which the first is the root
  Paths,   \* paths that are requested
  Name,    \* names of views
  Args     \* parameters given to reverse!, by name

(* A route: its pattern, its name, and the router below it or None if it    *)
(* has a handler.                                                           *)
IsTable(t) ==
  /\ t \in Seq(Seq([url : Seq(Char), name : Name \cup {None}, router : DOMAIN t \cup {None}]))
  /\ \A r \in DOMAIN t \ {1} : \E q \in DOMAIN t : \E i \in DOMAIN t[q] : t[q][i].router = r
  /\ \A r \in DOMAIN t : \A i \in DOMAIN t[r] :
       t[r][i].router # None => t[r][i].router > r /\ t[r][i].name = None

(* The path of a request has a slash in front.                              *)
IsPath(p) == p \in Seq(Char) /\ p # <<>> /\ p[1] = "/"

ASSUME TablesAssumption ==
  /\ \A t \in Tables : t # <<>> /\ IsTable(t)
  /\ \A p \in Paths : IsPath(p)
  /\ None \notin Name \cup Nat
ASSUME ArgsAssumption == \A args \in Args : \A name \in DOMAIN args : args[name] \in Seq(Char)

VARIABLES
  table,   \* the routes, by router
  matchers, \* the parts of their patterns, parsed when they are written
  pc,      \* the function that runs, or how it ended
  frames,  \* its activations: the router, the route it is at (0 is the table
           \* of names), and what is left of the path and was taken from it
  asked,   \* what reverse was asked for, and the route it found
  path,    \* the path requested
  params   \* PathParams of the request when its handler is called
vars == <<table, matchers, pc, frames, asked, path, params>>

depth == Len(frames)
Top == frames[depth]
AtEnd == Top.at > Len(table[Top.router])
Route == table[Top.router][Top.at]
Frame(router, at, rest, taken) == [router |-> router, at |-> at, rest |-> rest, taken |-> taken]

Init ==
  /\ table \in Tables
  /\ matchers = <<>>
  /\ pc = "start"
  /\ frames = <<>>
  /\ asked = None
  /\ path = <<>>
  /\ params = <<>>

(* Route::with_handler and with_router parse their patterns.                *)
Register ==
  /\ pc = "start"
  /\ IF \E r \in DOMAIN table : \E i \in DOMAIN table[r] : Panics(table[r][i].url)
       THEN pc' = "panicked" /\ UNCHANGED matchers
       ELSE /\ pc' = "ready"
            /\ matchers' = [r \in DOMAIN table |-> [i \in DOMAIN table[r] |-> Parts(table[r][i].url)]]
  /\ UNCHANGED <<table, frames, asked, path, params>>

NextRoute == frames' = [frames EXCEPT ![depth].at = @ + 1]
Enter(rest, taken, at) == frames' = Append(frames, Frame(Route.router, at, rest, taken))

(* Mutant: the loop over the parent's routes starts again.                  *)
ReturnToStart(nothing) ==
  /\ AtEnd
  /\ \/ depth = 1 /\ pc' = nothing /\ UNCHANGED frames
     \/ /\ depth > 1
        /\ frames' = [SubSeq(frames, 1, depth - 1) EXCEPT ![depth - 1].at = 1]
        /\ UNCHANGED pc
  /\ UNCHANGED <<table, matchers, asked, path, params>>

(* A router has nothing: the loop over its parent's routes goes on.         *)
Return(nothing) ==
  /\ AtEnd
  /\ \/ /\ depth = 1
        /\ pc' = nothing
        /\ UNCHANGED frames
     \/ /\ depth > 1
        /\ frames' = [SubSeq(frames, 1, depth - 1) EXCEPT ![depth - 1].at = @ + 1]
        /\ UNCHANGED pc
  /\ UNCHANGED <<table, matchers, asked, path, params>>

-----------------------------------------------------------------------------
(* A chain is a route of the root, a route of the router below it, and so   *)
(* on: the routers it leads through, and its patterns one after the other.  *)
Through(c) ==
  LET r[k \in 0..Len(c)] ==
        IF k = 0 THEN 1
        ELSE IF r[k - 1] \in DOMAIN table /\ c[k] \in DOMAIN table[r[k - 1]]
               THEN table[r[k - 1]][c[k]].router ELSE 0
  IN  r
Chain == [k \in DOMAIN frames |-> frames[k].at]
PartsOf(c) == FlattenSeq([k \in DOMAIN c |-> matchers[Through(c)[k - 1]][c[k]]])

(* reverse!(name, args): the table of names has the last route of a name.   *)
ReverseOption(name, args) ==
  /\ pc = "ready"
  /\ pc' = "reverse"
  /\ asked' = [name |-> name, args |-> args, chain |-> <<>>]
  /\ frames' = <<Frame(1, 0, <<>>, <<>>)>>
  /\ UNCHANGED <<table, matchers, path, params>>

Named == {i \in DOMAIN table[Top.router] : table[Top.router][i].name = asked.name}

(* Mutant: what the routers above take is left out of the URL.              *)
LastUrl(c) == matchers[Through(c)[Len(c) - 1]][c[Len(c)]]
Url(c) == PartsOf(c)

(* The name is there: the callers put their own patterns in front.          *)
ReverseNamed ==
  /\ pc = "reverse" /\ Top.at = 0 /\ Named # {}
  /\ LET c == [Chain EXCEPT ![depth] = Max(Named)]
     IN  /\ asked' = [asked EXCEPT !.chain = c]
         /\ IF Missing(Url(c), asked.args)
              THEN pc' = "missing" /\ UNCHANGED path
              ELSE pc' = "url" /\ path' = Reversed(Url(c), asked.args)
  /\ UNCHANGED <<table, matchers, frames, params>>

(* It is not: the routers below are searched.                               *)
ReverseRoute ==
  /\ pc = "reverse" /\ ~AtEnd
  /\ \/ Top.at = 0 /\ Named = {} /\ NextRoute
     \/ Top.at > 0 /\ Route.router = None /\ NextRoute
     \/ Top.at > 0 /\ Route.router # None /\ Enter(<<>>, <<>>, 0)
  /\ UNCHANGED <<table, matchers, pc, asked, path, params>>

-----------------------------------------------------------------------------
(* A request of a path, one that reverse made or any other one.             *)
Handle(p) ==
  /\ \/ pc = "ready" /\ p \in Paths
     \/ pc = "url" /\ p = path /\ IsPath(path)
  /\ pc' = "get_handler"
  /\ path' = p
  /\ frames' = <<Frame(1, 1, p, <<>>)>>
  /\ UNCHANGED <<table, matchers, asked, params>>

(* Mutant: the outer parameter of a name stays.                             *)
InsertNew(list, pair) ==
  IF \E i \in DOMAIN list : list[i][1] = pair[1] THEN list ELSE Append(list, pair)

(* PathParams: a name that comes again replaces the value, in its place.    *)
Insert(list, pair) ==
  IF \E i \in DOMAIN list : list[i][1] = pair[1]
    THEN [i \in DOMAIN list |-> IF list[i][1] = pair[1] THEN pair ELSE list[i]]
    ELSE Append(list, pair)
PathParams(pairs) == FoldLeft(Insert, <<>>, pairs)

Captured == Capture(matchers[Top.router][Top.at], Top.rest)

(* One route: a handler must match all of the path, a router the first part.*)
HandleRoute ==
  /\ pc = "get_handler" /\ ~AtEnd
  /\ \/ /\ Captured.matched => Route.router = None /\ Captured.rest # <<>>
        /\ NextRoute
        /\ UNCHANGED <<pc, params>>
     \/ /\ Captured.matched /\ Route.router = None /\ Captured.rest = <<>>
        /\ pc' = "found"
        /\ params' = PathParams(Top.taken \o Captured.params)
        /\ UNCHANGED frames
     \/ /\ Captured.matched /\ Route.router # None
        /\ Enter(Captured.rest, Top.taken \o Captured.params, 1)
        /\ UNCHANGED <<pc, params>>
  /\ UNCHANGED <<table, matchers, asked, path>>

(* Mutant: the search ends with the first router that takes the path.       *)
GiveUp ==
  /\ pc = "get_handler" /\ AtEnd
  /\ pc' = "not_found"
  /\ UNCHANGED <<table, matchers, frames, asked, path, params>>

HandleReturn == pc = "get_handler" /\ Return("not_found")
ReverseReturn == pc = "reverse" /\ Return("no_view")

Start ==
  \/ Register
  \/ \E name \in Name, args \in Args : ReverseOption(name, args)
  \/ \E p \in Paths \cup {path} : Handle(p)
Iterate == ReverseNamed \/ ReverseRoute \/ ReverseReturn \/ HandleRoute \/ HandleReturn
Next == Start \/ Iterate

Spec == Init /\ [][Next]_vars

-----------------------------------------------------------------------------
(* The chains of this table, in the order of the search.                    *)
Chains == {c \in SeqOf(UNION {DOMAIN table[r] : r \in DOMAIN table}, Len(table)) :
             Through(c)[Len(c)] = None}
Earlier(c, d) == \E k \in DOMAIN c \cap DOMAIN d : c[k] < d[k] /\ \A j \in 1..(k - 1) : c[j] = d[j]

(* What it means that a path is of the form of parts, without an algorithm: *)
(* there are places to cut it, such that each piece is as its part says.    *)
Piece(p, cut, k) == SubSeq(p, cut[k - 1] + 1, cut[k])
Form(whole, p, cut) ==
  /\ cut[0] = 0 /\ cut[Len(whole)] = Len(p)
  /\ \A k \in DOMAIN whole : cut[k - 1] <= cut[k]
  /\ \A k \in DOMAIN whole :
       IF IsParam(whole[k])
         THEN /\ Piece(p, cut, k) # <<>> /\ "/" \notin ToSet(Piece(p, cut, k))
              /\ cut[k] < Len(p) => p[cut[k] + 1] = "/"
         ELSE Piece(p, cut, k) = whole[k].literal
Cuts(parts, p) == [0..Len(parts) -> 0..Len(p)]
Fits(parts, p) == \E cut \in Cuts(parts, p) : Form(parts, p, cut)

(* The handler that is called is the first one, in the order in which the   *)
(* routes are written, whose whole pattern the path has; with a router that *)
(* takes the beginning of the path and has no handler for the rest the      *)
(* search is not over, and none is found only when no route has the path.   *)
FoundIsFirst ==
  /\ pc = "found" =>
       /\ Chain \in Chains /\ Fits(PartsOf(Chain), path)
       /\ \A c \in Chains : Earlier(c, Chain) => ~Fits(PartsOf(c), path)
  /\ pc = "not_found" => \A c \in Chains : ~Fits(PartsOf(c), path)

(* The view gets every parameter of its pattern, the outer ones first, with *)
(* the piece of the path that is in its place, the innermost one of a name. *)
ParamsAreThePieces ==
  pc = "found" =>
    \E cut \in Cuts(PartsOf(Chain), path) :
      LET parts == PartsOf(Chain)
          last(name) == Max({k \in DOMAIN parts : parts[k] = Param(name)})
      IN  /\ Form(parts, path, cut)
          /\ {params[i][1] : i \in DOMAIN params} = {parts[k].name : k \in {j \in DOMAIN parts : IsParam(parts[j])}}
          /\ \A i \in DOMAIN params : params[i][2] = Piece(path, cut, last(params[i][1]))
          /\ \A i, j \in DOMAIN params : i < j =>
               \E k \in DOMAIN parts : parts[k] = Param(params[i][1])
                 /\ \A m \in 1..k : parts[m] # Param(params[j][1])

(* Parameters that can be told apart in a path.                             *)
Plain(parts, args) ==
  \A k \in DOMAIN parts : IsParam(parts[k]) =>
    /\ parts[k].name \in DOMAIN args
    /\ args[parts[k].name] # <<>> /\ "/" \notin ToSet(args[parts[k].name])
    /\ k < Len(parts) => ~IsParam(parts[k + 1]) /\ IsPrefix(<<"/">>, parts[k + 1].literal)

(* A URL that reverse made was requested, and the search has ended.         *)
Reached == pc \in {"found", "not_found"} /\ asked # None /\ Plain(PartsOf(asked.chain), asked.args)

(* It leads back to the view that it was made for, with the parameters it   *)
(* was made of, unless a route before it takes the same path.               *)
LeadsBack ==
  Reached =>
    /\ pc = "found"
    /\ \/ Earlier(Chain, asked.chain)
       \/ /\ Chain = asked.chain
          /\ \A i \in DOMAIN params : params[i][2] = asked.args[params[i][1]]

NoBlanks(text) ==
  FlattenSeq([i \in DOMAIN text |-> IF text[i] = Blank THEN <<>> ELSE <<text[i]>>])

(* A pattern that was accepted is shown, by route.url() and on error pages, *)
(* as it was written, escaped braces included.                              *)
PatternsReadBack ==
  pc \notin {"start", "panicked"} =>
    \A r \in DOMAIN table : \A i \in DOMAIN table[r] :
      NoBlanks(Display(matchers[r][i])) = NoBlanks(table[r][i].url)

(* A search goes through the tree once, from the first route to the last:   *)
(* it never looks at a route again that it has left, so it comes to an end. *)
Forward == IsStrictPrefix(Chain, Chain') \/ Earlier(Chain, Chain')
NeverBack == [][pc' = pc /\ pc \in {"reverse", "get_handler"} => Forward]_vars
==============================================================================
