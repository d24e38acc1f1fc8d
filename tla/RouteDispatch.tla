---------------------------- MODULE RouteDispatch ----------------------------
(***************************************************************************)
(* Which handler answers a request: ModuleManager asks the modules in      *)
(* order (module.cpp), a RoutedModule takes the paths of its routes and of *)
(* its documentation (routed_module.cpp), and RouteManager chooses among   *)
(* the routes (route_manager.cpp).                                         *)
(*                                                                         *)
(* A path is the sequence of what stands between its slashes, which may be *)
(* nothing; a pattern is such a sequence too, with parameters and "*", and *)
(* has the base path in it.                                                *)
(***************************************************************************)
EXTENDS Naturals, Sequences, SequencesExt, FiniteSetsExt

CONSTANTS
    Tables,     \* the routes of each module
    Paths, Methods

VARIABLE rq     \* a request, the module it has got to, and its answer

Params == {"{x}", "{y}"}

Route(method, pattern) == [method |-> method, pattern |-> pattern]

----------------------------------------------------------------------------
(* RouteManager.                                                           *)

\* split_path(): what stands between the slashes, in order, where anything does.
Nothing == ""
Kept(path) == {i \in DOMAIN path : path[i] # Nothing}
Nth(S, k) == CHOOSE i \in S : Cardinality({j \in S : j <= i}) = k
Split(path) == [k \in 1 .. Cardinality(Kept(path)) |-> path[Nth(Kept(path), k)]]

Wild(pat) == pat # <<>> /\ Last(pat) = "*"

\* The segments of a pattern that match_route() compares one by one.
Compared(pat) == IF Wild(pat) THEN Front(pat) ELSE pat

\* match_route(): a "*" that is not the last segment is compared as it is.
MatchRoute(pattern, path) ==
    LET pat  == Split(pattern)
        segs == Split(path)
        cmp  == Compared(pat)
    IN  /\ IF Wild(pat) THEN Len(segs) > Len(cmp) ELSE Len(segs) = Len(cmp)
        /\ \A i \in DOMAIN cmp : cmp[i] \in Params \/ cmp[i] = segs[i]

\* The parameters it hands out; of two with one name the last is kept.
Captured(pattern, path) ==
    LET cmp == Compared(Split(pattern))
    IN  [p \in ToSet(cmp) \cap Params |->
            Split(path)[Max({i \in DOMAIN cmp : cmp[i] = p})]]

Kind(pattern) ==
    CASE Contains(pattern, "*") -> "wildcard"
      [] ~Contains(pattern, "*") /\ ToSet(pattern) \cap Params # {} -> "parametric"
      [] OTHER -> "exact"

HasRoute(routes, path) == \E i \in DOMAIN routes : MatchRoute(routes[i].pattern, path)

Fits(routes, method, path) ==
    {i \in DOMAIN routes : routes[i].method = method /\ MatchRoute(routes[i].pattern, path)}

First(S) == {i \in S : \A j \in S : i <= j}

\* Mutant: one pass, in the order of registration.
ChosenInOnePass(routes, method, path) == First(Fits(routes, method, path))

\* dispatch(): three passes, and in each the first route that fits.
Chosen(routes, method, path) ==
    LET Pass(kind) == {i \in Fits(routes, method, path) : Kind(routes[i].pattern) = kind}
    IN  CASE Pass("exact") # {}                             -> First(Pass("exact"))
          [] Pass("exact") = {} /\ Pass("parametric") # {}  -> First(Pass("parametric"))
          [] OTHER                                          -> First(Pass("wildcard"))

----------------------------------------------------------------------------
(* RoutedModule, by ApostolModule::execute().                              *)

\* The methods init_methods() registers a handler for.
Registered == {"GET", "HEAD", "POST", "PUT", "PATCH", "DELETE"}

\* normalize(): only what trails is cut off.
Normal(path) == SubSeq(path, 1, Max({1} \cup Kept(path)))

IsDocs(path) == Normal(path) \in {<<"docs">>, <<"docs", "api.json">>, <<"docs", "api.yaml">>}

Answer(what, route, params) == [what |-> what, route |-> route, params |-> params]
None == Answer("none", 0, <<>>)

Execute(routes, method, path) ==
    IF ~IsDocs(path) /\ ~HasRoute(routes, path) THEN {None}
    ELSE CASE method = "OPTIONS" -> {Answer("options", 0, <<>>)}
           [] method = "GET" /\ IsDocs(path) -> {Answer("docs", 0, <<>>)}
           [] /\ method \in Registered /\ ~(method = "GET" /\ IsDocs(path))
              /\ Chosen(routes, method, path) # {} ->
                  {Answer("route", i, Captured(routes[i].pattern, path)) :
                      i \in Chosen(routes, method, path)}
           [] OTHER -> {Answer("405", 0, <<>>)}

----------------------------------------------------------------------------
RouteInit ==
    \E tables \in Tables, path \in Paths, method \in Methods :
    \E enabled \in [DOMAIN tables -> BOOLEAN] :
        rq = [ tables |-> tables, enabled |-> enabled, path |-> path, method |-> method,
               at |-> 1, answer |-> None ]

\* ModuleManager::execute(): the next module, until one has answered.
NextModule ==
    /\ rq.at \in DOMAIN rq.tables /\ rq.answer = None
    /\ IF rq.enabled[rq.at]
       THEN \E a \in Execute(rq.tables[rq.at], rq.method, rq.path) :
                rq' = [rq EXCEPT !.answer = a, !.at = IF a = None THEN @ + 1 ELSE @]
       ELSE rq' = [rq EXCEPT !.at = @ + 1]

\* The server's request handler, when nobody has answered.
NotFound ==
    /\ rq.at \notin DOMAIN rq.tables /\ rq.answer = None
    /\ rq' = [rq EXCEPT !.answer = Answer("404", 0, <<>>)]

RouteNext == NextModule \/ NotFound

RouteSpec == RouteInit /\ [][RouteNext]_rq

----------------------------------------------------------------------------
(* Properties.                                                             *)

\* What a pattern stands for, said from the other end: the paths it becomes when
\* its parameters are filled in.
Filled(pat, v) == [i \in DOMAIN pat |-> IF pat[i] \in Params THEN v[pat[i]] ELSE pat[i]]

Becomes(pattern, v, segs) ==
    LET f == Filled(Compared(Split(pattern)), v)
    IN  IF Wild(Split(pattern)) THEN IsStrictPrefix(f, segs) ELSE f = segs

StandsFor(pattern, path) ==
    LET segs == Split(path)
    IN  \E v \in [ToSet(Compared(Split(pattern))) \cap Params -> ToSet(segs)] :
            Becomes(pattern, v, segs)

\* Module m has the path; the routes that may answer; the order in which they do.
Has(m) ==
    rq.enabled[m] /\ (IsDocs(rq.path) \/ \E i \in DOMAIN rq.tables[m] :
                        StandsFor(rq.tables[m][i].pattern, rq.path))

Able(routes, method, path) ==
    {i \in DOMAIN routes : routes[i].method = method /\ StandsFor(routes[i].pattern, path)}

Rank(pattern) == CASE Kind(pattern) = "exact"      -> 1
                   [] Kind(pattern) = "parametric" -> 2
                   [] OTHER                        -> 3

Before(routes, i, j) ==
    LET a == Rank(routes[i].pattern)
        b == Rank(routes[j].pattern)
    IN  a < b \/ (a = b /\ i < j)

\* The handler that answers is one of the first module that has the path; its
\* route becomes the path when the parameters it is given are filled in, and no
\* route of the method was passed over that is of a kind before it, or of its kind
\* and registered before ("3-pass priority: exact > parametric > wildcard",
\* route_manager.cpp).  A method is refused only for want of such a route.
RightRouteAnswers ==
    LET routes == rq.tables[rq.at]
        able   == Able(routes, rq.method, rq.path)
        r      == rq.answer.route
    IN  CASE rq.answer = None        -> TRUE
          [] rq.answer.what = "404"  -> \A m \in DOMAIN rq.tables : ~Has(m)
          [] OTHER ->
              /\ Has(rq.at) /\ \A m \in 1 .. rq.at - 1 : ~Has(m)
              /\ rq.answer.what = "route" =>
                    /\ r \in able /\ \A i \in able \ {r} : Before(routes, r, i)
                    /\ Becomes(routes[r].pattern, rq.answer.params, Split(rq.path))
              /\ rq.answer.what = "405" => able = {}

\* The routes a module makes: each of a method it answers, and no parameter named
\* twice in a pattern (openapi_spec() lists them by name).
Proper(routes) ==
    /\ routes \in Seq([method : Registered, pattern : Seq(STRING)])
    /\ \A i \in DOMAIN routes :
          LET cmp == Compared(Split(routes[i].pattern))
          IN  \A k, n \in DOMAIN cmp : cmp[k] = cmp[n] /\ cmp[k] \in Params => k = n
=============================================================================
