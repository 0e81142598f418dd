--------------------------------- MODULE Web ---------------------------------
(***************************************************************************)
(* The web framework (uweb/tux.go, context.go): routes are set, then        *)
(* requests are served, each by its own goroutine with a Context from the   *)
(* pool.  Handlers are the program's: here each does, in any order, all     *)
(* that the Context lets it do.  Handlers run on a stack, since one that    *)
(* calls Next runs the others inside its own call.                          *)
(***************************************************************************)
EXTENDS Tree

CONSTANTS Req,         \* goroutines that serve requests, one after the other
          Ctx,         \* Contexts, in the pool or not made yet
          NoCtx,       \* none of them
          Handlers,    \* length of a handler list: middleware, then the route's
                       \* own or defaultNotFound
          Routes,      \* what can be set
          Paths,       \* what is looked up
          ServedPaths, \* what is requested
          MaxSets,     \* bound on the routes set
          ServedTrees, \* bound on the trees that requests are served from
          MaxNexts     \* bound on the calls of Next by handlers of a request

ASSUME WebAssumption ==
  /\ Handlers \in Nat \ {0}
  /\ NoCtx \notin Ctx
  /\ MaxSets \in Nat /\ MaxNexts \in Nat

EndIndex == -10
OutlineEndIndex == -20
CloseIndex == -30

Mixed == -1   \* the request was ended in two ways, see ended

VARIABLES
  tree,      \* uweb.tree
  table,     \* the routes set and not deleted (history)
  sets,      \* the number of routes set
  serving,   \* requests are being served
  pool,      \* uweb.contextPool
  index, body, status,  \* of each Context; a body is a set of <<request, handler>>
  at,        \* where the goroutine of a request is
  ctx,       \* its Context
  found,     \* it found a route
  stack,     \* the handlers it is in, the innermost first
  nexts,     \* calls of Next by its handlers
  started,   \* handlers started, in order (history)
  wrote,     \* handlers that wrote to the Context since it was last cleaned,
             \* and the status they left (history)
  ended,     \* index of its End, ResponseWriter and Close calls, 0 if there was
             \* none and Mixed if they differ (history)
  crashed,   \* a panic reached Handle (history)
  sent       \* what the client got

treeVars == <<tree, table, sets, serving>>
ctxVars == <<index, body, status>>
histVars == <<started, wrote, ended, crashed>>
vars == <<treeVars, pool, ctxVars, at, ctx, found, stack, nexts, histVars, sent>>

NoReply == [kind |-> "none", status |-> 0, body |-> {}]
Clean == [by |-> {}, status |-> 200]

Init ==
  /\ tree = New
  /\ table = {}
  /\ sets = 0
  /\ serving = FALSE
  /\ pool = Ctx
  /\ index = [c \in Ctx |-> 0]
  /\ body = [c \in Ctx |-> {}]
  /\ status = [c \in Ctx |-> 200]
  /\ at = [r \in Req |-> "new"]
  /\ ctx = [r \in Req |-> NoCtx]
  /\ found = [r \in Req |-> FALSE]
  /\ stack = [r \in Req |-> <<>>]
  /\ nexts = [r \in Req |-> 0]
  /\ started = [r \in Req |-> <<>>]
  /\ wrote = [r \in Req |-> Clean]
  /\ ended = [r \in Req |-> 0]
  /\ crashed = [r \in Req |-> FALSE]
  /\ sent = [r \in Req |-> NoReply]

-----------------------------------------------------------------------------
(* Routes, before anything is served: nothing guards the tree.              *)

\* Setting again what is set changes nothing.
Method(a) ==
  /\ ~ serving
  /\ a \notin table
  /\ sets < MaxSets
  /\ sets' = sets + 1
  /\ tree' = Set(tree, a)
  /\ table' = {b \in table : Shape(b) # Shape(a)} \cup {a}
  /\ UNCHANGED <<serving, pool, ctxVars, at, ctx, found, stack, nexts, histVars, sent>>

DeleteRoute(a) ==
  /\ ~ serving
  /\ a \in table
  /\ tree' = Delete(tree, a)
  /\ table' = table \ {a}
  /\ UNCHANGED <<sets, serving, pool, ctxVars, at, ctx, found, stack, nexts, histVars, sent>>

\* uweb itself deletes nothing.
ServeListener ==
  /\ ~ serving
  /\ sets = Cardinality(table)
  /\ tree \in ServedTrees
  /\ serving' = TRUE
  /\ UNCHANGED <<tree, table, sets, pool, ctxVars, at, ctx, found, stack, nexts, histVars, sent>>

-----------------------------------------------------------------------------
(* ServeHTTP and Handle.  "next" is the loop of Next, "handler" the code of  *)
(* the innermost handler, "panic" the same on its way out.                   *)

\* Any Context of the pool, or a new one, which is like one that was reset.
ServeHTTP(r, path) ==
  /\ serving
  /\ at[r] = "new"
  /\ \E c \in pool :
       /\ pool' = pool \ {c}
       /\ ctx' = [ctx EXCEPT ![r] = c]
  /\ found' = [found EXCEPT ![r] = Get(tree, path) # NoRoute]
  /\ at' = [at EXCEPT ![r] = "next"]
  /\ UNCHANGED <<treeVars, ctxVars, stack, nexts, histVars, sent>>

\* Fault: an ended request goes round in the loop.
NextSpins(r) ==
  LET i == index[ctx[r]] IN
  /\ at[r] = "next"
  /\ i > -1
  /\ IF i < Handlers
     THEN /\ stack' = [stack EXCEPT ![r] = <<i + 1>> \o @]
          /\ started' = [started EXCEPT ![r] = Append(@, i + 1)]
          /\ index' = [index EXCEPT ![ctx[r]] = i + 1]
          /\ at' = [at EXCEPT ![r] = "handler"]
     ELSE /\ at' = [at EXCEPT ![r] = IF stack[r] = <<>> THEN "handled" ELSE "handler"]
          /\ UNCHANGED <<stack, started, index>>
  /\ UNCHANGED <<treeVars, pool, body, status, ctx, found, nexts, wrote, ended, crashed, sent>>

\* One round of the loop, or the return to Handle or to the handler that
\* called Next.
Next1(r) ==
  LET i == index[ctx[r]] IN
  /\ at[r] = "next"
  /\ IF i > -1 /\ i < Handlers
     THEN /\ stack' = [stack EXCEPT ![r] = <<i + 1>> \o @]
          /\ started' = [started EXCEPT ![r] = Append(@, i + 1)]
          /\ index' = [index EXCEPT ![ctx[r]] = i + 1]
          /\ at' = [at EXCEPT ![r] = "handler"]
     ELSE /\ at' = [at EXCEPT ![r] = IF stack[r] = <<>> THEN "handled" ELSE "handler"]
          /\ UNCHANGED <<stack, started, index>>
  /\ UNCHANGED <<treeVars, pool, body, status, ctx, found, nexts, wrote, ended, crashed, sent>>

\* The innermost handler is the program's, not defaultNotFound.
Own(r) == Head(stack[r]) < Handlers \/ found[r]

\* Handler h answers with a status.
Put1(r, h, s) ==
  /\ body' = [body EXCEPT ![ctx[r]] = @ \cup {<<r, h>>}]
  /\ status' = [status EXCEPT ![ctx[r]] = s]
  /\ wrote' = [wrote EXCEPT ![r] = [by |-> @.by \cup {h}, status |-> s]]

\* c.String, c.JSON and their like: once each, with a status that
\* is not the one of a new Context.
Write(r) ==
  LET h == Head(stack[r]) IN
  /\ at[r] = "handler"
  /\ Own(r)
  /\ h \notin wrote[r].by
  /\ Put1(r, h, 400)
  /\ UNCHANGED <<treeVars, pool, index, at, ctx, found, stack, nexts,
                 started, ended, crashed, sent>>

CallNext(r) ==
  /\ at[r] = "handler"
  /\ Own(r)
  /\ nexts[r] < MaxNexts
  /\ nexts' = [nexts EXCEPT ![r] = @ + 1]
  /\ at' = [at EXCEPT ![r] = "next"]
  /\ UNCHANGED <<treeVars, pool, ctxVars, ctx, found, stack, histVars, sent>>

Return(r) ==
  LET h == Head(stack[r]) IN
  /\ at[r] = "handler"
  /\ stack' = [stack EXCEPT ![r] = Tail(@)]
  /\ at' = [at EXCEPT ![r] = "next"]
  /\ IF h = Handlers /\ ~ found[r]
     THEN Put1(r, h, 404)      \* defaultNotFound
     ELSE UNCHANGED <<body, status, wrote>>
  /\ UNCHANGED <<treeVars, pool, index, ctx, found, nexts, started, ended,
                 crashed, sent>>

\* Fault: end panics and leaves the index.
endPanics(r, i) ==
  /\ at[r] = "handler"
  /\ Own(r)
  /\ ended' = [ended EXCEPT ![r] = IF @ \in {0, i} THEN i ELSE Mixed]
  /\ at' = [at EXCEPT ![r] = "panic"]
  /\ UNCHANGED <<treeVars, pool, ctxVars, ctx, found, stack, nexts,
                 started, wrote, crashed, sent>>

\* End, ResponseWriter and Close, which differ in the index.
end(r, i) ==
  /\ at[r] = "handler"
  /\ Own(r)
  /\ index' = [index EXCEPT ![ctx[r]] = i]
  /\ ended' = [ended EXCEPT ![r] = IF @ \in {0, i} THEN i ELSE Mixed]
  /\ at' = [at EXCEPT ![r] = "panic"]
  /\ UNCHANGED <<treeVars, pool, body, status, ctx, found, stack, nexts,
                 started, wrote, crashed, sent>>

HandlerPanics(r) ==
  /\ at[r] = "handler"
  /\ Own(r)
  /\ at' = [at EXCEPT ![r] = "panic"]
  /\ UNCHANGED <<treeVars, pool, ctxVars, ctx, found, stack, nexts, histVars, sent>>

\* A handler that defers a recover of its own returns to Next all the same.
HandlerRecovers(r) ==
  /\ at[r] = "panic"
  /\ stack' = [stack EXCEPT ![r] = Tail(@)]
  /\ at' = [at EXCEPT ![r] = "next"]
  /\ UNCHANGED <<treeVars, pool, ctxVars, ctx, found, nexts, histVars, sent>>

\* The deferred function of Next: after an end every panic stops here; before,
\* it goes on to the handler that called Next, or to Handle, which cleans the
\* Context and answers 500.
NextRecovers(r) ==
  LET c == ctx[r] IN
  /\ at[r] = "panic"
  /\ stack' = [stack EXCEPT ![r] = Tail(@)]
  /\ \/ /\ index[c] <= -1
        /\ at' = [at EXCEPT ![r] = "next"]
        /\ UNCHANGED <<body, status, wrote, crashed>>
     \/ /\ index[c] > -1
        /\ Len(stack[r]) > 1
        /\ UNCHANGED <<at, body, status, wrote, crashed>>
     \/ /\ index[c] > -1
        /\ Len(stack[r]) = 1
        /\ at' = [at EXCEPT ![r] = "handled"]
        /\ crashed' = [crashed EXCEPT ![r] = TRUE]
        /\ body' = [body EXCEPT ![c] = {<<r, 0>>}]
        /\ status' = [status EXCEPT ![c] = 500]
        /\ wrote' = [wrote EXCEPT ![r] = [by |-> {0}, status |-> 500]]
  /\ UNCHANGED <<treeVars, pool, index, ctx, found, nexts, started, ended, sent>>

\* The rest of ServeHTTP.  An "outline" reply is what the function given to
\* ResponseWriter wrote itself.
Answer(r) ==
  LET c == ctx[r] IN
  /\ at[r] = "handled"
  /\ at' = [at EXCEPT ![r] = "reset"]
  /\ sent' = [sent EXCEPT ![r] =
       IF index[c] >= EndIndex
       THEN [kind |-> "reply", status |-> status[c], body |-> body[c]]
       ELSE [NoReply EXCEPT !.kind = IF index[c] <= CloseIndex THEN "aborted"
                                                               ELSE "outline"]]
  /\ UNCHANGED <<treeVars, pool, ctxVars, ctx, found, stack, nexts, histVars>>

\* Fault: the body is left.
resetHalf(r) ==
  /\ at[r] = "reset"
  /\ index' = [index EXCEPT ![ctx[r]] = 0]
  /\ status' = [status EXCEPT ![ctx[r]] = 200]
  /\ at' = [at EXCEPT ![r] = "put"]
  /\ UNCHANGED <<treeVars, pool, body, ctx, found, stack, nexts, histVars, sent>>

\* The deferred function, which runs after a panic of ServeHTTP as well.
reset(r) ==
  LET c == ctx[r] IN
  /\ at[r] = "reset"
  /\ index' = [index EXCEPT ![c] = 0]
  /\ body' = [body EXCEPT ![c] = {}]
  /\ status' = [status EXCEPT ![c] = 200]
  /\ at' = [at EXCEPT ![r] = "put"]
  /\ UNCHANGED <<treeVars, pool, ctx, found, stack, nexts, histVars, sent>>

\* The request is over, and the goroutine is ready for another.
Put(r) ==
  /\ at[r] = "put"
  /\ pool' = pool \cup {ctx[r]}
  /\ at' = [at EXCEPT ![r] = "new"]
  /\ ctx' = [ctx EXCEPT ![r] = NoCtx]
  /\ found' = [found EXCEPT ![r] = FALSE]
  /\ nexts' = [nexts EXCEPT ![r] = 0]
  /\ started' = [started EXCEPT ![r] = <<>>]
  /\ wrote' = [wrote EXCEPT ![r] = Clean]
  /\ ended' = [ended EXCEPT ![r] = 0]
  /\ crashed' = [crashed EXCEPT ![r] = FALSE]
  /\ sent' = [sent EXCEPT ![r] = NoReply]
  /\ UNCHANGED <<treeVars, ctxVars, stack>>

-----------------------------------------------------------------------------
Serve(r) ==
  \/ Next1(r) \/ Write(r) \/ CallNext(r) \/ Return(r) \/ HandlerPanics(r)
  \/ HandlerRecovers(r) \/ NextRecovers(r) \/ Answer(r) \/ reset(r) \/ Put(r)
  \/ \E i \in {EndIndex, OutlineEndIndex, CloseIndex} : end(r, i)

Next ==
  \/ \E a \in Routes : Method(a) \/ DeleteRoute(a)
  \/ ServeListener
  \/ \E r \in Req : Serve(r) \/ \E p \in ServedPaths : ServeHTTP(r, p)

Spec == Init /\ [][Next]_vars

\* The goroutines run.  That handlers come to an end is in the bounds on what
\* they do.
FairSpec == Spec /\ \A r \in Req : WF_vars(Serve(r))

-----------------------------------------------------------------------------
Live == {r \in Req : at[r] # "new"}

TypeOK ==
  /\ \A k \in DOMAIN tree : tree[k] \in Routes \cup {NoRoute}
  /\ table \subseteq Routes
  /\ sets \in 0..MaxSets
  /\ serving \in BOOLEAN
  /\ pool \subseteq Ctx
  /\ index \in [Ctx -> (0..Handlers) \cup {EndIndex, OutlineEndIndex, CloseIndex}]
  /\ body \in [Ctx -> SUBSET (Req \X (0..Handlers))]
  /\ status \in [Ctx -> {200, 400, 404, 500}]
  /\ at \in [Req -> {"new", "next", "handler", "panic", "handled", "reset", "put"}]
  /\ ctx \in [Req -> Ctx \cup {NoCtx}]
  /\ found \in [Req -> BOOLEAN]
  /\ \A r \in Req : at[r] \in {"handler", "panic"} => stack[r] # <<>>
  /\ nexts \in [Req -> 0..MaxNexts]
  /\ ended \in [Req -> {0, EndIndex, OutlineEndIndex, CloseIndex, Mixed}]
  /\ crashed \in [Req -> BOOLEAN]
  /\ \A r \in Req : sent[r].kind \in {"none", "reply", "aborted", "outline"}

\* The handlers of a request start in the order of the list, none twice and
\* none left out, whoever calls Next and whatever panics in between.
InOrder == \A r \in Req : \A n \in DOMAIN started[r] : started[r][n] = n

\* The answers that the ends of a request allow; aborted is the panic that
\* net/http turns into a reset connection.
Kinds(e) == CASE e = CloseIndex      -> {"aborted"}
              [] e = OutlineEndIndex -> {"outline"}
              [] e = Mixed           -> {"aborted", "outline", "reply"}
              [] OTHER               -> {"reply"}

\* The client gets what the handlers of its own request wrote, all of it, with
\* the last status; nothing of it after Close or ResponseWriter; and 500 alone
\* if a panic got past the handlers.  A request that is ended in two ways is
\* left open: the last call decides, so that an End after Close sends an answer,
\* where the comment of Close (context.go:344) says that there is none.
RightAnswer ==
  \A r \in Req : sent[r].kind # "none" =>
    /\ sent[r].kind \in Kinds(ended[r])
    /\ sent[r].kind = "reply" =>
         /\ sent[r].body = {<<r, h>> : h \in wrote[r].by}
         /\ sent[r].status = wrote[r].status
         /\ crashed[r] => sent[r].status = 500
         /\ started[r] # [n \in 1..Handlers |-> n] => ended[r] # 0 \/ crashed[r]

\* A Context serves one request at a time, and one that nobody uses is as new.
ContextsApart ==
  /\ \A r \in Live : ctx[r] \notin pool
  /\ \A r, q \in Live : ctx[r] = ctx[q] => r = q
  /\ \A c \in pool : index[c] = 0 /\ body[c] = {} /\ status[c] = 200

\* A request is served by all of its handlers, in order, with a Context of its
\* own, and answered with what they wrote.
ServesRight == TypeOK /\ InOrder /\ RightAnswer /\ ContextsApart

\* A path leads to the route that stands for it, and Dump lists what was set
\* and not deleted, as long as no place of the tree has a parameter and
\* something else: then the parameter hides the rest.
FindsRoute ==
  ~ serving /\ Unmixed(tree) =>
    /\ Dump(tree) = table
    /\ \A p \in Paths :
         \/ Get(tree, p) \in table /\ Matches(Get(tree, p), p)
         \/ Get(tree, p) = NoRoute /\ \A a \in table : ~ Matches(a, p)

\* The parameters that a handler reads, put in the place of their names, are the
\* path again, but for a slash after the last; names are given once.
ParamsFit ==
  ~ serving => \A p \in Paths :
    LET a == Get(tree, p)
        S == Split(a)
        args == {n \in DOMAIN S : IsParam(S[n]) \/ IsRest(S[n])}
    IN  (a # NoRoute /\ \A m, n \in args : Tail(S[m]) = Tail(S[n]) => m = n) =>
          LET f == Filled(a, Param(a, p)) IN p \in {f, Append(f, slash)}

\* Routing: Set, Delete and Get agree with the routes by segments, and Param
\* with the path.
RoutesRight == FindsRoute /\ ParamsFit

\* Once a handler has ended the request no other starts.
EndStops ==
  [][\A r \in Live : ended[r] # 0 => started'[r] \in {started[r], <<>>}]_vars

\* Every request is answered, and its Context comes back.
Served == \A r \in Req : at[r] = "next" ~> at[r] = "new"
=============================================================================
