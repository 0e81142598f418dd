------------------------------ MODULE WebProofs ------------------------------
(***************************************************************************)
(* Proofs about Web: requests are served right, and an end stops the rest,  *)
(* for any number of requests, Contexts and handlers.  What the tree finds  *)
(* plays no part: it only tells defaultNotFound from a handler.             *)
(***************************************************************************)
EXTENDS Web, SequenceTheorems, TLAPS

Statuses == {200, 400, 404, 500}

\* The types that TypeOK leaves open.
Histories ==
  /\ stack \in [Req -> Seq(1..Handlers)]
  /\ started \in [Req -> Seq(Nat)]
  /\ wrote \in [Req -> [by : SUBSET (0..Handlers), status : Statuses]]
  /\ sent \in [Req -> [kind : {"none", "reply", "aborted", "outline"},
                       status : Statuses \cup {0},
                       body : SUBSET (Req \X (0..Handlers))]]

\* A request has a Context from ServeHTTP to Put, alone, and gives it back as
\* it was when it was new.
Contexts ==
  /\ \A r \in Live : ctx[r] \in Ctx
  /\ ContextsApart
  /\ \A r \in Req : at[r] = "put" =>
       index[ctx[r]] = 0 /\ body[ctx[r]] = {} /\ status[ctx[r]] = 200

\* Nothing is left of the last request, no handler is still running when Handle
\* has returned, and nothing is sent before.
Resting == \A r \in Req :
  /\ at[r] = "new" => /\ started[r] = <<>>
                      /\ wrote[r] = Clean
                      /\ ended[r] = 0
                      /\ ~crashed[r]
  /\ at[r] \in {"new", "handled", "reset", "put"} => stack[r] = <<>>
  /\ at[r] \notin {"reset", "put"} => sent[r].kind = "none"

\* Places at which the Context is the request's and not cleaned yet.
Using == {r \in Req : at[r] \notin {"new", "put"}}

\* The index counts the handlers started until a call ends the request, and is
\* below zero from then on, that of the last such call: the loops of all the nested calls of
\* Next see it, and none starts a handler.
Progress == \A r \in Using :
  IF ended[r] = 0 THEN /\ index[ctx[r]] \in 0..Handlers
                       /\ index[ctx[r]] = Len(started[r])
                  ELSE /\ index[ctx[r]] \in {EndIndex, OutlineEndIndex, CloseIndex}
                       /\ ended[r] \in {index[ctx[r]], Mixed}

\* The Context holds what the handlers of this request wrote.
Content == \A r \in Using :
  /\ body[ctx[r]] = {<<r, h>> : h \in wrote[r].by}
  /\ status[ctx[r]] = wrote[r].status

\* Handle returns when all handlers have started, or one has ended the request,
\* or a panic has reached it, which leaves a 500.
Handled == \A r \in Req :
  /\ at[r] \in {"handled", "reset", "put"} =>
       Len(started[r]) = Handlers \/ ended[r] # 0 \/ crashed[r]
  /\ crashed[r] => /\ at[r] \in {"handled", "reset", "put"}
                   /\ wrote[r].status = 500

IInv == /\ TypeOK /\ Histories /\ Contexts /\ Resting
        /\ InOrder /\ Progress /\ Content /\ Handled /\ RightAnswer

USE WebAssumption DEF Mixed, EndIndex, OutlineEndIndex, CloseIndex, Statuses, Using,
  Live, treeVars, ctxVars, histVars

-----------------------------------------------------------------------------
(* The steps of a request by what they do to its state.                     *)

\* Next starts handler n.
Starts(r, n) ==
  /\ at[r] = "next"
  /\ index[ctx[r]] = n - 1
  /\ \E s \in Seq(1..Handlers) : s # <<>> /\ stack' = [stack EXCEPT ![r] = s]
  /\ started' = [started EXCEPT ![r] = Append(@, n)]
  /\ index' = [index EXCEPT ![ctx[r]] = n]
  /\ at' = [at EXCEPT ![r] = "handler"]
  /\ UNCHANGED <<treeVars, pool, body, status, ctx, found, nexts, wrote, ended,
                 crashed, sent>>

\* Next returns, to Handle or to a handler.
Returns(r) ==
  /\ at[r] = "next"
  /\ index[ctx[r]] \notin 0..(Handlers - 1)
  /\ \/ at' = [at EXCEPT ![r] = "handled"] /\ stack[r] = <<>>
     \/ at' = [at EXCEPT ![r] = "handler"] /\ stack[r] # <<>>
  /\ UNCHANGED <<treeVars, pool, ctxVars, ctx, found, stack, nexts, histVars,
                 sent>>

LEMMA Next1Cases ==
  ASSUME TypeOK, Histories, Contexts, NEW r \in Req, Next1(r)
  PROVE  Returns(r) \/ \E n \in 1..Handlers : Starts(r, n)
<1> DEFINE i == index[ctx[r]]
<1>1. ctx[r] \in Ctx
  BY DEF Next1, Contexts
<1>2. i \in (0..Handlers) \cup {EndIndex, OutlineEndIndex, CloseIndex}
  BY <1>1 DEF TypeOK
<1>3. CASE i > -1 /\ i < Handlers
  <2>1. i + 1 \in 1..Handlers
    BY <1>2, <1>3
  <2>2. stack[r] \in Seq(1..Handlers)
    BY DEF Histories
  <2>3. /\ <<i + 1>> \o stack[r] \in Seq(1..Handlers)
        /\ <<i + 1>> \o stack[r] # <<>>
    BY <2>1, <2>2
  <2>4. /\ stack' = [stack EXCEPT ![r] = <<i + 1>> \o stack[r]]
        /\ started' = [started EXCEPT ![r] = Append(@, i + 1)]
        /\ index' = [index EXCEPT ![ctx[r]] = i + 1]
        /\ at' = [at EXCEPT ![r] = "handler"]
    BY <1>3 DEF Next1
  <2>5. i = (i + 1) - 1
    BY <1>2
  <2>6. Starts(r, i + 1)
    BY <2>3, <2>4, <2>5 DEF Starts, Next1
  <2> QED
    BY <2>1, <2>6
<1>4. CASE ~(i > -1 /\ i < Handlers)
  <2>1. i \notin 0..(Handlers - 1)
    BY <1>2, <1>4
  <2>2. /\ at' = [at EXCEPT ![r] = IF stack[r] = <<>> THEN "handled"
                                                     ELSE "handler"]
        /\ UNCHANGED <<stack, started, index>>
    BY <1>4 DEF Next1
  <2> QED
    BY <2>1, <2>2 DEF Returns, Next1
<1> QED
  BY <1>3, <1>4

LEMMA EmptyTail ==
  ASSUME NEW S, NEW s \in Seq(S), NEW t \in Seq(S), Len(t) = Len(s) - 1
  PROVE  /\ Len(s) = 1 => t = <<>>
         /\ Len(s) > 1 => t # <<>>
<1>1. Len(s) \in Nat
  BY LenProperties
<1>2. t # <<>> => Len(t) # 0
  BY EmptySeq
<1>3. Len(<<>>) = 0
  BY EmptySeq
<1> QED
  BY <1>1, <1>2, <1>3

\* The handlers on the stack are handlers of the list.
LEMMA StackTypes ==
  ASSUME Histories, NEW r \in Req, stack[r] # <<>>
  PROVE  /\ Head(stack[r]) \in 1..Handlers
         /\ Tail(stack[r]) \in Seq(1..Handlers)
         /\ [stack EXCEPT ![r] = Tail(stack[r])] \in [Req -> Seq(1..Handlers)]
         /\ Len(stack[r]) = 1 => Tail(stack[r]) = <<>>
         /\ Len(stack[r]) > 1 => Tail(stack[r]) # <<>>
<1> DEFINE s == stack[r]
<1>1. s \in Seq(1..Handlers)
  BY DEF Histories
<1>2. /\ Head(s) \in 1..Handlers /\ Tail(s) \in Seq(1..Handlers)
      /\ Len(Tail(s)) = Len(s) - 1
  BY <1>1, HeadTailProperties
<1>3. /\ Len(s) = 1 => Tail(s) = <<>>
      /\ Len(s) > 1 => Tail(s) # <<>>
  BY <1>1, <1>2, EmptyTail
<1>4. [stack EXCEPT ![r] = Tail(s)] \in [Req -> Seq(1..Handlers)]
  BY <1>2 DEF Histories
<1> QED
  BY <1>2, <1>3, <1>4

\* The innermost handler is left for the loop of Next, as it returns, recovers
\* or is stopped after an end.
Resumes(r) ==
  /\ at[r] \in {"handler", "panic"}
  /\ \E s \in Seq(1..Handlers) : stack' = [stack EXCEPT ![r] = s]
  /\ at' = [at EXCEPT ![r] = "next"]
  /\ UNCHANGED <<treeVars, pool, ctxVars, ctx, found, nexts, histVars, sent>>

\* A panic goes on to the handler that called Next.
Rises(r) ==
  /\ at[r] = "panic"
  /\ \E s \in Seq(1..Handlers) : s # <<>> /\ stack' = [stack EXCEPT ![r] = s]
  /\ UNCHANGED <<treeVars, pool, ctxVars, at, ctx, found, nexts, histVars, sent>>

\* The Context of r holds what it held and what h has written, the others what
\* they held.
Written(r, h, s) ==
  /\ body' \in [Ctx -> SUBSET (Req \X (0..Handlers))]
  /\ status' \in [Ctx -> Statuses]
  /\ wrote' \in [Req -> [by : SUBSET (0..Handlers), status : Statuses]]
  /\ \A c \in Ctx \ {ctx[r]} : body'[c] = body[c] /\ status'[c] = status[c]
  /\ \A q \in Req \ {r} : wrote'[q] = wrote[q]
  /\ body'[ctx[r]] = body[ctx[r]] \cup {<<r, h>>}
  /\ wrote'[r].by = wrote[r].by \cup {h}
  /\ status'[ctx[r]] = s /\ wrote'[r].status = s

LEMMA Put1Writes ==
  ASSUME TypeOK, Histories, NEW r \in Req, ctx[r] \in Ctx,
         NEW h \in 0..Handlers, NEW s \in Statuses, Put1(r, h, s)
  PROVE  Written(r, h, s)
<1>1. body[ctx[r]] \cup {<<r, h>>} \in SUBSET (Req \X (0..Handlers))
  BY DEF TypeOK
<1>2. [by |-> wrote[r].by \cup {h}, status |-> s]
        \in [by : SUBSET (0..Handlers), status : Statuses]
  BY DEF Histories
<1>3. body' \in [Ctx -> SUBSET (Req \X (0..Handlers))]
  BY <1>1 DEF Put1, TypeOK
<1>4. wrote' \in [Req -> [by : SUBSET (0..Handlers), status : Statuses]]
  BY <1>2 DEF Put1, Histories
<1> QED
  BY <1>3, <1>4 DEF Put1, TypeOK, Histories, Written

\* A handler of the program writes.
Writes(r, h) ==
  /\ at[r] = "handler"
  /\ Written(r, h, 400)
  /\ UNCHANGED <<treeVars, pool, index, at, ctx, found, stack, nexts, started,
                 ended, crashed, sent>>

\* defaultNotFound writes and returns.
NotFound(r) ==
  /\ at[r] = "handler"
  /\ \E s \in Seq(1..Handlers) : stack' = [stack EXCEPT ![r] = s]
  /\ at' = [at EXCEPT ![r] = "next"]
  /\ Written(r, Handlers, 404)
  /\ UNCHANGED <<treeVars, pool, index, ctx, found, nexts, started, ended,
                 crashed, sent>>

\* A panic reaches Handle.
Reaches(r) ==
  /\ at[r] = "panic"
  /\ stack' = [stack EXCEPT ![r] = <<>>]
  /\ at' = [at EXCEPT ![r] = "handled"]
  /\ crashed' = [crashed EXCEPT ![r] = TRUE]
  /\ body' = [body EXCEPT ![ctx[r]] = {<<r, 0>>}]
  /\ status' = [status EXCEPT ![ctx[r]] = 500]
  /\ wrote' = [wrote EXCEPT ![r] = [by |-> {0}, status |-> 500]]
  /\ UNCHANGED <<treeVars, pool, index, ctx, found, nexts, started, ended, sent>>

LEMMA HandlerCases ==
  ASSUME TypeOK, Histories, Contexts, NEW r \in Req
  PROVE  /\ Write(r) => \E h \in 1..Handlers : Writes(r, h)
         /\ Return(r) => Resumes(r) \/ NotFound(r)
         /\ HandlerRecovers(r) => Resumes(r)
         /\ NextRecovers(r) => Resumes(r) \/ Rises(r) \/ Reaches(r)
<1> SUFFICES ASSUME at[r] \in {"handler", "panic"}
             PROVE  /\ Write(r) => \E h \in 1..Handlers : Writes(r, h)
                    /\ Return(r) => Resumes(r) \/ NotFound(r)
                    /\ HandlerRecovers(r) => Resumes(r)
                    /\ NextRecovers(r) => Resumes(r) \/ Rises(r) \/ Reaches(r)
  BY DEF Write, Return, HandlerRecovers, NextRecovers
<1> DEFINE h == Head(stack[r])
           s == Tail(stack[r])
<1>1. ctx[r] \in Ctx /\ stack[r] # <<>>
  BY DEF Contexts, TypeOK
<1>2. /\ h \in 1..Handlers /\ s \in Seq(1..Handlers)
      /\ Len(stack[r]) = 1 => s = <<>>
      /\ Len(stack[r]) > 1 => s # <<>>
  BY <1>1, StackTypes
<1>3. ASSUME Write(r) PROVE Writes(r, h)
  <2>1. Put1(r, h, 400)
    BY <1>3 DEF Write
  <2>2. Written(r, h, 400)
    BY <1>1, <1>2, <2>1, Put1Writes
  <2> QED
    BY <1>3, <2>2 DEF Write, Writes
<1>4. ASSUME Return(r) PROVE Resumes(r) \/ NotFound(r)
  <2>1. CASE h = Handlers /\ ~found[r]
    <3>1. Put1(r, Handlers, 404)
      BY <1>4, <2>1 DEF Return
    <3>2. Written(r, Handlers, 404)
      BY <1>1, <3>1, Put1Writes
    <3> QED
      BY <1>2, <1>4, <3>2 DEF Return, NotFound
  <2>2. CASE ~(h = Handlers /\ ~found[r])
    BY <1>2, <1>4, <2>2 DEF Return, Resumes
  <2> QED
    BY <2>1, <2>2
<1>5. ASSUME HandlerRecovers(r) PROVE Resumes(r)
  BY <1>2, <1>5 DEF HandlerRecovers, Resumes
<1>6. ASSUME NextRecovers(r) PROVE Resumes(r) \/ Rises(r) \/ Reaches(r)
  <2>1. /\ at[r] = "panic" /\ stack' = [stack EXCEPT ![r] = s]
        /\ UNCHANGED <<treeVars, pool, index, ctx, found, nexts, started, ended,
                       sent>>
    BY <1>6 DEF NextRecovers
  <2> HIDE DEF s
  <2>2. CASE /\ at' = [at EXCEPT ![r] = "next"]
             /\ UNCHANGED <<body, status, wrote, crashed>>
    BY <1>2, <2>1, <2>2 DEF Resumes
  <2>3. CASE Len(stack[r]) > 1 /\ UNCHANGED <<at, body, status, wrote, crashed>>
    BY <1>2, <2>1, <2>3 DEF Rises
  <2>4. CASE /\ Len(stack[r]) = 1
             /\ at' = [at EXCEPT ![r] = "handled"]
             /\ crashed' = [crashed EXCEPT ![r] = TRUE]
             /\ body' = [body EXCEPT ![ctx[r]] = {<<r, 0>>}]
             /\ status' = [status EXCEPT ![ctx[r]] = 500]
             /\ wrote' = [wrote EXCEPT ![r] = [by |-> {0}, status |-> 500]]
    BY <1>2, <2>1, <2>4 DEF Reaches
  <2> QED
    BY <1>6, <2>2, <2>3, <2>4 DEF NextRecovers
<1> QED
  BY <1>2, <1>3, <1>4, <1>5, <1>6

-----------------------------------------------------------------------------
(* The invariant is inductive.                                              *)

LEMMA InitInv == Init => IInv
<1> SUFFICES ASSUME Init PROVE IInv
  OBVIOUS
<1> USE DEF Init
<1>1. TypeOK
  <2>1. /\ serving \in BOOLEAN
        /\ found \in [Req -> BOOLEAN] /\ crashed \in [Req -> BOOLEAN]
    OBVIOUS
  <2>2. \A k \in DOMAIN tree : tree[k] \in Routes \cup {NoRoute}
    BY DEF New
  <2>3. 0 \in 0..MaxSets /\ 0 \in 0..MaxNexts /\ 0 \in 0..Handlers
    OBVIOUS
  <2> QED
    BY <2>1, <2>2, <2>3 DEF TypeOK, NoReply
<1>2. Histories
  BY DEF Histories, Clean, NoReply
<1>3. Contexts /\ Resting /\ Progress /\ Content
  BY DEF Contexts, ContextsApart, Resting, Progress, Content, NoReply
<1>4. InOrder /\ Handled /\ RightAnswer
  BY DEF InOrder, Handled, RightAnswer, NoReply
<1> QED
  BY <1>1, <1>2, <1>3, <1>4 DEF IInv

\* RightAnswer for one request.
Answered(r) == sent[r].kind # "none" =>
  /\ sent[r].kind \in Kinds(ended[r])
  /\ sent[r].kind = "reply" =>
       /\ sent[r].body = {<<r, h>> : h \in wrote[r].by}
       /\ sent[r].status = wrote[r].status
       /\ crashed[r] => sent[r].status = 500
       /\ started[r] # [n \in 1..Handlers |-> n] => ended[r] # 0 \/ crashed[r]

\* A handler starts after those before it, and only before an end.
LEMMA StartedSoFar ==
  ASSUME TypeOK, Progress, NEW r \in Req, NEW n \in 1..Handlers, Starts(r, n)
  PROVE  ended[r] = 0 /\ Len(started[r]) = n - 1
<1>1. r \in Using /\ index[ctx[r]] = n - 1
  BY DEF Starts
<1>2. ended[r] = 0
  BY <1>1 DEF Progress
<1> QED
  BY <1>1, <1>2 DEF Progress

LEMMA NextTypes ==
  TypeOK /\ Histories /\ Contexts /\ [Next]_vars
  => TypeOK'
<1> SUFFICES ASSUME TypeOK, Histories, Contexts,
                    [Next]_vars
             PROVE  TypeOK'
  OBVIOUS
<1>1. ASSUME NEW a \in Routes, Method(a) PROVE TypeOK'
  BY <1>1 DEF Method, Set, TypeOK
<1>2. ASSUME NEW a \in Routes, DeleteRoute(a) PROVE TypeOK'
  BY <1>2 DEF DeleteRoute, Delete, TypeOK
<1>3. CASE ServeListener
  BY <1>3 DEF ServeListener, TypeOK
<1>4. ASSUME NEW r \in Req, NEW p \in ServedPaths, ServeHTTP(r, p)
      PROVE  TypeOK'
  BY <1>4 DEF ServeHTTP, TypeOK
<1>5. ASSUME NEW r \in Req, NEW n \in 1..Handlers, Starts(r, n)
      PROVE  TypeOK'
  <2>1. PICK s \in Seq(1..Handlers) : s # <<>> /\ stack' = [stack EXCEPT ![r] = s]
    BY <1>5 DEF Starts
  <2>2. \A q \in Req : at'[q] \in {"handler", "panic"} => stack'[q] # <<>>
    BY <1>5, <2>1 DEF Starts, TypeOK, Histories
  <2>3. n \in 0..Handlers
    OBVIOUS
  <2>4. index' \in [Ctx -> (0..Handlers) \cup {EndIndex, OutlineEndIndex, CloseIndex}]
    BY <1>5, <2>3 DEF Starts, TypeOK
  <2> QED
    BY <1>5, <2>2, <2>4 DEF Starts, TypeOK
<1>6. ASSUME NEW r \in Req, Returns(r) PROVE TypeOK'
  <2>1. PICK w \in {"handled", "handler"} : /\ at' = [at EXCEPT ![r] = w]
                                            /\ w = "handler" => stack[r] # <<>>
    BY <1>6 DEF Returns
  <2>2. \A q \in Req : at'[q] \in {"handler", "panic"} => stack'[q] # <<>>
    BY <1>6, <2>1 DEF Returns, TypeOK
  <2> QED
    BY <1>6, <2>1, <2>2 DEF Returns, TypeOK
<1>7. ASSUME NEW r \in Req, NEW h \in 1..Handlers, Writes(r, h)
      PROVE  TypeOK'
  BY <1>7 DEF Writes, Written, TypeOK
<1>8. ASSUME NEW r \in Req, CallNext(r) PROVE TypeOK'
  BY <1>8 DEF CallNext, TypeOK
<1>9. ASSUME NEW r \in Req, Resumes(r) PROVE TypeOK'
  BY <1>9 DEF Resumes, TypeOK
<1>10. ASSUME NEW r \in Req, NotFound(r) PROVE TypeOK'
  BY <1>10 DEF NotFound, Written, TypeOK
<1>11. ASSUME NEW r \in Req,
             NEW i \in {EndIndex, OutlineEndIndex, CloseIndex}, end(r, i)
       PROVE  TypeOK'
  BY <1>11 DEF end, TypeOK, Contexts
<1>12. ASSUME NEW r \in Req, HandlerPanics(r) PROVE TypeOK'
  BY <1>12 DEF HandlerPanics, TypeOK
<1>13. ASSUME NEW r \in Req, Rises(r) PROVE TypeOK'
  BY <1>13 DEF Rises, TypeOK
<1>14. ASSUME NEW r \in Req, Reaches(r) PROVE TypeOK'
  BY <1>14 DEF Reaches, TypeOK, Contexts
<1>15. ASSUME NEW r \in Req, Answer(r) PROVE TypeOK'
  BY <1>15 DEF Answer, NoReply, TypeOK
<1>16. ASSUME NEW r \in Req, reset(r) PROVE TypeOK'
  BY <1>16 DEF reset, TypeOK, Contexts
<1>17. ASSUME NEW r \in Req, Put(r) PROVE TypeOK'
  BY <1>17 DEF Put, Clean, NoReply, TypeOK, Contexts
<1>18. CASE UNCHANGED vars
  BY <1>18 DEF vars, TypeOK
<1> QED
  BY <1>1, <1>2, <1>3, <1>4, <1>5, <1>6, <1>7, <1>8, <1>9,
     <1>10, <1>11, <1>12, <1>13, <1>14, <1>15, <1>16, <1>17, <1>18,
     Next1Cases, HandlerCases DEF Next, Serve

LEMMA NextHistories ==
  TypeOK /\ Histories /\ Contexts /\ Resting /\ [Next]_vars
  => Histories'
<1> SUFFICES ASSUME TypeOK, Histories, Contexts, Resting,
                    [Next]_vars
             PROVE  Histories'
  OBVIOUS
<1>1. ASSUME NEW a \in Routes, Method(a) PROVE Histories'
  BY <1>1 DEF Method, Histories
<1>2. ASSUME NEW a \in Routes, DeleteRoute(a) PROVE Histories'
  BY <1>2 DEF DeleteRoute, Histories
<1>3. CASE ServeListener
  BY <1>3 DEF ServeListener, Histories
<1>4. ASSUME NEW r \in Req, NEW p \in ServedPaths, ServeHTTP(r, p)
      PROVE  Histories'
  BY <1>4 DEF ServeHTTP, Histories
<1>5. ASSUME NEW r \in Req, NEW n \in 1..Handlers, Starts(r, n)
      PROVE  Histories'
  BY <1>5 DEF Starts, Histories
<1>6. ASSUME NEW r \in Req, Returns(r) PROVE Histories'
  BY <1>6 DEF Returns, Histories
<1>7. ASSUME NEW r \in Req, NEW h \in 1..Handlers, Writes(r, h)
      PROVE  Histories'
  BY <1>7 DEF Writes, Written, Histories
<1>8. ASSUME NEW r \in Req, CallNext(r) PROVE Histories'
  BY <1>8 DEF CallNext, Histories
<1>9. ASSUME NEW r \in Req, Resumes(r) PROVE Histories'
  BY <1>9 DEF Resumes, Histories
<1>10. ASSUME NEW r \in Req, NotFound(r) PROVE Histories'
  BY <1>10 DEF NotFound, Written, TypeOK, Histories
<1>11. ASSUME NEW r \in Req,
             NEW i \in {EndIndex, OutlineEndIndex, CloseIndex}, end(r, i)
       PROVE  Histories'
  BY <1>11 DEF end, Histories
<1>12. ASSUME NEW r \in Req, HandlerPanics(r) PROVE Histories'
  BY <1>12 DEF HandlerPanics, Histories
<1>13. ASSUME NEW r \in Req, Rises(r) PROVE Histories'
  BY <1>13 DEF Rises, Histories
<1>14. ASSUME NEW r \in Req, Reaches(r) PROVE Histories'
  BY <1>14 DEF Reaches, Histories
<1>15. ASSUME NEW r \in Req, Answer(r) PROVE Histories'
  <2>1. ctx[r] \in Ctx
    BY <1>15 DEF Answer, Contexts
  <2>2. /\ body[ctx[r]] \in SUBSET (Req \X (0..Handlers))
        /\ status[ctx[r]] \in Statuses
    BY <2>1 DEF TypeOK
  <2> DEFINE Reply == [kind : {"none", "reply", "aborted", "outline"},
                       status : Statuses \cup {0},
                       body : SUBSET (Req \X (0..Handlers))]
             reply == [kind |-> "reply", status |-> status[ctx[r]],
                       body |-> body[ctx[r]]]
  <2>3. /\ reply \in Reply
        /\ \A k \in {"aborted", "outline"} : [NoReply EXCEPT !.kind = k] \in Reply
    BY <2>2 DEF NoReply
  <2>4. \/ sent' = [sent EXCEPT ![r] = reply]
        \/ \E k \in {"aborted", "outline"} :
             sent' = [sent EXCEPT ![r] = [NoReply EXCEPT !.kind = k]]
    BY <1>15 DEF Answer
  <2>5. sent \in [Req -> Reply]
    BY DEF Histories
  <2> HIDE DEF Reply, reply
  <2>6. sent' \in [Req -> Reply]
    BY <2>3, <2>4, <2>5
  <2>7. UNCHANGED <<stack, started, wrote>>
    BY <1>15 DEF Answer
  <2> QED
    BY <2>6, <2>7 DEF Reply, Histories
<1>16. ASSUME NEW r \in Req, reset(r) PROVE Histories'
  BY <1>16 DEF reset, Histories
<1>17. ASSUME NEW r \in Req, Put(r) PROVE Histories'
  BY <1>17 DEF Put, Clean, NoReply, Histories
<1>18. CASE UNCHANGED vars
  BY <1>18 DEF vars, Histories
<1> QED
  BY <1>1, <1>2, <1>3, <1>4, <1>5, <1>6, <1>7, <1>8, <1>9,
     <1>10, <1>11, <1>12, <1>13, <1>14, <1>15, <1>16, <1>17, <1>18,
     Next1Cases, HandlerCases DEF Next, Serve

LEMMA NextContexts ==
  TypeOK /\ Histories /\ Contexts /\ [Next]_vars
  => Contexts'
<1> SUFFICES ASSUME TypeOK, Histories, Contexts,
                    [Next]_vars
             PROVE  Contexts'
  OBVIOUS
<1>1. ASSUME NEW a \in Routes, Method(a) PROVE Contexts'
  BY <1>1 DEF Method, Contexts, ContextsApart
<1>2. ASSUME NEW a \in Routes, DeleteRoute(a) PROVE Contexts'
  BY <1>2 DEF DeleteRoute, Contexts, ContextsApart
<1>3. CASE ServeListener
  BY <1>3 DEF ServeListener, Contexts, ContextsApart
<1>4. ASSUME NEW r \in Req, NEW p \in ServedPaths, ServeHTTP(r, p)
      PROVE  Contexts'
  BY <1>4 DEF ServeHTTP, TypeOK, Contexts, ContextsApart
<1>5. ASSUME NEW r \in Req, NEW n \in 1..Handlers, Starts(r, n)
      PROVE  Contexts'
  BY <1>5 DEF Starts, TypeOK, Contexts, ContextsApart
<1>6. ASSUME NEW r \in Req, Returns(r) PROVE Contexts'
  <2>1. Live' = Live /\ \A q \in Req : at'[q] = "put" => at[q] = "put"
    BY <1>6 DEF Returns, TypeOK
  <2> QED
    BY <1>6, <2>1 DEF Returns, Contexts, ContextsApart
<1>7. ASSUME NEW r \in Req, NEW h \in 1..Handlers, Writes(r, h)
      PROVE  Contexts'
  <2>1. r \in Live /\ ctx[r] \in Ctx /\ ctx[r] \notin pool /\ pool \subseteq Ctx
    BY <1>7 DEF Writes, Contexts, ContextsApart, TypeOK
  <2>2. \A c \in pool : body'[c] = body[c] /\ status'[c] = status[c]
    BY <1>7, <2>1 DEF Writes, Written
  <2>3. \A q \in Req : at[q] = "put" => q \in Live /\ ctx[q] \in Ctx \ {ctx[r]}
    BY <1>7, <2>1 DEF Writes, Contexts, ContextsApart
  <2>4. \A q \in Req : at[q] = "put" =>
          body'[ctx[q]] = body[ctx[q]] /\ status'[ctx[q]] = status[ctx[q]]
    BY <1>7, <2>3 DEF Writes, Written
  <2>5. Live' = Live /\ \A q \in Req : at'[q] = "put" => at[q] = "put"
    BY <1>7 DEF Writes, TypeOK
  <2>6. UNCHANGED <<pool, ctx, index>>
    BY <1>7 DEF Writes
  <2> QED
    BY <2>2, <2>4, <2>5, <2>6 DEF Contexts, ContextsApart
<1>8. ASSUME NEW r \in Req, CallNext(r) PROVE Contexts'
  BY <1>8 DEF CallNext, Contexts, ContextsApart
<1>9. ASSUME NEW r \in Req, Resumes(r) PROVE Contexts'
  BY <1>9 DEF Resumes, TypeOK, Contexts, ContextsApart
<1>10. ASSUME NEW r \in Req, NotFound(r) PROVE Contexts'
  <2>1. r \in Live /\ ctx[r] \in Ctx /\ ctx[r] \notin pool /\ pool \subseteq Ctx
    BY <1>10 DEF NotFound, Contexts, ContextsApart, TypeOK
  <2>2. \A c \in pool : body'[c] = body[c] /\ status'[c] = status[c]
    BY <1>10, <2>1 DEF NotFound, Written
  <2>3. \A q \in Req : at[q] = "put" => q \in Live /\ ctx[q] \in Ctx \ {ctx[r]}
    BY <1>10, <2>1 DEF NotFound, Contexts, ContextsApart
  <2>4. \A q \in Req : at[q] = "put" =>
          body'[ctx[q]] = body[ctx[q]] /\ status'[ctx[q]] = status[ctx[q]]
    BY <1>10, <2>3 DEF NotFound, Written
  <2>5. Live' = Live /\ \A q \in Req : at'[q] = "put" => at[q] = "put"
    BY <1>10 DEF NotFound, TypeOK
  <2>6. UNCHANGED <<pool, ctx, index>>
    BY <1>10 DEF NotFound
  <2> QED
    BY <2>2, <2>4, <2>5, <2>6 DEF Contexts, ContextsApart
<1>11. ASSUME NEW r \in Req,
             NEW i \in {EndIndex, OutlineEndIndex, CloseIndex}, end(r, i)
       PROVE  Contexts'
  BY <1>11 DEF end, Contexts, ContextsApart
<1>12. ASSUME NEW r \in Req, HandlerPanics(r) PROVE Contexts'
  BY <1>12 DEF HandlerPanics, Contexts, ContextsApart
<1>13. ASSUME NEW r \in Req, Rises(r) PROVE Contexts'
  BY <1>13 DEF Rises, Contexts, ContextsApart
<1>14. ASSUME NEW r \in Req, Reaches(r) PROVE Contexts'
  BY <1>14 DEF Reaches, TypeOK, Contexts, ContextsApart
<1>15. ASSUME NEW r \in Req, Answer(r) PROVE Contexts'
  BY <1>15 DEF Answer, NoReply, Contexts, ContextsApart
<1>16. ASSUME NEW r \in Req, reset(r) PROVE Contexts'
  BY <1>16 DEF reset, TypeOK, Contexts, ContextsApart
<1>17. ASSUME NEW r \in Req, Put(r) PROVE Contexts'
  BY <1>17 DEF Put, Clean, NoReply, TypeOK, Contexts, ContextsApart
<1>18. CASE UNCHANGED vars
  BY <1>18 DEF vars, Contexts, ContextsApart
<1> QED
  BY <1>1, <1>2, <1>3, <1>4, <1>5, <1>6, <1>7, <1>8, <1>9,
     <1>10, <1>11, <1>12, <1>13, <1>14, <1>15, <1>16, <1>17, <1>18,
     Next1Cases, HandlerCases DEF Next, Serve

LEMMA NextResting ==
  TypeOK /\ Histories /\ Contexts /\ Resting /\ [Next]_vars
  => Resting'
<1> SUFFICES ASSUME TypeOK, Histories, Contexts, Resting,
                    [Next]_vars
             PROVE  Resting'
  OBVIOUS
<1>1. ASSUME NEW a \in Routes, Method(a) PROVE Resting'
  BY <1>1 DEF Method, Resting
<1>2. ASSUME NEW a \in Routes, DeleteRoute(a) PROVE Resting'
  BY <1>2 DEF DeleteRoute, Resting
<1>3. CASE ServeListener
  BY <1>3 DEF ServeListener, Resting
<1>4. ASSUME NEW r \in Req, NEW p \in ServedPaths, ServeHTTP(r, p)
      PROVE  Resting'
  BY <1>4 DEF ServeHTTP, Resting
<1>5. ASSUME NEW r \in Req, NEW n \in 1..Handlers, Starts(r, n)
      PROVE  Resting'
  BY <1>5 DEF Starts, Resting
<1>6. ASSUME NEW r \in Req, Returns(r) PROVE Resting'
  BY <1>6 DEF Returns, TypeOK, Resting
<1>7. ASSUME NEW r \in Req, NEW h \in 1..Handlers, Writes(r, h)
      PROVE  Resting'
  BY <1>7 DEF Writes, Written, Resting
<1>8. ASSUME NEW r \in Req, CallNext(r) PROVE Resting'
  BY <1>8 DEF CallNext, Resting
<1>9. ASSUME NEW r \in Req, Resumes(r) PROVE Resting'
  BY <1>9 DEF Resumes, Resting
<1>10. ASSUME NEW r \in Req, NotFound(r) PROVE Resting'
  BY <1>10 DEF NotFound, Written, Resting
<1>11. ASSUME NEW r \in Req,
             NEW i \in {EndIndex, OutlineEndIndex, CloseIndex}, end(r, i)
       PROVE  Resting'
  BY <1>11 DEF end, Resting
<1>12. ASSUME NEW r \in Req, HandlerPanics(r) PROVE Resting'
  BY <1>12 DEF HandlerPanics, Resting
<1>13. ASSUME NEW r \in Req, Rises(r) PROVE Resting'
  BY <1>13 DEF Rises, Resting
<1>14. ASSUME NEW r \in Req, Reaches(r) PROVE Resting'
  BY <1>14 DEF Reaches, Histories, Resting
<1>15. ASSUME NEW r \in Req, Answer(r) PROVE Resting'
  BY <1>15 DEF Answer, NoReply, TypeOK, Resting
<1>16. ASSUME NEW r \in Req, reset(r) PROVE Resting'
  BY <1>16 DEF reset, Resting
<1>17. ASSUME NEW r \in Req, Put(r) PROVE Resting'
  BY <1>17 DEF Put, Clean, NoReply, TypeOK, Histories, Resting
<1>18. CASE UNCHANGED vars
  BY <1>18 DEF vars, Resting
<1> QED
  BY <1>1, <1>2, <1>3, <1>4, <1>5, <1>6, <1>7, <1>8, <1>9,
     <1>10, <1>11, <1>12, <1>13, <1>14, <1>15, <1>16, <1>17, <1>18,
     Next1Cases, HandlerCases DEF Next, Serve

LEMMA NextProgress ==
  TypeOK /\ Histories /\ Contexts /\ Resting /\ Progress /\ [Next]_vars
  => Progress'
<1> SUFFICES ASSUME TypeOK, Histories, Contexts, Resting, Progress,
                    [Next]_vars
             PROVE  Progress'
  OBVIOUS
<1>1. ASSUME NEW a \in Routes, Method(a) PROVE Progress'
  BY <1>1 DEF Method, Progress
<1>2. ASSUME NEW a \in Routes, DeleteRoute(a) PROVE Progress'
  BY <1>2 DEF DeleteRoute, Progress
<1>3. CASE ServeListener
  BY <1>3 DEF ServeListener, Progress
<1>4. ASSUME NEW r \in Req, NEW p \in ServedPaths, ServeHTTP(r, p)
      PROVE  Progress'
  BY <1>4 DEF ServeHTTP, TypeOK, Contexts, ContextsApart, Resting, Progress
<1>5. ASSUME NEW r \in Req, NEW n \in 1..Handlers, Starts(r, n)
      PROVE  Progress'
  <2>1. r \in Using /\ ctx[r] \in Ctx
    BY <1>5 DEF Starts, Contexts
  <2>2. ended[r] = 0 /\ Len(started[r]) = n - 1
    BY <1>5, StartedSoFar
  <2>3. /\ started[r] \in Seq(Nat)
        /\ started'[r] = Append(started[r], n)
        /\ \A q \in Req \ {r} : started'[q] = started[q]
    BY <1>5 DEF Starts, Histories
  <2>4. Len(started'[r]) = n
    BY <2>2, <2>3
  <2>5. index'[ctx[r]] = n
    BY <1>5, <2>1 DEF Starts, TypeOK
  <2>6. \A q \in Using' \ {r} : q \in Using /\ ctx[q] \in Ctx \ {ctx[r]}
    BY <1>5, <2>1 DEF Starts, Contexts, ContextsApart, TypeOK
  <2>7. \A q \in Using' \ {r} : index'[ctx[q]] = index[ctx[q]]
    BY <1>5, <2>6 DEF Starts, TypeOK
  <2> QED
    BY <1>5, <2>2, <2>3, <2>4, <2>5, <2>6, <2>7 DEF Starts, Progress
<1>6. ASSUME NEW r \in Req, Returns(r) PROVE Progress'
  <2>1. \A q \in Using' : q \in Using
    BY <1>6 DEF Returns, TypeOK
  <2>2. UNCHANGED <<ended, index, ctx, started>>
    BY <1>6 DEF Returns, ctxVars, histVars
  <2> QED
    BY <2>1, <2>2 DEF Progress
<1>7. ASSUME NEW r \in Req, NEW h \in 1..Handlers, Writes(r, h)
      PROVE  Progress'
  BY <1>7 DEF Writes, Written, Progress
<1>8. ASSUME NEW r \in Req, CallNext(r) PROVE Progress'
  BY <1>8 DEF CallNext, Progress
<1>9. ASSUME NEW r \in Req, Resumes(r) PROVE Progress'
  BY <1>9 DEF Resumes, Progress
<1>10. ASSUME NEW r \in Req, NotFound(r) PROVE Progress'
  BY <1>10 DEF NotFound, Written, Progress
<1>11. ASSUME NEW r \in Req,
             NEW i \in {EndIndex, OutlineEndIndex, CloseIndex}, end(r, i)
       PROVE  Progress'
  BY <1>11 DEF end, TypeOK, Contexts, ContextsApart, Progress
<1>12. ASSUME NEW r \in Req, HandlerPanics(r) PROVE Progress'
  BY <1>12 DEF HandlerPanics, Progress
<1>13. ASSUME NEW r \in Req, Rises(r) PROVE Progress'
  BY <1>13 DEF Rises, Progress
<1>14. ASSUME NEW r \in Req, Reaches(r) PROVE Progress'
  BY <1>14 DEF Reaches, Progress
<1>15. ASSUME NEW r \in Req, Answer(r) PROVE Progress'
  BY <1>15 DEF Answer, NoReply, Progress
<1>16. ASSUME NEW r \in Req, reset(r) PROVE Progress'
  BY <1>16 DEF reset, TypeOK, Contexts, ContextsApart, Progress
<1>17. ASSUME NEW r \in Req, Put(r) PROVE Progress'
  BY <1>17 DEF Put, Clean, NoReply, Progress
<1>18. CASE UNCHANGED vars
  BY <1>18 DEF vars, Progress
<1> QED
  BY <1>1, <1>2, <1>3, <1>4, <1>5, <1>6, <1>7, <1>8, <1>9,
     <1>10, <1>11, <1>12, <1>13, <1>14, <1>15, <1>16, <1>17, <1>18,
     Next1Cases, HandlerCases DEF Next, Serve

LEMMA NextInOrder ==
  TypeOK /\ Histories /\ Contexts /\ Progress /\ InOrder /\ [Next]_vars
  => InOrder'
<1> SUFFICES ASSUME TypeOK, Histories, Contexts, Progress, InOrder,
                    [Next]_vars
             PROVE  InOrder'
  OBVIOUS
<1>1. ASSUME NEW a \in Routes, Method(a) PROVE InOrder'
  BY <1>1 DEF Method, InOrder
<1>2. ASSUME NEW a \in Routes, DeleteRoute(a) PROVE InOrder'
  BY <1>2 DEF DeleteRoute, InOrder
<1>3. CASE ServeListener
  BY <1>3 DEF ServeListener, InOrder
<1>4. ASSUME NEW r \in Req, NEW p \in ServedPaths, ServeHTTP(r, p)
      PROVE  InOrder'
  BY <1>4 DEF ServeHTTP, InOrder
<1>5. ASSUME NEW r \in Req, NEW n \in 1..Handlers, Starts(r, n)
      PROVE  InOrder'
  <2>1. ended[r] = 0 /\ Len(started[r]) = n - 1
    BY <1>5, StartedSoFar
  <2>2. /\ started[r] \in Seq(Nat)
        /\ started'[r] = Append(started[r], n)
        /\ \A q \in Req \ {r} : started'[q] = started[q]
    BY <1>5 DEF Starts, Histories
  <2>3. \A m \in DOMAIN started'[r] : started'[r][m] = m
    BY <2>1, <2>2 DEF InOrder
  <2> QED
    BY <2>2, <2>3 DEF InOrder
<1>6. ASSUME NEW r \in Req, Returns(r) PROVE InOrder'
  BY <1>6 DEF Returns, InOrder
<1>7. ASSUME NEW r \in Req, NEW h \in 1..Handlers, Writes(r, h)
      PROVE  InOrder'
  BY <1>7 DEF Writes, Written, InOrder
<1>8. ASSUME NEW r \in Req, CallNext(r) PROVE InOrder'
  BY <1>8 DEF CallNext, InOrder
<1>9. ASSUME NEW r \in Req, Resumes(r) PROVE InOrder'
  BY <1>9 DEF Resumes, InOrder
<1>10. ASSUME NEW r \in Req, NotFound(r) PROVE InOrder'
  BY <1>10 DEF NotFound, Written, InOrder
<1>11. ASSUME NEW r \in Req,
             NEW i \in {EndIndex, OutlineEndIndex, CloseIndex}, end(r, i)
       PROVE  InOrder'
  BY <1>11 DEF end, InOrder
<1>12. ASSUME NEW r \in Req, HandlerPanics(r) PROVE InOrder'
  BY <1>12 DEF HandlerPanics, InOrder
<1>13. ASSUME NEW r \in Req, Rises(r) PROVE InOrder'
  BY <1>13 DEF Rises, InOrder
<1>14. ASSUME NEW r \in Req, Reaches(r) PROVE InOrder'
  BY <1>14 DEF Reaches, InOrder
<1>15. ASSUME NEW r \in Req, Answer(r) PROVE InOrder'
  BY <1>15 DEF Answer, NoReply, InOrder
<1>16. ASSUME NEW r \in Req, reset(r) PROVE InOrder'
  BY <1>16 DEF reset, InOrder
<1>17. ASSUME NEW r \in Req, Put(r) PROVE InOrder'
  BY <1>17 DEF Put, Clean, NoReply, InOrder
<1>18. CASE UNCHANGED vars
  BY <1>18 DEF vars, InOrder
<1> QED
  BY <1>1, <1>2, <1>3, <1>4, <1>5, <1>6, <1>7, <1>8, <1>9,
     <1>10, <1>11, <1>12, <1>13, <1>14, <1>15, <1>16, <1>17, <1>18,
     Next1Cases, HandlerCases DEF Next, Serve

LEMMA NextContent ==
  TypeOK /\ Histories /\ Contexts /\ Resting /\ Content /\ [Next]_vars
  => Content'
<1> SUFFICES ASSUME TypeOK, Histories, Contexts, Resting, Content,
                    [Next]_vars
             PROVE  Content'
  OBVIOUS
<1>1. ASSUME NEW a \in Routes, Method(a) PROVE Content'
  BY <1>1 DEF Method, Content
<1>2. ASSUME NEW a \in Routes, DeleteRoute(a) PROVE Content'
  BY <1>2 DEF DeleteRoute, Content
<1>3. CASE ServeListener
  BY <1>3 DEF ServeListener, Content
<1>4. ASSUME NEW r \in Req, NEW p \in ServedPaths, ServeHTTP(r, p)
      PROVE  Content'
  <2>1. PICK c \in pool : ctx' = [ctx EXCEPT ![r] = c]
    BY <1>4 DEF ServeHTTP
  <2>2. body[c] = {} /\ status[c] = 200 /\ wrote[r] = Clean
    BY <1>4 DEF ServeHTTP, Contexts, ContextsApart, Resting
  <2>3. body[c] = {<<r, h>> : h \in wrote[r].by} /\ status[c] = wrote[r].status
    BY <2>2 DEF Clean
  <2>4. \A q \in Using' \ {r} : q \in Using /\ ctx'[q] = ctx[q]
    BY <1>4, <2>1 DEF ServeHTTP, TypeOK
  <2>5. ctx'[r] = c
    BY <2>1 DEF TypeOK
  <2> QED
    BY <1>4, <2>3, <2>4, <2>5 DEF ServeHTTP, Content
<1>5. ASSUME NEW r \in Req, NEW n \in 1..Handlers, Starts(r, n)
      PROVE  Content'
  BY <1>5 DEF Starts, Content
<1>6. ASSUME NEW r \in Req, Returns(r) PROVE Content'
  <2>1. \A q \in Using' : q \in Using
    BY <1>6 DEF Returns, TypeOK
  <2>2. UNCHANGED <<body, status, ctx, wrote>>
    BY <1>6 DEF Returns, ctxVars, histVars
  <2> QED
    BY <2>1, <2>2 DEF Content
<1>7. ASSUME NEW r \in Req, NEW h \in 1..Handlers, Writes(r, h)
      PROVE  Content'
  <2>1. r \in Using /\ ctx[r] \in Ctx
    BY <1>7 DEF Writes, Contexts
  <2>2. body'[ctx[r]] = {<<r, g>> : g \in wrote'[r].by}
    BY <1>7, <2>1 DEF Writes, Written, Content
  <2>3. status'[ctx[r]] = wrote'[r].status
    BY <1>7 DEF Writes, Written
  <2>4. \A q \in Using \ {r} : ctx[q] \in Ctx \ {ctx[r]}
    BY <2>1 DEF Contexts, ContextsApart
  <2>5. \A q \in Using \ {r} :
          /\ body'[ctx[q]] = body[ctx[q]] /\ status'[ctx[q]] = status[ctx[q]]
          /\ wrote'[q] = wrote[q]
    BY <1>7, <2>4 DEF Writes, Written
  <2>6. Using' = Using /\ ctx' = ctx
    BY <1>7, <2>1 DEF Writes, TypeOK
  <2> QED
    BY <2>2, <2>3, <2>5, <2>6 DEF Content
<1>8. ASSUME NEW r \in Req, CallNext(r) PROVE Content'
  BY <1>8 DEF CallNext, Content
<1>9. ASSUME NEW r \in Req, Resumes(r) PROVE Content'
  BY <1>9 DEF Resumes, Content
<1>10. ASSUME NEW r \in Req, NotFound(r) PROVE Content'
  <2>1. r \in Using /\ ctx[r] \in Ctx
    BY <1>10 DEF NotFound, Contexts
  <2>2. body'[ctx[r]] = {<<r, g>> : g \in wrote'[r].by}
    BY <1>10, <2>1 DEF NotFound, Written, Content
  <2>3. status'[ctx[r]] = wrote'[r].status
    BY <1>10 DEF NotFound, Written
  <2>4. \A q \in Using \ {r} : ctx[q] \in Ctx \ {ctx[r]}
    BY <2>1 DEF Contexts, ContextsApart
  <2>5. \A q \in Using \ {r} :
          /\ body'[ctx[q]] = body[ctx[q]] /\ status'[ctx[q]] = status[ctx[q]]
          /\ wrote'[q] = wrote[q]
    BY <1>10, <2>4 DEF NotFound, Written
  <2>6. Using' = Using /\ ctx' = ctx
    BY <1>10, <2>1 DEF NotFound, TypeOK
  <2> QED
    BY <2>2, <2>3, <2>5, <2>6 DEF Content
<1>11. ASSUME NEW r \in Req,
             NEW i \in {EndIndex, OutlineEndIndex, CloseIndex}, end(r, i)
       PROVE  Content'
  BY <1>11 DEF end, Content
<1>12. ASSUME NEW r \in Req, HandlerPanics(r) PROVE Content'
  BY <1>12 DEF HandlerPanics, Content
<1>13. ASSUME NEW r \in Req, Rises(r) PROVE Content'
  BY <1>13 DEF Rises, Content
<1>14. ASSUME NEW r \in Req, Reaches(r) PROVE Content'
  <2>1. r \in Using /\ ctx[r] \in Ctx
    BY <1>14 DEF Reaches, Contexts
  <2>2. wrote'[r] = [by |-> {0}, status |-> 500]
    BY <1>14 DEF Reaches, Histories
  <2>3. body'[ctx[r]] = {<<r, 0>>} /\ status'[ctx[r]] = 500
    BY <1>14, <2>1 DEF Reaches, TypeOK
  <2>4. \A q \in Using \ {r} : ctx[q] \in Ctx \ {ctx[r]}
    BY <2>1 DEF Contexts, ContextsApart
  <2>5. \A q \in Using \ {r} :
          /\ body'[ctx[q]] = body[ctx[q]] /\ status'[ctx[q]] = status[ctx[q]]
          /\ wrote'[q] = wrote[q]
    BY <1>14, <2>4 DEF Reaches, TypeOK, Histories
  <2>6. Using' = Using /\ ctx' = ctx
    BY <1>14, <2>1 DEF Reaches, TypeOK
  <2> QED
    BY <2>1, <2>2, <2>3, <2>5, <2>6 DEF Content
<1>15. ASSUME NEW r \in Req, Answer(r) PROVE Content'
  BY <1>15 DEF Answer, NoReply, Content
<1>16. ASSUME NEW r \in Req, reset(r) PROVE Content'
  BY <1>16 DEF reset, TypeOK, Contexts, ContextsApart, Content
<1>17. ASSUME NEW r \in Req, Put(r) PROVE Content'
  BY <1>17 DEF Put, Clean, NoReply, Content
<1>18. CASE UNCHANGED vars
  BY <1>18 DEF vars, Content
<1> QED
  BY <1>1, <1>2, <1>3, <1>4, <1>5, <1>6, <1>7, <1>8, <1>9,
     <1>10, <1>11, <1>12, <1>13, <1>14, <1>15, <1>16, <1>17, <1>18,
     Next1Cases, HandlerCases DEF Next, Serve

LEMMA NextHandled ==
  /\ TypeOK /\ Histories /\ Contexts /\ Resting
  /\ Progress /\ Handled
  /\ [Next]_vars
  => Handled'
<1> SUFFICES ASSUME TypeOK, Histories, Contexts, Resting, Progress, Handled,
                    [Next]_vars
             PROVE  Handled'
  OBVIOUS
<1>1. ASSUME NEW a \in Routes, Method(a) PROVE Handled'
  BY <1>1 DEF Method, Handled
<1>2. ASSUME NEW a \in Routes, DeleteRoute(a) PROVE Handled'
  BY <1>2 DEF DeleteRoute, Handled
<1>3. CASE ServeListener
  BY <1>3 DEF ServeListener, Handled
<1>4. ASSUME NEW r \in Req, NEW p \in ServedPaths, ServeHTTP(r, p)
      PROVE  Handled'
  BY <1>4 DEF ServeHTTP, Handled
<1>5. ASSUME NEW r \in Req, NEW n \in 1..Handlers, Starts(r, n)
      PROVE  Handled'
  BY <1>5 DEF Starts, Handled
<1>6. ASSUME NEW r \in Req, Returns(r) PROVE Handled'
  <2>1. UNCHANGED <<started, wrote, ended, crashed>>
    BY <1>6 DEF Returns
  <2>2. \A q \in Req \ {r} : at'[q] = at[q]
    BY <1>6 DEF Returns, TypeOK
  <2>3. ~crashed[r]
    BY <1>6 DEF Returns, Handled
  <2>4. r \in Using /\ index[ctx[r]] \notin 0..(Handlers - 1)
    BY <1>6 DEF Returns
  <2>5. ended[r] = 0 => Len(started[r]) = Handlers
    BY <2>4 DEF Progress
  <2> QED
    BY <2>1, <2>2, <2>3, <2>5 DEF Handled
<1>7. ASSUME NEW r \in Req, NEW h \in 1..Handlers, Writes(r, h)
      PROVE  Handled'
  <2>1. ~crashed[r] /\ \A q \in Req \ {r} : wrote'[q] = wrote[q]
    BY <1>7 DEF Writes, Written, Handled
  <2> QED
    BY <1>7, <2>1 DEF Writes, Handled
<1>8. ASSUME NEW r \in Req, CallNext(r) PROVE Handled'
  BY <1>8 DEF CallNext, Handled
<1>9. ASSUME NEW r \in Req, Resumes(r) PROVE Handled'
  BY <1>9 DEF Resumes, Handled
<1>10. ASSUME NEW r \in Req, NotFound(r) PROVE Handled'
  <2>1. ~crashed[r] /\ \A q \in Req \ {r} : wrote'[q] = wrote[q]
    BY <1>10 DEF NotFound, Written, Handled
  <2>2. at[r] = "handler" /\ at' = [at EXCEPT ![r] = "next"]
    BY <1>10 DEF NotFound
  <2>3. UNCHANGED <<started, ended, crashed>>
    BY <1>10 DEF NotFound
  <2>4. /\ \A q \in Req \ {r} : at'[q] = at[q]
        /\ at'[r] = "next"
    BY <2>2 DEF TypeOK
  <2> QED
    BY <2>1, <2>3, <2>4 DEF Handled
<1>11. ASSUME NEW r \in Req,
             NEW i \in {EndIndex, OutlineEndIndex, CloseIndex}, end(r, i)
       PROVE  Handled'
  BY <1>11 DEF end, Handled
<1>12. ASSUME NEW r \in Req, HandlerPanics(r) PROVE Handled'
  BY <1>12 DEF HandlerPanics, Handled
<1>13. ASSUME NEW r \in Req, Rises(r) PROVE Handled'
  BY <1>13 DEF Rises, Handled
<1>14. ASSUME NEW r \in Req, Reaches(r) PROVE Handled'
  <2>1. /\ UNCHANGED <<started, ended>>
        /\ \A q \in Req \ {r} : wrote'[q] = wrote[q] /\ crashed'[q] = crashed[q]
                               /\ at'[q] = at[q]
    BY <1>14 DEF Reaches, TypeOK, Histories
  <2>2. at'[r] = "handled" /\ crashed'[r] /\ wrote'[r].status = 500
    BY <1>14 DEF Reaches, TypeOK, Histories
  <2> QED
    BY <2>1, <2>2 DEF Handled
<1>15. ASSUME NEW r \in Req, Answer(r) PROVE Handled'
  BY <1>15 DEF Answer, NoReply, Handled
<1>16. ASSUME NEW r \in Req, reset(r) PROVE Handled'
  BY <1>16 DEF reset, Handled
<1>17. ASSUME NEW r \in Req, Put(r) PROVE Handled'
  BY <1>17 DEF Put, Clean, NoReply, TypeOK, Handled
<1>18. CASE UNCHANGED vars
  BY <1>18 DEF vars, Handled
<1> QED
  BY <1>1, <1>2, <1>3, <1>4, <1>5, <1>6, <1>7, <1>8, <1>9,
     <1>10, <1>11, <1>12, <1>13, <1>14, <1>15, <1>16, <1>17, <1>18,
     Next1Cases, HandlerCases DEF Next, Serve

LEMMA NextAnswer ==
  /\ TypeOK /\ Histories /\ Contexts /\ Resting
  /\ Progress /\ Content /\ InOrder /\ Handled /\ RightAnswer
  /\ [Next]_vars
  => RightAnswer'
<1> SUFFICES ASSUME TypeOK, Histories, Contexts, Resting,
                    Progress, Content, InOrder, Handled, RightAnswer,
                    [Next]_vars
             PROVE  RightAnswer'
  OBVIOUS
<1>1. ASSUME NEW a \in Routes, Method(a) PROVE RightAnswer'
  BY <1>1 DEF Method, RightAnswer
<1>2. ASSUME NEW a \in Routes, DeleteRoute(a) PROVE RightAnswer'
  BY <1>2 DEF DeleteRoute, RightAnswer
<1>3. CASE ServeListener
  BY <1>3 DEF ServeListener, RightAnswer
<1>4. ASSUME NEW r \in Req, NEW p \in ServedPaths, ServeHTTP(r, p)
      PROVE  RightAnswer'
  BY <1>4 DEF ServeHTTP, RightAnswer
<1>5. ASSUME NEW r \in Req, NEW n \in 1..Handlers, Starts(r, n)
      PROVE  RightAnswer'
  <2>1. /\ sent' = sent /\ ended' = ended /\ crashed' = crashed
        /\ wrote' = wrote
        /\ \A q \in Req \ {r} : started'[q] = started[q]
    BY <1>5 DEF Starts, Histories
  <2>2. sent[r].kind = "none"
    BY <1>5 DEF Starts, Resting
  <2> QED
    BY <2>1, <2>2 DEF RightAnswer
<1>6. ASSUME NEW r \in Req, Returns(r) PROVE RightAnswer'
  BY <1>6 DEF Returns, RightAnswer
<1>7. ASSUME NEW r \in Req, NEW h \in 1..Handlers, Writes(r, h)
      PROVE  RightAnswer'
  <2>1. /\ sent' = sent /\ ended' = ended /\ crashed' = crashed
        /\ started' = started
        /\ \A q \in Req \ {r} : wrote'[q] = wrote[q]
    BY <1>7 DEF Writes, Written
  <2>2. sent[r].kind = "none"
    BY <1>7 DEF Writes, Resting
  <2> QED
    BY <2>1, <2>2 DEF RightAnswer
<1>8. ASSUME NEW r \in Req, CallNext(r) PROVE RightAnswer'
  BY <1>8 DEF CallNext, RightAnswer
<1>9. ASSUME NEW r \in Req, Resumes(r) PROVE RightAnswer'
  BY <1>9 DEF Resumes, RightAnswer
<1>10. ASSUME NEW r \in Req, NotFound(r) PROVE RightAnswer'
  <2>1. /\ sent' = sent /\ ended' = ended /\ crashed' = crashed
        /\ started' = started
        /\ \A q \in Req \ {r} : wrote'[q] = wrote[q]
    BY <1>10 DEF NotFound, Written
  <2>2. sent[r].kind = "none"
    BY <1>10 DEF NotFound, Resting
  <2> QED
    BY <2>1, <2>2 DEF RightAnswer
<1>11. ASSUME NEW r \in Req,
             NEW i \in {EndIndex, OutlineEndIndex, CloseIndex}, end(r, i)
       PROVE  RightAnswer'
  <2>1. /\ UNCHANGED <<sent, started, wrote, crashed>>
        /\ \A q \in Req \ {r} : ended'[q] = ended[q]
    BY <1>11 DEF end, TypeOK
  <2>2. sent[r].kind = "none"
    BY <1>11 DEF end, Resting
  <2> QED
    BY <2>1, <2>2 DEF RightAnswer
<1>12. ASSUME NEW r \in Req, HandlerPanics(r) PROVE RightAnswer'
  BY <1>12 DEF HandlerPanics, RightAnswer
<1>13. ASSUME NEW r \in Req, Rises(r) PROVE RightAnswer'
  BY <1>13 DEF Rises, RightAnswer
<1>14. ASSUME NEW r \in Req, Reaches(r) PROVE RightAnswer'
  <2>1. /\ UNCHANGED <<sent, started, ended>>
        /\ \A q \in Req \ {r} : wrote'[q] = wrote[q] /\ crashed'[q] = crashed[q]
    BY <1>14 DEF Reaches, TypeOK, Histories
  <2>2. sent[r].kind = "none"
    BY <1>14 DEF Reaches, Resting
  <2> QED
    BY <2>1, <2>2 DEF RightAnswer
<1>15. ASSUME NEW r \in Req, Answer(r) PROVE RightAnswer'
  <2> DEFINE i == index[ctx[r]]
  <2>1. r \in Using /\ at[r] = "handled"
    BY <1>15 DEF Answer
  <2>2. /\ body[ctx[r]] = {<<r, h>> : h \in wrote[r].by}
        /\ status[ctx[r]] = wrote[r].status
        /\ crashed[r] => wrote[r].status = 500
    BY <2>1 DEF Content, Handled
  <2>3. Len(started[r]) = Handlers => started[r] = [n \in 1..Handlers |-> n]
    BY DEF InOrder, Histories
  <2>4. started[r] # [n \in 1..Handlers |-> n] => ended[r] # 0 \/ crashed[r]
    BY <2>1, <2>3 DEF Handled
  <2>5. /\ ended[r] = 0 => i \in 0..Handlers
        /\ ended[r] # 0 => /\ i \in {EndIndex, OutlineEndIndex, CloseIndex}
                           /\ ended[r] \in {i, Mixed}
    BY <2>1 DEF Progress
  <2>6. /\ UNCHANGED <<started, wrote, ended, crashed>>
        /\ \A q \in Req \ {r} : sent'[q] = sent[q]
    BY <1>15 DEF Answer, Histories
  <2>7. ASSUME Answered(r)' PROVE RightAnswer'
    <3>1. \A q \in Req \ {r} : Answered(q)'
      BY <2>6 DEF Answered, RightAnswer
    <3> QED
      BY <2>7, <3>1 DEF Answered, RightAnswer
  <2>8. CASE i >= EndIndex
    <3>1. sent'[r] = [kind |-> "reply", status |-> status[ctx[r]],
                      body |-> body[ctx[r]]]
      BY <1>15, <2>8 DEF Answer, Histories
    <3>2. /\ sent'[r].kind = "reply"
          /\ sent'[r].status = wrote[r].status
          /\ sent'[r].body = {<<r, h>> : h \in wrote[r].by}
      BY <2>2, <3>1
    <3>3. ended[r] \in {0, EndIndex, Mixed}
      BY <2>5, <2>8
    <3>4. "reply" \in Kinds(ended[r])
      BY <3>3 DEF Kinds
    <3>5. crashed[r] => sent'[r].status = 500
      BY <2>2, <3>2
    <3>6. Answered(r)'
      BY <2>4, <2>6, <3>2, <3>4, <3>5 DEF Answered
    <3> QED
      BY <2>7, <3>6
  <2>9. CASE ~(i >= EndIndex)
    <3>1. ended[r] # 0 /\ i \in {OutlineEndIndex, CloseIndex}
      BY <2>5, <2>9
    <3>2. sent'[r].kind = IF i <= CloseIndex THEN "aborted" ELSE "outline"
      BY <1>15, <2>9 DEF Answer, Histories, NoReply
    <3>3. sent'[r].kind \in Kinds(ended[r]) /\ sent'[r].kind # "reply"
      BY <2>5, <3>1, <3>2 DEF Kinds
    <3>4. Answered(r)'
      BY <2>6, <3>3 DEF Answered
    <3> QED
      BY <2>7, <3>4
  <2> QED
    BY <2>8, <2>9
<1>16. ASSUME NEW r \in Req, reset(r) PROVE RightAnswer'
  BY <1>16 DEF reset, RightAnswer
<1>17. ASSUME NEW r \in Req, Put(r) PROVE RightAnswer'
  BY <1>17 DEF Put, Clean, NoReply, TypeOK, Histories, Resting, RightAnswer
<1>18. CASE UNCHANGED vars
  BY <1>18 DEF vars, RightAnswer
<1> QED
  BY <1>1, <1>2, <1>3, <1>4, <1>5, <1>6, <1>7, <1>8, <1>9,
     <1>10, <1>11, <1>12, <1>13, <1>14, <1>15, <1>16, <1>17, <1>18,
     Next1Cases, HandlerCases DEF Next, Serve

LEMMA NextInv == IInv /\ [Next]_vars => IInv'
  BY NextTypes, NextHistories, NextContexts, NextResting, NextProgress,
     NextInOrder, NextContent, NextHandled, NextAnswer DEF IInv

LEMMA Invariance == Spec => []IInv
  BY InitInv, NextInv, PTL DEF Spec

-----------------------------------------------------------------------------
\* Whatever handlers do in whatever order, the handlers of a request start in
\* the order of the list and none twice, its answer is what they wrote, and its
\* Context is its own and comes back to the pool as new.
THEOREM WebServesRight == Spec => []ServesRight
<1>1. IInv => ServesRight
  BY DEF IInv, Contexts, ServesRight
<1> QED
  BY <1>1, Invariance, PTL

\* Once End, ResponseWriter or Close was called, no loop of Next, of the nested
\* calls on the stack either, starts another handler of the request.
THEOREM WebEndStops == Spec => EndStops
<1> DEFINE Stops == \A r \in Live :
                      ended[r] # 0 => started'[r] \in {started[r], <<>>}
<1>1. IInv /\ [Next]_vars => [Stops]_vars
  <2> SUFFICES ASSUME IInv, Next PROVE Stops
    OBVIOUS
  <2> SUFFICES ASSUME NEW q \in Live, ended[q] # 0
               PROVE  started'[q] \in {started[q], <<>>}
    OBVIOUS
  <2>1. TypeOK /\ Histories /\ Contexts /\ Progress
    BY DEF IInv
  <2>2. CASE UNCHANGED started
    BY <2>2
  <2>3. ASSUME NEW r \in Req, NEW n \in 1..Handlers, Starts(r, n)
        PROVE  started'[q] = started[q]
    <3>1. ended[r] = 0
      BY <2>1, <2>3, StartedSoFar
    <3> QED
      BY <2>1, <2>3, <3>1 DEF Starts, Histories
  <2>4. ASSUME NEW r \in Req, Put(r) PROVE started'[q] \in {started[q], <<>>}
    BY <2>1, <2>4 DEF Put, Histories
  <2>5. ASSUME NEW r \in Req, Serve(r), ~Put(r), started' # started
        PROVE  \E n \in 1..Handlers : Starts(r, n)
    <3>1. Next1(r)
      BY <2>5 DEF Serve, Write, Put1, CallNext, Return, HandlerPanics,
         HandlerRecovers, NextRecovers, Answer, reset, end
    <3> QED
      BY <2>1, <2>5, <3>1, Next1Cases DEF Returns
  <2>6. (~\E r \in Req : Serve(r)) => UNCHANGED started
    BY DEF Next, Method, DeleteRoute, ServeListener, ServeHTTP
  <2> QED
    BY <2>2, <2>3, <2>4, <2>5, <2>6
<1> QED
  BY <1>1, Invariance, PTL DEF Spec, EndStops
=============================================================================
