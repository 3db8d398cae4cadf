---------------------------- MODULE AsyncRewriter ----------------------------
(* The code the async rewriter produces from a function the user typed         *)
(* (async-rewriter2/src/stages: uncatchable-exceptions.ts, then                *)
(* transform-maybe-await.ts), run as JavaScript, beside what the function      *)
(* means: every call is synchronous, and the exception of a Ctrl+C passes      *)
(* every catch and every finally.  A call may in truth be a server call,       *)
(* whose synthetic promise the rewritten code awaits on its own.               *)
(*                                                                             *)
(* A program is a sequence of statements: calls, returns of a known value,     *)
(* bare returns, throws, and try statements.  A state is a program and what    *)
(* the calls it has made so far came to; a step decides the next call.         *)
EXTENDS Naturals, Sequences, FiniteSets, TLC

CONSTANT Programs        \* the functions under test

Outcomes == [is: {"ok", "error", "interrupt"}, async: BOOLEAN]

VARIABLES prog, outcomes
vars == <<prog, outcomes>>

-----------------------------------------------------------------------------
\* Source statements.  A try has an id; its handler is <<>> or <<body>>, its
\* finalizer <<>> or <<body>>.  Rethrow throws what the enclosing catch caught.
Call(l) == [op |-> "call", at |-> l]
Return(v) == [op |-> "return", val |-> v]
BareReturn == [op |-> "bareReturn"]
Throw(v) == [op |-> "throw", val |-> v]
Rethrow(name) == [op |-> "rethrow", name |-> name]
Try(id, block, handler, finalizer) ==
    [op |-> "try", id |-> id, block |-> block, handler |-> handler,
     finalizer |-> finalizer]

\* Statements only rewritten code has: the declaration or assignment
\* flag = !name[uncatchable] (name "" : flag = true), the test of a caught
\* exception or of a flag, a try that is already rewritten, and the return that
\* stores its value for the wrapper.
Note(flag, name) == [op |-> "note", flag |-> flag, name |-> name]
IfCatchable(name, then, else) ==
    [op |-> "ifCatchable", name |-> name, then |-> then, else |-> else]
IfFlag(flag, then, else) == [op |-> "ifFlag", flag |-> flag, then |-> then,
                             else |-> else]
TryCatch(block, name, handler, finalizer) ==
    [op |-> "tryCatch", block |-> block, name |-> name, handler |-> handler,
     finalizer |-> finalizer]
ReturnStored(v) == [op |-> "returnStored", val |-> v]

Err(id) == <<"err", id>>
InnerExc(id) == <<"innerExc", id>>
IsCatchable(id) == <<"isCatchable", id>>

-----------------------------------------------------------------------------
\* transform-maybe-await.ts, returnValueWrapperTemplate: every return of a
\* value becomes (srv = value, fs === 'async' ? srv : null).
RewriteReturn(v) == ReturnStored(v)

\* uncatchable-exceptions.ts: what becomes of one try statement whose parts
\* are rewritten already.  A try without a catch gets catch (err) { throw err }.
NoCatch(id) == <<Rethrow(Err(id))>>

TryWithoutFinally(id, block, body) ==
    <<TryCatch(block, Err(id),
               <<IfCatchable(Err(id), body, <<Rethrow(Err(id))>>)>>, <<>>)>>

\* Faulty Guarded: the catch body in a plain block.
GuardedNot(id, body) ==
    TryCatch(body, InnerExc(id), <<Rethrow(InnerExc(id))>>, <<>>)

\* The catch body runs in a try of its own, so that an uncatchable exception
\* it throws turns the finalizer off as well.
Guarded(id, body) ==
    TryCatch(body, InnerExc(id),
             <<Note(IsCatchable(id), InnerExc(id)), Rethrow(InnerExc(id))>>, <<>>)

TryWithFinally(id, block, body, finalizer) ==
    <<Note(IsCatchable(id), ""),
      TryCatch(block, Err(id),
               <<Note(IsCatchable(id), Err(id)),
                 IfFlag(IsCatchable(id), <<Guarded(id, body)>>,
                        <<Rethrow(Err(id))>>)>>,
               <<IfFlag(IsCatchable(id), finalizer, <<>>)>>)>>

RECURSIVE Rewrite(_)
Rewrite(block) ==
    IF block = <<>> THEN <<>>
    ELSE LET s == Head(block)
             body == IF s.handler = <<>> THEN NoCatch(s.id) ELSE Rewrite(s.handler[1])
         IN  (CASE s.op = "return" -> <<RewriteReturn(s.val)>>
                [] s.op = "try" /\ s.finalizer = <<>> ->
                     TryWithoutFinally(s.id, Rewrite(s.block), body)
                [] s.op = "try" /\ s.finalizer # <<>> ->
                     TryWithFinally(s.id, Rewrite(s.block), body,
                                    Rewrite(s.finalizer[1]))
                [] OTHER -> <<s>>) \o Rewrite(Tail(block))

-----------------------------------------------------------------------------
\* Completions of a block, as in JavaScript; "pending": a call is not decided.
Normal == [how |-> "normal", val |-> "undefined", uncatchable |-> FALSE]
Pending == [Normal EXCEPT !.how = "pending"]
Returns(v) == [Normal EXCEPT !.how = "return", !.val = v]
Throws(v, u) == [how |-> "throw", val |-> v, uncatchable |-> u]

\* What a call comes to: the completion of the statement that makes it.
CallEnds(l, o) == CASE o.is = "ok" -> Normal
                    [] o.is = "error" -> Throws(l, FALSE)
                    [] o.is = "interrupt" -> Throws(l, TRUE)

\* The state of a run: the labels of the calls made, the wrapper's function
\* state and stored return value, the generated variables and caught
\* exceptions by name, and, for the meaning only, whether a finalizer took
\* over from a return.
Fresh == [calls |-> <<>>, fs |-> "sync", srv |-> "undefined",
          names |-> <<>>, overtaken |-> FALSE]

Bind(env, name, v) == [env EXCEPT !.names = (name :> v) @@ env.names]

Decided(env) == Len(env.calls) < Len(outcomes)
Outcome(env) == outcomes[Len(env.calls) + 1]
Made(env, l) == [env EXCEPT !.calls = Append(env.calls, l)]

\* awaitSyntheticPromiseTemplate: isp(ex) ? await ex : ex.  At the first await
\* the inner async function is left, and the wrapper that called it sets
\* fs = 'async' and returns the marked promise; the rest runs afterwards.
MaybeAwait(env) == IF Outcome(env).async /\ env.fs = "sync"
                   THEN [env EXCEPT !.fs = "async"] ELSE env

\* Faulty StoresReturn: it evaluates to null whether or not the function is async.
StoresReturnOnly(env, v) ==
    [end |-> Returns("null"), env |-> [env EXCEPT !.srv = v]]

\* The return template, once its operand is evaluated.
StoresReturn(env, v) ==
    [end |-> Returns(IF env.fs = "async" THEN v ELSE "null"),
     env |-> [env EXCEPT !.srv = v]]

\* One completion after another: what follows a statement that completes.
Then(r, next(_)) == IF r.end.how = "normal" THEN next(r.env) ELSE r

\* try: the handler runs if the block throws something it catches; the
\* finalizer runs if it runs at all, and its abrupt end replaces the other's.
Caught(r, catches, handle(_)) ==
    IF r.end.how = "throw" /\ catches THEN handle(r) ELSE r

Finalized(r, runs, finalize(_)) ==
    IF r.end.how = "pending" \/ ~runs THEN r
    ELSE LET f == finalize(r.env)
         IN  IF f.end.how = "normal" THEN [f EXCEPT !.end = r.end] ELSE f

CallRuns(s, env) ==
    IF Decided(env)
    THEN [end |-> CallEnds(s.at, Outcome(env)), env |-> Made(MaybeAwait(env), s.at)]
    ELSE [end |-> Pending, env |-> Made(env, s.at)]

\* Rewritten code, as JavaScript runs it.
RECURSIVE Exec(_, _)
ExecTry(s, env) ==
    LET tried == Exec(s.block, env)
        caught == Caught(tried, TRUE,
                         LAMBDA r : Exec(s.handler, Bind(r.env, s.name, r.end)))
    IN  Finalized(caught, s.finalizer # <<>>, LAMBDA e : Exec(s.finalizer, e))

ExecStatement(s, env) ==
    CASE s.op = "call" -> CallRuns(s, env)
      [] s.op = "returnStored" -> StoresReturn(env, s.val)
      [] s.op = "bareReturn" -> [end |-> Returns("undefined"), env |-> env]
      [] s.op = "throw" -> [end |-> Throws(s.val, FALSE), env |-> env]
      [] s.op = "rethrow" -> [end |-> env.names[s.name], env |-> env]
      [] s.op = "note" ->
           [end |-> Normal,
            env |-> Bind(env, s.flag, s.name = "" \/ ~env.names[s.name].uncatchable)]
      [] s.op = "ifCatchable" ->
           Exec(IF env.names[s.name].uncatchable THEN s.else ELSE s.then, env)
      [] s.op = "ifFlag" ->
           Exec(IF env.names[s.flag] THEN s.then ELSE s.else, env)
      [] s.op = "tryCatch" -> ExecTry(s, env)

Exec(block, env) ==
    IF block = <<>> THEN [end |-> Normal, env |-> env]
    ELSE Then(ExecStatement(Head(block), env), LAMBDA e : Exec(Tail(block), e))

\* asyncTryCatchWrapperTemplate around the body: a synchronous exception is
\* kept for the wrapper, a later one rejects the promise.
AsyncTryCatch(r) ==
    LET caught == IF r.end.how = "throw" /\ r.env.fs = "sync"
                  THEN [end |-> Normal,
                        env |-> [r.env EXCEPT !.fs = "threw", !.srv = r.end]]
                  ELSE r
    IN  [caught EXCEPT !.env.fs = IF @ = "threw" THEN @ ELSE "returned"]

\* wrapperFunctionTemplate: what the caller of the rewritten function gets in
\* the end, and whether it got it as a (marked) promise.
Wrapper(body) ==
    LET r == Exec(body, Fresh)
        inner == AsyncTryCatch(r)
        end == CASE r.env.fs = "async" -> inner.end
                 [] inner.env.fs = "threw" -> inner.env.srv
                 [] OTHER -> Returns(inner.env.srv)
    IN  [pending |-> r.end.how = "pending", calls |-> r.env.calls,
         threw |-> end.how = "throw", val |-> end.val,
         promise |-> r.env.fs = "async"]

-----------------------------------------------------------------------------
\* What the source means.  A finalizer that ends abruptly replaces a return.
RECURSIVE Meaning(_, _)
MeaningOfTry(s, env) ==
    LET tried == Meaning(s.block, env)
        caught == Caught(tried, s.handler # <<>> /\ ~tried.end.uncatchable,
                         LAMBDA r : Meaning(s.handler[1],
                                            Bind(r.env, Err(s.id), r.end)))
        after == Finalized(caught, s.finalizer # <<>> /\ ~caught.end.uncatchable,
                           LAMBDA e : Meaning(s.finalizer[1], e))
        \* After a return of a value, the finalizer is the first to await, or
        \* it throws or returns nothing in a function that is still synchronous.
        takesOver ==
            /\ caught.end.how = "return" /\ caught.end.val # "undefined"
            /\ IF after.env.fs = "async"
               THEN caught.env.fs = "sync" /\ after.end = caught.end
               ELSE \/ after.end.how = "throw" /\ ~after.end.uncatchable
                    \/ after.end = Returns("undefined")
    IN  [after EXCEPT !.env.overtaken = @ \/ takesOver]

MeaningOfStatement(s, env) ==
    CASE s.op = "call" -> CallRuns(s, env)
      [] s.op = "return" -> [end |-> Returns(s.val), env |-> env]
      [] s.op = "bareReturn" -> [end |-> Returns("undefined"), env |-> env]
      [] s.op = "throw" -> [end |-> Throws(s.val, FALSE), env |-> env]
      [] s.op = "rethrow" -> [end |-> env.names[s.name], env |-> env]
      [] s.op = "try" -> MeaningOfTry(s, env)

Meaning(block, env) ==
    IF block = <<>> THEN [end |-> Normal, env |-> env]
    ELSE Then(MeaningOfStatement(Head(block), env),
              LAMBDA e : Meaning(Tail(block), e))

Run == Wrapper(Rewrite(prog))
Source == Meaning(prog, Fresh)

-----------------------------------------------------------------------------
Init == prog \in Programs /\ outcomes = <<>>

\* The call the rewritten function is at ends: normally, with an error, or with
\* the exception of a Ctrl+C; at once, or as a synthetic promise.
CallReturns(o) ==
    /\ Run.pending
    /\ outcomes' = Append(outcomes, o)
    /\ UNCHANGED prog

Next == \E o \in Outcomes : CallReturns(o)
Spec == Init /\ [][Next]_vars

-----------------------------------------------------------------------------
\* The rewritten function makes the calls of the source, in its order, whatever
\* they come to and whether or not they are awaited: after a Ctrl+C no catch
\* body, no finalizer and no later statement calls anything
\* (uncatchable-exceptions.ts:14-18).
CallsInOrder ==
    Run.calls = Source.env.calls /\ (Run.pending <=> Source.end.how = "pending")

\* The caller gets the value or the exception the source gives, and gets it as
\* a promise only if some call was awaited (transform-maybe-await.ts:10-15) -
\* unless a finalizer took over from a return: see SameResultAlways.
SameResult ==
    ~Run.pending /\ ~Source.env.overtaken =>
        /\ Run.threw = (Source.end.how = "throw")
        /\ Run.val = Source.end.val
        /\ Run.promise = (\E i \in DOMAIN outcomes : outcomes[i].async)

\* The same for every function.  It does not hold.  The value of a return is
\* stored in srv and, while the function is synchronous, not returned: a
\* finalizer that then awaits makes the function async and its result null; a
\* finalizer that throws, is caught outside and leaves the function without a
\* return of its own value, makes the caller get the abandoned value.
SameResultAlways ==
    ~Run.pending => Run.threw = (Source.end.how = "throw") /\ Run.val = Source.end.val
=============================================================================
