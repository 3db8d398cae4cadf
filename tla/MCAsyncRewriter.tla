--------------------------- MODULE MCAsyncRewriter ---------------------------
(* Every try statement of short parts, alone or before one more call, and      *)
(* every try statement around one with the shortest parts.                     *)
EXTENDS AsyncRewriter

Blocks(l) == {<<Call(l)>>, <<Return(l)>>, <<Call(l), Return(l)>>}
Bodies(id, l) == Blocks(l) \cup {<<Throw(l)>>}
Handlers(id) == {<<>>} \cup {<<b>> : b \in Blocks("h") \cup
                     {<<Rethrow(Err(id))>>, <<Call("h"), Rethrow(Err(id))>>}}
Finalizers == {<<>>} \cup {<<b>> : b \in Blocks("f") \cup
                     {<<Throw("f")>>, <<BareReturn>>}}

Tries == {t \in {Try(1, b, h, f) : b \in Bodies(1, "b"), h \in Handlers(1),
                                   f \in Finalizers} :
             t.handler # <<>> \/ t.finalizer # <<>>}

\* The tries that stand inside another try.
Inner == {t \in {Try(2, b, h, f) : b \in {<<Call("x")>>, <<Call("x"), Return("x")>>},
                     h \in {<<>>, <<<<Call("y")>>>>, <<<<Rethrow(Err(2))>>>>},
                     f \in {<<>>, <<<<Call("z")>>>>, <<<<Throw("z")>>>>}} :
             t.handler # <<>> \/ t.finalizer # <<>>}
Outer == {Try(1, <<t>>, h, f) : t \in Inner,
              h \in {<<<<>>>>, <<<<Call("h")>>>>}, f \in {<<>>, <<<<Call("f")>>>>}}

MCPrograms == {<<t>> : t \in Tries \cup Outer} \cup {<<t, Call("a")>> : t \in Tries \cup Outer}
=============================================================================
