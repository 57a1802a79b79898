----------------------------- MODULE MCServerCalls -----------------------------
(* Small instances of ServerCalls for TLC.                                  *)
EXTENDS ServerCalls

CONSTANTS q1, q2, p1, p2

\* The documented forms, options after the callback, a pool that does not exist,
\* and no callback.
MCQueryArgs ==
  {<<Callback>>, <<Options(p2), Callback>>, <<Array("x"), Options(p2), Callback>>,
   <<Other, Options(NoPool), Callback>>, <<Array("x"), Callback>>,
   <<Callback, Options(p2)>>, <<Options("nowhere"), Callback>>, <<Options(p2)>>}

\* One for each way through executeFunction().
MCFunctionArgs ==
  {[kind |-> "none"], Array("x"), Other,
   FunctionOptions("x", None, "true", p2), FunctionOptions("x", "k", "true", NoPool),
   FunctionOptions(None, None, "true", NoPool), FunctionOptions("null", "k", "true", p2),
   FunctionOptions("x", "notArray", "false", p2), FunctionOptions("x", None, "notBoolean", p2),
   FunctionOptions("x", None, "true", "nowhere")}

MCAnswers == {<<>>, <<"a">>, <<"a", "b">>}
===============================================================================
