----------------------------- MODULE MCPlatform -----------------------------
(* Small instances of Platform for TLC. *)
EXTENDS Platform

AllBuilds ==
  {[kind |-> "ucontext", nested |-> FALSE], [kind |-> "fiber", nested |-> FALSE],
   [kind |-> "thread", nested |-> FALSE], [kind |-> "thread", nested |-> TRUE]}

NestedContexts == {[kind |-> "ucontext", nested |-> TRUE]}

(* Nothing given, everything given, the same without a proxy. *)
Nothing == [f \in Settings |-> NONE]
Everything == [f \in Settings |-> "given"]
Direct == [Everything EXCEPT !["proxy"] = NONE]
FewConfigs == {Nothing, Everything, Direct}

(* Parts with and without a file name, a type and data. *)
FewParts == [name : {1}, file : {-1, 2}, type : {-1, 3}, headers : {<<>>}, data : {0, 2}]
=============================================================================
