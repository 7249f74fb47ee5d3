----------------------------- MODULE MCPathResolver -----------------------------
(* Inputs for PathResolver: one worker with every argument of up to four names, *)
(* and two workers with a choice of short ones.                                 *)
EXTENDS PathResolver

CONSTANTS w1, w2

MCWorkers == {w1, w2}
MCItems == {"a", "b"}

MCPwds == { <<>>, <<"file">>, <<"file", "u">>, <<"file", "", "u">> }

MCArguments ==
  [absolute : {FALSE}, names : UNION { [1..n -> {"a", "..", ""}] : n \in 0..4 }]
    \cup { [absolute |-> TRUE, names |-> <<"..", "a">>] }

Short ==
  [pwd : { <<>>, <<"file", "u">> },
   arg : [absolute : {FALSE}, names : { <<"a">>, <<"..", "a", "b">> }]]

MCCalls ==
  { [w \in MCWorkers |-> IF w = w1 THEN c ELSE NULL] : c \in [pwd : MCPwds, arg : MCArguments] }
    \cup [MCWorkers -> Short]
===============================================================================
