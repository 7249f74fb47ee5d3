------------------------------- MODULE MCDirTree -------------------------------
(* Arguments for DirTree: the forms that the code treats differently.        *)
EXTENDS DirTree

Relative(names) == [absolute |-> FALSE, names |-> names]
Absolute(names) == [absolute |-> TRUE, names |-> names]

\* A name, a climb, a name beside the working directory, the home directory.
MCArgs == { Relative(<<"a">>), Relative(<<"..">>), Relative(<<"..", "b">>), Absolute(Home) }

\* The same with a path of two names and a climb past the root.
MCArgsDeep == MCArgs \cup { Relative(<<"a", "b">>), Relative(<<"..", "..", "..">>) }
===============================================================================
