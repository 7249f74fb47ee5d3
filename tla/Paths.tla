--------------------------------- MODULE Paths ---------------------------------
(***************************************************************************)
(* Virtual paths: what server/path_handler.c and the path functions of     *)
(* server/mkdir.c make of a client's argument.  A path is the sequence of  *)
(* its names; an argument is [absolute |-> BOOLEAN, names |-> sequence].   *)
(* A path that ends in '/' has "" as its last name.                        *)
(***************************************************************************)
EXTENDS Integers, Sequences, SequencesExt

LOCAL Up == ".."

\* The number of leading ".." of an argument.
Ups(names) ==
  CHOOSE k \in 0..Len(names) :
    /\ \A i \in 1..k : names[i] = Up
    /\ k < Len(names) => names[k + 1] # Up

\* pushPath: strtok passes over an empty name.
pushPath(path) == SelectSeq(path, LAMBDA name : name # "")

\* get_whole_path: leading ".."s climb from the working directory, and the rest
\* is appended, both without empty names.  More of them than the directory is deep is NULL.
get_whole_path(arg, pwd, NULL) ==
  LET names == pushPath(arg.names)
      k     == Ups(names)
      Rest  == SubSeq(names, k + 1, Len(names))
      stack == pushPath(pwd)
  IN  IF arg.absolute THEN arg.names
      ELSE IF k > Len(stack) THEN NULL
      ELSE SubSeq(stack, 1, Len(stack) - k) \o (IF Rest = <<>> THEN <<"">> ELSE Rest)

\* cd cuts one '/' off the end.
WithoutSlash(path) ==
  IF path # <<>> /\ Last(path) = "" THEN Front(path) ELSE path

\* mkdir puts a '/' in front of an absolute argument too: an empty name.
Spelled(arg) == IF arg.absolute THEN <<"">> \o arg.names ELSE arg.names

\* parseAndHandlePath of mkdir knows one "../", in front of something.
ClimbsOnce(names) == Len(names) > 1 /\ names[1] = Up
SubPath(names) == IF ClimbsOnce(names) THEN Tail(names) ELSE names
===============================================================================
