---------------------------- MODULE ChildProcess ----------------------------
(***************************************************************************)
(* A git child as the program sees it through os/exec: it prints into a    *)
(* bounded pipe and blocks while the pipe is full, it ends well when it    *)
(* has printed all, or dies with the output cut anywhere.  What is in the  *)
(* pipe outlives it.  Only a child that has ended can be waited for.       *)
(***************************************************************************)
EXTENDS Naturals, Sequences

CONSTANTS
  Children,
  PipeCap      (* Tokens the pipe of a child holds.                        *)

ASSUME ChildAssumption == PipeCap \in Nat \ {0}

VARIABLES
  child,       (* "none", "running", "exited" or "died".                   *)
  script,      (* What each child has still to print.                      *)
  pipe         (* What it has printed and nobody has read.                 *)

childVars == <<child, script, pipe>>

ChildInit ==
  /\ child = [c \in Children |-> "none"]
  /\ script = [c \in Children |-> <<>>]
  /\ pipe = [c \in Children |-> <<>>]

(* cmd.Start                                                               *)
Start(c, output) ==
  /\ child' = [child EXCEPT ![c] = "running"]
  /\ script' = [script EXCEPT ![c] = output]
  /\ UNCHANGED pipe

Prints(c) ==
  /\ child[c] = "running"
  /\ script[c] # <<>>
  /\ Len(pipe[c]) < PipeCap
  /\ pipe' = [pipe EXCEPT ![c] = Append(@, Head(script[c]))]
  /\ script' = [script EXCEPT ![c] = Tail(@)]
  /\ UNCHANGED child

Exit(c) ==
  /\ child[c] = "running"
  /\ script[c] = <<>>
  /\ child' = [child EXCEPT ![c] = "exited"]
  /\ UNCHANGED <<script, pipe>>

(* The child crashes, or is killed, with the first part of its next token  *)
(* printed, or nothing of it.                                              *)
Die(c, part) ==
  /\ child[c] = "running"
  /\ part # <<>> => script[c] # <<>> /\ Len(pipe[c]) < PipeCap
  /\ child' = [child EXCEPT ![c] = "died"]
  /\ script' = [script EXCEPT ![c] = <<>>]
  /\ pipe' = [pipe EXCEPT ![c] = @ \o part]

(* cmd.Process.Kill, which does nothing to a child that has ended.         *)
Kill(c) ==
  /\ child' = [child EXCEPT ![c] = IF @ = "running" THEN "died" ELSE @]
  /\ script' = [script EXCEPT ![c] = <<>>]
  /\ UNCHANGED pipe

Ended(c) == child[c] \in {"exited", "died"}

(* What a read of the pipe returns once the child has ended.               *)
AtEOF(c) == Ended(c) /\ pipe[c] = <<>>

ReadFrom(c) == pipe' = [pipe EXCEPT ![c] = Tail(@)]

ChildTypeOK(Token) ==
  /\ child \in [Children -> {"none", "running", "exited", "died"}]
  /\ script \in [Children -> Seq(Token)]
  /\ pipe \in [Children -> Seq(Token)]
  /\ \A c \in Children : Len(pipe[c]) <= PipeCap
  /\ \A c \in Children : child[c] # "running" => script[c] = <<>>
=============================================================================
