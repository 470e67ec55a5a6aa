----------------------------- MODULE MCFeedback -----------------------------
(***************************************************************************)
(* alice and bob rate their own jobs; a third post names bob as its user   *)
(* and carries the token of alice, for the job of bob.                     *)
(***************************************************************************)
EXTENDS Feedback

MCTokens == [ta |-> "alice", tb |-> "bob"]
Head(scheme, user, token) ==
  [scheme |-> scheme, user |-> user, token |-> token, requester |-> None]
MCHeaders ==
  [f \in Posts |-> CASE f = "alice" -> Head("bearer", None, "ta")
                     [] f = "bob" -> Head("basic", "bob", "tb")
                     [] OTHER -> Head("basic", "bob", "ta")]
MCJob == [f \in Posts |-> IF f = "alice" THEN "ja" ELSE "jb"]
MCJobOwner == [ja |-> "alice", jb |-> "bob"]
(* Both jobs ran on the same node and model. *)
MCServed == [ja |-> "far/m", jb |-> "far/m"]
==============================================================================
