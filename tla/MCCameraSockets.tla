-------------------------- MODULE MCCameraSockets --------------------------
(* Who and what takes part in the behaviours of the runs of CameraSockets. *)
EXTENDS CameraSockets

CONSTANTS u1, u2, s1, s2

OneAtATime == {{"login"}, {"unlock"}, {"ending"}, {"query"}}

\* One operator with two CameraSockets; or two operators whose calls overlap more.
MCCasts ==
  {[users |-> {u1}, sockets |-> {s1, s2},
    together |-> OneAtATime \cup {{"unlock", "ending"}}],
   [users |-> {u1, u2}, sockets |-> {},
    together |-> OneAtATime \cup
      {{"unlock", "ending"}, {"login", "unlock"}, {"login", "ending"},
       {"login", "unlock", "ending"}}]}
=============================================================================
