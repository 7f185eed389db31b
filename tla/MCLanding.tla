------------------------------ MODULE MCLanding ------------------------------
(* Small instances of Landing: the option sets of the commands. *)
EXTENDS Landing
Opt(retry, accept, push) == [retry |-> retry, accept |-> accept, push |-> push]
NoOptions  == {}
AllOptions == {Opt(FALSE, FALSE, TRUE), Opt(TRUE, FALSE, TRUE), Opt(FALSE, TRUE, TRUE)}
=============================================================================
