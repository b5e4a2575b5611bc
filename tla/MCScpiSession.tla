-------------------------- MODULE MCScpiSession --------------------------
(* Instances of ScpiSession: sets of command lines for the runs.           *)
EXTENDS ScpiSession, TLC

\* Every kind of call that has an answer.
CallLines == {<<"short">>, <<"text", "short">>, <<"adc">>, <<"ldm">>, <<"rdm">>}
\* A text command and a frame, for two clients at once.
FewLines == {<<"short">>, <<"adc">>}

ASSUME \A l \in CallLines \cup FewLines : LinkLine(l)

TwoEach == [c \in Conns |-> 2]

ConnSymmetry == Permutations(Conns)
=============================================================================
