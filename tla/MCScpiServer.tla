-------------------------- MODULE MCScpiServer --------------------------
(* Instances of ScpiServer: sets of command lines for the runs.            *)
EXTENDS ScpiServer, TLC

\* The shortest lines of the python client: a text command with a short
\* answer, and the three transfers.
LinkLines == {<<"short">>, <<"adc">>, <<"ldm">>, <<"rdm">>}
\* An answer that fits one write, one that is waited for and cut into writes,
\* and none.
LiveLines == {<<"short">>, <<"ldm">>, <<"mute">>}

ASSUME \A l \in LinkLines \cup LiveLines : LinkLine(l) /\ BinaryFirst(l)

\* Two lines of each client; or two of one, which may be glued, and one of the
\* other.
TwoEach == [c \in Conns |-> 2]
TwoAndOne == [c \in Conns |-> IF c = CHOOSE d \in Conns : TRUE THEN 2 ELSE 1]

ConnSymmetry == Permutations(Conns)
=============================================================================
