-------------------------- MODULE MCExpandDiscovery --------------------------
(* Small instances of ExpandDiscovery for TLC.                               *)
EXTENDS ExpandDiscovery

\* Seeds with more, fewer and no pages in one phase than in the other.
TwoSeeds == <<[followers |-> 2, following |-> 1], [followers |-> 1, following |-> 2]>>
ThreeSeeds == <<[followers |-> 1, following |-> 1], [followers |-> 2, following |-> 0],
                [followers |-> 0, following |-> 2]>>

SmallSeeds == <<[followers |-> 1, following |-> 1], [followers |-> 2, following |-> 0],
                [followers |-> 0, following |-> 1]>>

OneTwo == <<1, 2>>
OneTwoThree == <<1, 2, 3>>

\* Settings as the code leaves them, and as an operator may have.
NoSetting == {NoValue}
AnyIndex == {NoValue, -1, 1, 9}
AnyPage == {NoValue, -8, 0, 2}
ZeroOrTwo == {0, 2}

\* The list of seeds alone takes three calls in the run that has a budget.
NoCallLimit == {NoLimit}
FewOrManyCalls == {2, 12}
FiveCalls == {5}

=============================================================================
