----------------------------- MODULE MCAgentScan ----------------------------
(* Small instances of AgentScan.  With two files a small and a large one    *)
(* are written to, and the roots change.  With three a file shrinks until   *)
(* it goes into a pack with another, and the roots stay.                   *)
EXTENDS AgentScan

CONSTANTS a, b, c, ra, rb

MCFilesOf == [r \in Root |-> IF r = ra THEN <<a, b>> ELSE IF c \in File THEN <<c>> ELSE <<>>]
WrittenTo == [f \in File |-> IF f = a THEN <<1, 1>> ELSE <<2, 3>>]
Shrinking == [f \in File |-> IF f = a THEN <<1, 1>> ELSE IF f = b THEN <<2, 1>> ELSE <<2>>]
BothRoots == {<<ra, rb>>}
AnyRoots  == {<<ra>>, <<ra, rb>>}
=============================================================================
