------------------------------ MODULE MCGraphRun ------------------------------
(***************************************************************************)
(* Small instances of GraphRun for TLC: the shapes of the definitions.     *)
(***************************************************************************)
EXTENDS GraphRun, TLC

None == [n \in Node |-> {}]
AllWork == [n \in Node |-> "work"]

\* 1 chooses; 2 must not be repeated, 3 waits for a person or times out to 4,
\* which joins whatever ran and may fail without consequence
Choice == [kind |-> <<"condition", "work", "boundary", "work">>,
           edges |-> {<<1, 2>>, <<1, 3>>, <<2, 4>>, <<3, 4>>}, back |-> {},
           join |-> <<"all", "all", "all", "join_required">>,
           class |-> <<"pure", "non_idempotent", "pure", "idempotent">>,
           policy |-> <<"fail", "fail", "fail", "skip">>,
           branches |-> <<{{2}, {3}, {2, 3}}, {{4}}, {{4}, {}}, {{}}>>,
           late |-> [None EXCEPT ![3] = {4}]]

\* 1, then the body 2 of the loop 3, and 4 if the loop reaches its limit
Looping == [kind |-> <<"work", "work", "loop", "work">>,
            edges |-> {<<1, 2>>, <<2, 3>>, <<3, 4>>}, back |-> {<<3, 2>>},
            join |-> [n \in Node |-> "all"],
            class |-> <<"pure", "non_idempotent", "pure", "idempotent">>,
            policy |-> [n \in Node |-> "fail"],
            branches |-> <<{{2}}, {{3}}, {{}}, {{}}>>,
            late |-> [None EXCEPT ![3] = {4}]]

\* Two at once: the first to finish lets 3 run, 4 needs no input
Racing == [kind |-> AllWork, edges |-> {<<1, 3>>, <<2, 3>>, <<2, 4>>}, back |-> {},
           join |-> <<"all", "all", "any", "join">>,
           class |-> <<"non_idempotent", "non_idempotent", "pure", "pure">>,
           policy |-> <<"skip", "manual", "fail", "fail">>,
           branches |-> <<{{3}}, {{3, 4}}, {{}}, {{}}>>,
           late |-> None]

Shapes == {Choice, Looping, Racing}

\* A loop that comes first in the order of the nodes: either 2 or 3 lets it
\* look at its body
Slotted == [kind |-> <<"loop", "work", "work", "work">>,
            edges |-> {<<2, 1>>, <<3, 1>>, <<1, 4>>}, back |-> {<<1, 2>>, <<1, 3>>},
            join |-> <<"any", "all", "all", "all">>,
            class |-> [n \in Node |-> "pure"], policy |-> [n \in Node |-> "fail"],
            branches |-> <<{{}}, {{1}}, {{1}}, {{}}>>,
            late |-> [None EXCEPT ![1] = {4}]]
Slots == {Slotted}
=============================================================================
