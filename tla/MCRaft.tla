--------------------------------- MODULE MCRaft ---------------------------------
(***************************************************************************)
(* Raft with histories of three terms in which leaders lose entries that   *)
(* were not committed.                                                     *)
(***************************************************************************)
EXTENDS Raft

CONSTANTS a, b, k

Put == [op |-> "put", key |-> k]
Delete == [op |-> "delete", key |-> k]
NoOp == [op |-> "noop", key |-> k]

E(t, c) == [term |-> t, command |-> c]

MCPeers == {a, b}

\* The leader of term 2 replaces two entries of term 1 that nobody committed, and
\* the leader of term 3 one of term 2.
Overwritten ==
    [leader |-> <<a, b, a>>,
     log |-> << <<E(1, Put), E(1, Delete), E(1, NoOp)>>,
                <<E(1, Put), E(2, NoOp), E(2, Delete)>>,
                <<E(1, Put), E(2, NoOp), E(3, Put)>> >>,
     committed |-> <<1, 2, 3>>]

\* The first entry itself was never committed.
Lost ==
    [leader |-> <<a, b, b>>,
     log |-> << <<E(1, Delete)>>,
                <<E(2, Put), E(2, NoOp)>>,
                <<E(2, Put), E(3, Delete), E(3, Put)>> >>,
     committed |-> <<0, 1, 2>>]

\* Nothing of terms 1 and 2 was committed: a request of term 3 may meet an entry of term
\* 1 after which the log goes on in term 2.
Abandoned ==
    [leader |-> <<a, b, a>>,
     log |-> << <<E(1, Put)>>,
                <<E(1, Put), E(2, Delete)>>,
                <<E(3, NoOp), E(3, Put)>> >>,
     committed |-> <<0, 0, 1>>]

MCHistories == {Overwritten, Lost, Abandoned}

================================================================================
