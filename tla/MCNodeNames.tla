---------------------------- MODULE MCNodeNames ----------------------------
(* Instances of NodeNames for TLC. *)
EXTENDS NodeNames, TLC

CONSTANTS a, b, n1, n2

Node(i, long, short) == [id |-> i, names |-> ("long" :> long @@ "short" :> short)]

(* Complete, incomplete and contradictory NodeDBs of two nodes.            *)
SomeNodeDBs ==
    { <<>>,
      <<Node(a, n1, n1)>>,
      <<Node(a, n2, n1), Node(b, n1, n1)>>,
      <<Node(a, None, n1)>>,
      <<Node(a, None, n1), Bad>>,
      <<Node(a, Bad, n2), Node(b, n2, n1)>>,
      <<Node(a, n1, n1), Node(a, n2, n1)>>,
      <<Node(a, n1, None), Node(a, n2, None), Node(b, n1, None)>> }

(* Every NodeDB of three rows for one node.                                *)
DuplicateNodeDBs ==
    [1..3 -> [id : {a}, names : [Fields -> {n1, n2, None}]]]

=============================================================================
