---------------------------- MODULE ConfigWatch ----------------------------
(***************************************************************************)
(* What the config center promises to the nodes that watch one item name   *)
(* (configcenter/node.go, the documentation of WatchConfig and DeleteItem):*)
(* version numbers are never reused, also not by an item deleted and       *)
(* created again, and a node that receives a version receives content that *)
(* was published under that number and is newer than what it holds.        *)
(***************************************************************************)
EXTENDS Naturals

CONSTANT Nodes

VARIABLES
    published,   \* every version ever published: records of item id and version
    current,     \* the published version, NoVersion when there is none
    got          \* what each node received last, NoVersion at first

NoVersion == [id |-> 0, ver |-> 0]

vars == <<published, current, got>>

Init ==
    /\ published = {}
    /\ current = NoVersion
    /\ got = [n \in Nodes |-> NoVersion]

\* A new version is published, under a number above every earlier one.
Publish ==
    \E v \in published' :
        /\ v.ver > 0 /\ \A p \in published : p.ver < v.ver
        /\ published' = published \cup {v}
        /\ current' = v
        /\ UNCHANGED got

\* The item is deleted; what was published under its name is not forgotten.
Delete ==
    /\ current' = NoVersion
    /\ UNCHANGED <<published, got>>

\* A node is told of a version newer than the one it holds.
Tell(n) ==
    \E v \in published :
        /\ v.ver > got[n].ver
        /\ got' = [got EXCEPT ![n] = v]
        /\ UNCHANGED <<published, current>>

Next == Publish \/ Delete \/ \E n \in Nodes : Tell(n)

Spec == Init /\ [][Next]_vars

=============================================================================
