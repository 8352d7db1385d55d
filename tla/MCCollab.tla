------------------------------ MODULE MCCollab ------------------------------
EXTENDS Collab, TLC
CONSTANTS a, b, ua, ub
OwnTabs == (a :> ua) @@ (b :> ub)        \* two people
SharedJournal == (a :> ua) @@ (b :> ua)  \* two tabs of one person
Swapped == (a :> b) @@ (b :> a) @@ (ua :> ub) @@ (ub :> ua)
Same == (a :> a) @@ (b :> b) @@ (ua :> ua) @@ (ub :> ub)
Symmetric == {p @@ q : p \in Permutations(Node), q \in {Swapped, Same}}
AllSymmetric == {p @@ q : p \in Symmetric, q \in Permutations(Edit)}
=============================================================================
