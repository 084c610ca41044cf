---------------------------- MODULE MCProfileBundles ----------------------------
(***************************************************************************)
(* ProfileBundles for TLC: a handful of documents, each there for a case    *)
(* the gateway or the publisher tells apart.                                *)
(***************************************************************************)
EXTENDS ProfileBundles

CONSTANTS u1, t1, t2, base, child, k1, m1, m2

All == {<<u1, Any>>}
One == {<<u1, t1>>}
Other == {<<u1, t2>>}
P(extends, visible, callable) == [extends |-> extends, visible |-> visible, callable |-> callable]
Alone(profile) == [profiles |-> [n \in {base} |-> profile], default |-> base]
Pair(root, leaf) == [profiles |-> [n \in {base, child} |-> IF n = base THEN root ELSE leaf],
                     default |-> child]

Narrowed == Pair(P(None, All, One), P(base, One, None))
ShowsOnly == Alone(P(None, All, None))
Cyclic == Pair(P(child, All, One), P(base, One, None))
Uncovered == Alone(P(None, One, Other))
Content0(document, ceiling, audience, list) ==
    [document |-> document, ceiling |-> ceiling, audience |-> audience, crl |-> list]

SomeContents == {Content0(Narrowed, All, {Here}, TRUE), Content0(ShowsOnly, All, {Here}, FALSE)}
SomeRawFiles ==
    {Alone(P(None, All, All)), Pair(P(None, One, One), P(None, None, One)), Cyclic, Uncovered}

OneSigner == {<<k1, m1>>}
================================================================================
