---------------------------- MODULE MCGanyReplicas ----------------------------
(***************************************************************************)
(* A small instance of GanyReplicas for TLC.                                *)
(***************************************************************************)
EXTENDS GanyReplicas

CONSTANTS t1, t2, alice, bob, carol, x, y, auth1, auth2, p1, p2, p3

\* alice and carol have addresses with the same first 8 bytes.
MCPrefix == [e \in {t1, t2, alice, bob, carol} |->
    CASE e = t1 -> p1 [] e = t2 -> p2 [] e = bob -> p2 [] OTHER -> p3]

BLOG == 2

New(topic, duration, from) ==
    [type |-> BLOG, topic |-> topic, timestamp |-> 1, duration |-> duration,
     oldSn |-> NoSn, from |-> from, content |-> x, auth |-> auth1]

Short == New(t1, 2, alice)     \* expires at 2 where it was created at 1
Shadow == New(t1, 2, carol)    \* the same main key head and prefix
Overflow == New(t2, 8, bob)     \* its time to live overflows

Over(tx, index) == [tx EXCEPT !.oldSn = <<1, index>>]

\* Creations that meet in one second, a version and a deletion by the author, and a
\* version with the other authentication.
MCTxs ==
    {Short, Shadow, Overflow,
     [Over(Short, 0) EXCEPT !.content = y],
     [Over(Short, 0) EXCEPT !.content = NoContent],
     [Over(Overflow, 1) EXCEPT !.auth = auth2]}
=============================================================================
