------------------------------ MODULE MCGanyApp ------------------------------
(***************************************************************************)
(* Small instances of GanyApp for TLC.                                      *)
(***************************************************************************)
EXTENDS GanyBoard

CONSTANTS t1, t2, alice, bob, carol, x, y, auth1, auth2, p1, p2, p3

\* alice and carol have addresses with the same first 8 bytes.
MCPrefix == [e \in {t1, t2, alice, bob, carol} |->
    CASE e = t1 -> p1 [] e = t2 -> p2 [] e = bob -> p2 [] OTHER -> p3]

BLOG == 2

New(type, topic, timestamp, duration, from) ==
    [type |-> type, topic |-> topic, timestamp |-> timestamp,
     duration |-> duration, oldSn |-> NoSn, from |-> from, content |-> x,
     auth |-> auth1]

Short == New(BLOG, t1, 1, 3, alice)    \* expires by its Duration
Long == New(BLOG, t2, 2, 9, bob)       \* capped by MaxTTL
Shadow == New(BLOG, t1, 1, 3, carol)   \* the same main key head and prefix
Past == New(CENSOR, t1, 1, 1, bob)     \* gets MinTTL, and may be old
Empty == [Short EXCEPT !.content = NoContent]

Overwrites(tx, sns) ==
    UNION {{[tx EXCEPT !.oldSn = sn, !.content = y],
            [tx EXCEPT !.oldSn = sn, !.content = NoContent]} : sn \in sns}

MCSns == (1 .. MaxBlockTime) \X (0 .. MaxBlockTxs - 1)

\* Creations, and overwrites of any of them by its author, by the author with the
\* same prefix, with another authentication and with another duration.
MCTxs ==
    {Short, Long, Past, Shadow, Empty}
    \cup Overwrites(Short, MCSns) \cup Overwrites(Shadow, MCSns)
    \cup {[Short EXCEPT !.oldSn = sn, !.auth = auth2] : sn \in MCSns}
    \cup {[Short EXCEPT !.oldSn = sn, !.duration = 4] : sn \in MCSns}
=============================================================================
