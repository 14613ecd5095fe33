--------------------------- MODULE MCBulletinQuery ---------------------------
(***************************************************************************)
(* Small instances of BulletinQuery for TLC.                                *)
(***************************************************************************)
EXTENDS BulletinQuery

CONSTANTS t1, t2, alice, x, y, auth1, p1

\* The hashes of the two topics start with the same bytes.
MCPrefix == [e \in {t1, t2, alice} |-> p1]

New(topic, timestamp, duration) ==
    [type |-> 2, topic |-> topic, timestamp |-> timestamp, duration |-> duration,
     oldSn |-> NoSn, from |-> alice, content |-> x, auth |-> auth1]

MCSns == (1 .. MaxBlockTime) \X (0 .. MaxBlockTxs - 1)

\* Bulletins in and out of the period, of the topic and of another, and one that
\* expires; overwrites and deletions.
MCTxs ==
    {New(t1, 1, 9), New(t1, 2, 2), New(t1, 4, 9), New(t2, 1, 9)}
    \cup {[New(t1, 1, 9) EXCEPT !.oldSn = sn, !.content = c] :
            sn \in MCSns, c \in {y, NoContent}}

MCPeriods == {[type |-> 2, topic |-> t1, startTime |-> 1, endTime |-> 3]}

\* Timestamps of milliseconds: more than 5 bytes hold.
MCLongTxs == {New(t1, 1, 9), New(t1, TimeWidth + 2, 9)}
=============================================================================
