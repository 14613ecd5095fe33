---------------------------- MODULE BulletinQuery ----------------------------
(***************************************************************************)
(* Querying the bulletins of a topic in a period (src/app/app.go:257-276,   *)
(* 514-586) while blocks are executed. A result is bounded; the code lets a *)
(* client go on by excluding the SNs that "have been got before". The client *)
(* here does that, page after page, until a page is empty; results carry no *)
(* SN, so it is one that follows the chain and knows them.                  *)
(***************************************************************************)
EXTENDS GanyApp, FiniteSets

CONSTANTS
    MaxQueryResultCount,    \* 255
    Periods                 \* what clients ask: type, topic, startTime, endTime

ASSUME QueryAssumption ==
    /\ MaxQueryResultCount \in Nat
    /\ Periods \subseteq
         [type : BulletinType, topic : Topics, startTime : Int, endTime : Int]

VARIABLES
    asked,    \* the periods a client is reading: one at most
    page,     \* the main keys of the bulletins it was given last, in their order
    got,      \* the SNs it excludes
    owed      \* what it could have read when it started, and has not been given

qvars == <<vars, asked, page, got, owed>>
readerVars == <<asked, page, got, owed>>

-----------------------------------------------------------------------------
(* queryBulletins.                                                          *)

\* The order of the reverse iteration among main keys of a type and a topic:
\* by Timestamp5, then by SN, the greatest first.
Precedes(k1, k2) ==
    \/ k1.head[3] > k2.head[3]
    \/ k1.head[3] = k2.head[3] /\ k1.sn[1] > k2.sn[1]
    \/ k1.head[3] = k2.head[3] /\ k1.sn[1] = k2.sn[1] /\ k1.sn[2] > k2.sn[2]

\* The live main keys from keyEnd back to keyStart.
KeysInPeriod(store, period, clock) ==
    {k \in DOMAIN store.entries :
        /\ Live(store.entries[k], clock)
        /\ k.head[1] = period.type
        /\ k.head[2] = Prefix[period.topic]
        /\ k.head[3] \in Low5(period.startTime) .. Low5(period.endTime)}

\* The iteration ends at the first excluded bulletin, or excludes none.
Unexcluded_Break(keys, excludeSNs) ==
    {k \in keys : \A j \in keys : j.sn \in excludeSNs => Precedes(k, j)}
Unexcluded_All(keys, excludeSNs) == keys

Unexcluded(keys, excludeSNs) == {k \in keys : k.sn \notin excludeSNs}

\* Bulletins of topics whose hashes start alike are not told apart.
OfTopic_Prefix(store, keys, topic) == keys

OfTopic(store, keys, topic) == {k \in keys : store.entries[k].tx.topic = topic}

\* How many keys the iteration meets before one.
Place(keys, k) == Cardinality({j \in keys : Precedes(j, k)})

InOrder(keys) ==
    [i \in 1 .. Cardinality(keys) |-> CHOOSE k \in keys : Place(keys, k) = i - 1]

\* The count is compared after a bulletin was added: one more than the maximum.
FirstResults(keys) == {k \in keys : Place(keys, k) <= MaxQueryResultCount}

queryBulletins(store, period, excludeSNs, clock) ==
    LET unexcluded == Unexcluded(KeysInPeriod(store, period, clock), excludeSNs)
    IN  InOrder(FirstResults(OfTopic(store, unexcluded, period.topic)))

-----------------------------------------------------------------------------
(* A client that reads a period to its end.                                 *)

\* What a reader is after: the bulletins the comment at app.go:514 describes.
Wanted(store, period, clock) ==
    {k \in DOMAIN store.entries :
        /\ Live(store.entries[k], clock)
        /\ LET tx == store.entries[k].tx
           IN  /\ tx.type = period.type
               /\ tx.topic = period.topic
               /\ tx.timestamp \in period.startTime .. period.endTime}

QInit ==
    /\ Init
    /\ asked = {}
    /\ page = << >>
    /\ got = {}
    /\ owed = {}

StartReading ==
    /\ asked = {}
    /\ \E period \in Periods :
        /\ asked' = {period}
        /\ owed' = Wanted(committed, period, now)
    /\ UNCHANGED <<vars, page, got>>

\* Each query reads the database as it is committed then.
ReadPage ==
    /\ \E period \in asked : page' = queryBulletins(committed, period, got, now)
    /\ page' # << >>
    /\ got' = got \cup {page'[i].sn : i \in DOMAIN page'}
    /\ owed' = owed \ {page'[i] : i \in DOMAIN page'}
    /\ UNCHANGED <<vars, asked>>

\* An empty page ends the reading.
StopReading ==
    /\ \E period \in asked : queryBulletins(committed, period, got, now) = << >>
    /\ asked' = {}
    /\ page' = << >>
    /\ got' = {}
    /\ owed' = {}
    /\ UNCHANGED vars

QNext ==
    \/ Next /\ UNCHANGED readerVars
    \/ StartReading
    \/ ReadPage
    \/ StopReading

\* The application answers queries, and Tendermint commits the blocks it begins.
QSpec ==
    /\ QInit
    /\ [][QNext]_qvars
    /\ WF_qvars(ReadPage)
    /\ WF_qvars(StopReading)

-----------------------------------------------------------------------------
(* Properties.                                                              *)

\* A reader that ends misses nothing: every bulletin of its period that could be
\* read from its first query to its last was given to it, whatever was committed,
\* overwritten, deleted or expired between two pages (app.go:514-515).
ReaderMissesNothing ==
    [][StopReading => \A k \in owed : ~Found(committed.entries, k, now)]_qvars

\* A page holds bulletins of the type, topic and period asked for, even when the
\* truncated hashes of two topics meet (app.go:563-566).
PageIsWanted ==
    [][ReadPage => \A period \in asked, i \in DOMAIN page' :
          page'[i] \in Wanted(committed, period, now)]_qvars

\* A reader comes to the end of its period: new bulletins are bounded by the blocks,
\* and each page takes some away.
ReadingEnds == asked # {} ~> asked = {}
=============================================================================
