------------------------------ MODULE Admission ------------------------------
(***************************************************************************)
(* What lets a request's transaction into ganychain as far as its bytes      *)
(* decide: IsValid, the getters and checkAuth of PutBulletin                 *)
(* (src/backend/backend.go), then IsValid and GetBulletinID in the           *)
(* application. The checks of the payment are in module PutBulletin.         *)
(*                                                                          *)
(* A request is a layout, whether the payment and the bulletin in it have    *)
(* valid fields, the type and author of the bulletin, the challenge that its *)
(* topic names by a hash (at most one), the proof, and the payment.          *)
(***************************************************************************)
EXTENDS TxLayout, AuthProof

CONSTANTS
    Requests,
    Trees       \* the sets of addresses: a Merkle root, and the path of each member

VARIABLES
    request,
    stage       \* how far it came, or why it ended

vars == <<request, stage>>

ASSUME AdmissionAssumption ==
    \A r \in Requests : r.layout \in Layout /\ IsProof(r.proof)

Init == request \in Requests /\ stage = "received"

-----------------------------------------------------------------------------

\* An empty field parses to an empty message, which has no valid fields.
IsValid(r) ==
    LET sp == GetStochasticPaymentBytes(r.layout)
        bulletin == GetBulletinBytes(r.layout)
    IN  /\ r.layout.len > HeaderLen
        /\ ~sp.err /\ ~IsEmpty(sp) /\ r.payOk
        /\ ~bulletin.err /\ ~IsEmpty(bulletin) /\ r.bulletinOk

\* GetAuthProof: no bytes are an empty proof.
GetAuthProof(r) == IF IsEmpty(GetAuthProofBytes(r.layout)) THEN NoProof ELSE r.proof

\* Steps 1 and 2 of PutBulletin.
CheckTx ==
    /\ stage = "received"
    /\ stage' = IF IsValid(request) /\ ~GetAuthProofBytes(request.layout).err
                THEN "parsed" ELSE "invalid"
    /\ UNCHANGED request

\* The types whose topic holds the hash of a challenge.
NeedsAuth(r) == r.type \in {"COMMENT", "COLUMN"}

AuthStage == [yes |-> "authorised", no |-> "denied", panic |-> "crashed"]

\* checkAuth. A panic ends the request, and the RPC server recovers from it. A topic
\* that is too short is sliced out of its range, or up to what its buffer holds.
CheckAuth ==
    /\ stage = "parsed"
    /\ LET proof == GetAuthProof(request)
           named == GenerateAuthChallenge(proof) \in request.named
       IN  \/ ~NeedsAuth(request) /\ stage' = "authorised"
           \/ /\ NeedsAuth(request) /\ named
              /\ stage' = AuthStage[CheckAuthProof(proof, request.from, request.pay)]
           \/ NeedsAuth(request) /\ ~named /\ stage' = "denied"
           \/ NeedsAuth(request) /\ request.named = {} /\ stage' = "crashed"
    /\ UNCHANGED request

\* The application checks the bytes again, and needs the id of the bulletin.
DeliverTx ==
    /\ stage = "authorised"
    /\ stage' = IF IsValid(request) /\ HasBulletinID(request.layout)
                THEN "stored" ELSE "refused"
    /\ UNCHANGED request

Next == CheckTx \/ CheckAuth \/ DeliverTx

Spec == Init /\ [][Next]_vars

-----------------------------------------------------------------------------
(* Properties.                                                              *)

\* A transaction that is stored was read as four fields, one after the other and
\* within its bytes, whatever lengths its header gives: the two offsets that are
\* summed in 32 bits (proto/tx.go:117, 145) did not wrap unnoticed.
StoredFieldsAreApart == stage = "stored" => ReadsAllFields(request.layout)

\* What a condition of a challenge asks for: the authenticator's signature under the
\* contract's call, an address of the set, or the payment.
Holds(challenge, number, r) ==
    LET calls == Len(challenge.dynamic)
        sets == Len(challenge.roots)
    IN  \/ /\ number \in 1 .. calls
           /\ \E i \in DOMAIN r.proof.dynamic :
                r.proof.dynamic[i] = [call |-> challenge.dynamic[number], signed |-> TRUE]
        \/ /\ number \in calls + 1 .. calls + sets
           /\ \E tree \in Trees :
                tree.root = challenge.roots[number - calls] /\ r.from \in DOMAIN tree.paths
        \/ /\ number \in calls + sets + 1 .. calls + sets + Len(challenge.pays)
           /\ challenge.pays[number - calls - sets] = r.pay

Entitled(challenge, r) ==
    \E g \in DOMAIN challenge.groups :
        LET group == challenge.groups[g]
        IN  group # << >> /\ \A i \in DOMAIN group : Holds(challenge, group[i], r)

\* Three groups, and every number is that of a condition.
WellFormed(challenge) ==
    LET last == Len(challenge.dynamic) + Len(challenge.roots) + Len(challenge.pays)
    IN  /\ Len(challenge.groups) = 3
        /\ \A g \in 1 .. 3 : \A i \in DOMAIN challenge.groups[g] :
              challenge.groups[g][i] \in 1 .. last

\* Nobody comments on a bulletin or writes in a column (backend.go:325-356) without
\* fulfilling a whole group of the conditions that its topic names: not with the
\* proof of another challenge, nor of another member, nor with part of a group.
AcceptedIsEntitled ==
    stage \in {"authorised", "stored"} /\ NeedsAuth(request) =>
        \E challenge \in request.named :
            WellFormed(challenge) => Entitled(challenge, request)

\* The evidence that a member of a set has: the path of its own leaf.
HasPaths(r) ==
    \A i \in DOMAIN r.proof.static : \A tree \in Trees :
        tree.root = r.proof.static[i].root /\ r.from \in DOMAIN tree.paths =>
            r.proof.static[i].path = tree.paths[r.from]

\* A transaction as CreateGanyTx makes it, with a proof for its topic.
Honest(r) ==
    /\ r.layout = CreateGanyTx(r.layout.lengths)
    /\ \A field \in {PAYMENT, BULLETIN, AUTH_PROOF} : r.layout.lengths[field] > 0
    /\ r.payOk /\ r.bulletinOk
    /\ r.named = {GenerateAuthChallenge(r.proof)}
    /\ HasPaths(r)

HonestAndEntitled(r) ==
    Honest(r) /\ \E challenge \in r.named : WellFormed(challenge) /\ Entitled(challenge, r)

\* The challenges that the code can check: no contracts' calls, which it never takes
\* to hold, no more payments than sets, and sets of up to two addresses.
Checkable(proof) ==
    /\ proof.dynamic = << >>
    /\ Len(proof.pays) <= Len(proof.static)
    /\ \A i \in DOMAIN proof.static : Len(proof.static[i].path) <= 1

Refusals == {"invalid", "denied", "crashed", "refused"}

\* Within those, who fulfils a group is let in, and no getter fails on the bytes of
\* an honest transaction, also where a field is empty (backend.go:67-110, app.go:380).
EntitledIsNotRefused ==
    HonestAndEntitled(request) /\ Checkable(request.proof) => stage \notin Refusals

\* "Either author himself/herself or eligible for payment" (backend_test.go:267): who
\* fulfils one of a challenge's groups is let in.
EntitledIsLetIn == HonestAndEntitled(request) => stage \notin Refusals
=============================================================================
