------------------------------ MODULE AisRelay -------------------------------
(***************************************************************************)
(* The positions of vessels on their way to the public map: AIS-catcher    *)
(* posts its messages to ais_forwarder.py, which posts them to the ingest  *)
(* lambda of ais_live.py; that puts the public snapshot in S3 and posts it *)
(* to every connection of the table.  The forwarder gives up after 30      *)
(* seconds while the lambda goes on; a browser may vanish without its      *)
(* $disconnect, and then a post to it raises and ends the lambda.          *)
(***************************************************************************)
EXTENDS Naturals, FiniteSets, Sequences, SequencesExt

CONSTANTS Browsers,
          Mmsis,          \* vessels
          Ages,           \* how long ago a position may have been seen
          MaxStaleness, MaxVessels,
          MaxMessages,    \* bound: positions of one post
          MaxPosts,       \* bound: posts of AIS-catcher
          MaxTimeouts     \* bound: posts on which the forwarder gives up

VARIABLES sender,     \* the post AIS-catcher waits for: "none", "sent", "ok", "failed"
          post,       \* its number
          lambda,     \* for every post, the lambda that handles it
          object,     \* the post whose snapshot is in S3
          table,      \* connection ids in DynamoDB
          open,       \* browsers whose connection is open
          shown,      \* the post whose snapshot each browser shows
          joined,     \* ghost: the post after which each browser was registered
          timeouts

vars == <<sender, post, lambda, object, table, open, shown, joined, timeouts>>

Positions == [mmsi : Mmsis, age : Ages, inside : BOOLEAN]
NoLambda == [pc |-> "none", payload |-> <<>>, todo |-> {}]

Init ==
    /\ sender = "none" /\ post = 0
    /\ lambda = [n \in 1 .. MaxPosts |-> NoLambda]
    /\ object = 0
    /\ table = {} /\ open = {}
    /\ shown = [b \in Browsers |-> 0]
    /\ joined = [b \in Browsers |-> 0]
    /\ timeouts = 0

-----------------------------------------------------------------------------
(* public_ais_snapshot.                                                    *)

\* _sanitize_vessel: in the box and not stale.
Usable(p) == p.inside /\ p.age <= MaxStaleness
Kept(payload) == {i \in DOMAIN payload : Usable(payload[i])}

\* The first position of every vessel among the given ones.
FirstOfEach(payload, places) ==
    {payload[i] : i \in {j \in places :
        \A h \in places : h < j => payload[h].mmsi # payload[j].mmsi}}

Newer(p, q) == p.age < q.age \/ (p.age = q.age /\ p.mmsi > q.mmsi)

\* The newest MaxVessels.
Cut(vessels) ==
    {p \in vessels : Cardinality({q \in vessels : Newer(q, p)}) < MaxVessels}

\* Mutant: stale positions are left out after the first of each vessel was taken.
SnapshotOfStale(payload) ==
    Cut({p \in FirstOfEach(payload, DOMAIN payload) : Usable(p)})

Snapshot(payload) == Cut(FirstOfEach(payload, Kept(payload)))

-----------------------------------------------------------------------------
(* AIS-catcher and the forwarder: one post at a time.                      *)

Send(payload) ==
    /\ sender # "sent" /\ post < MaxPosts
    /\ sender' = "sent" /\ post' = post + 1
    /\ lambda' = [lambda EXCEPT ![post + 1] = [pc |-> "put", payload |-> payload, todo |-> {}]]
    /\ UNCHANGED <<object, table, open, shown, joined, timeouts>>

\* The forwarder's read times out, and AIS-catcher gets an error.
TimeOut ==
    /\ sender = "sent" /\ timeouts < MaxTimeouts
    /\ sender' = "failed" /\ timeouts' = timeouts + 1
    /\ UNCHANGED <<post, lambda, object, table, open, shown, joined>>

\* The answer reaches AIS-catcher if it still waits for it.
Answer(n, answer) == sender' = IF sender = "sent" /\ post = n THEN answer ELSE sender

-----------------------------------------------------------------------------
(* ais_http_ingest_handler.                                                *)

PutObject(n) ==
    /\ lambda[n].pc = "put"
    /\ object' = n
    /\ lambda' = [lambda EXCEPT ![n].pc = "scan", ![n].payload = <<>>]
    /\ UNCHANGED <<sender, post, table, open, shown, joined, timeouts>>

\* _connection_ids_from_table
Scan(n) ==
    /\ lambda[n].pc = "scan"
    /\ lambda' = [lambda EXCEPT ![n].pc = "post", ![n].todo = table]
    /\ UNCHANGED <<sender, post, object, table, open, shown, joined, timeouts>>

\* post_to_connection: it raises when the browser is gone.
Post(n, b) ==
    /\ lambda[n].pc = "post" /\ b \in lambda[n].todo
    /\ IF b \in open
       THEN /\ shown' = [shown EXCEPT ![b] = n]
            /\ lambda' = [lambda EXCEPT ![n].todo = @ \ {b}]
            /\ UNCHANGED sender
       ELSE /\ lambda' = [lambda EXCEPT ![n] = NoLambda]
            /\ Answer(n, "failed")
            /\ UNCHANGED shown
    /\ UNCHANGED <<post, object, table, open, joined, timeouts>>

Accept(n) ==
    /\ lambda[n].pc = "post" /\ lambda[n].todo = {}
    /\ lambda' = [lambda EXCEPT ![n] = NoLambda]
    /\ Answer(n, "ok")
    /\ UNCHANGED <<post, object, table, open, shown, joined, timeouts>>

-----------------------------------------------------------------------------
(* ais_websocket_handler; every connection has an id of its own.           *)

Connect(b) ==
    /\ b \notin open \cup table /\ shown[b] = 0
    /\ open' = open \cup {b} /\ table' = table \cup {b}
    /\ joined' = [joined EXCEPT ![b] = post]
    /\ UNCHANGED <<sender, post, lambda, object, shown, timeouts>>

\* The browser goes; its $disconnect may be lost.
Close(b) ==
    /\ b \in open
    /\ open' = open \ {b}
    /\ table' \in {table, table \ {b}}
    /\ UNCHANGED <<sender, post, lambda, object, shown, joined, timeouts>>

\* expires_at
Expire(b) ==
    /\ b \in table
    /\ table' = table \ {b}
    /\ UNCHANGED <<sender, post, lambda, object, open, shown, joined, timeouts>>

-----------------------------------------------------------------------------
\* When AIS-catcher is told that a post was accepted, the snapshot in S3 and the
\* one of every browser that was registered before the post and still is are not
\* older than it, as long as no post timed out: a lambda that goes on after its
\* post was given up may overwrite what is newer.
AcceptedIsShown ==
    sender = "ok" /\ timeouts = 0 =>
        /\ object = post
        /\ \A b \in open \cap table : joined[b] < post => shown[b] = post

\* The snapshot that a post will show is one usable position per vessel, and a vessel
\* with a usable position is left out only for want of room, if the others were not seen
\* before it (public_ais_snapshot).
IsSnapshotOf(vessels, payload) ==
    /\ \A p \in vessels : p \in ToSet(payload) /\ Usable(p)
    /\ \A p, q \in vessels : p.mmsi = q.mmsi => p = q
    /\ Cardinality(vessels) <= MaxVessels
    /\ \A p \in ToSet(payload) : Usable(p) =>
          \/ \E v \in vessels : v.mmsi = p.mmsi
          \/ /\ Cardinality(vessels) = MaxVessels
             /\ \E q \in ToSet(payload) : /\ q.mmsi = p.mmsi /\ Usable(q)
                                          /\ \A v \in vessels : v.age <= q.age

SnapshotsAreRight ==
    \A n \in 1 .. MaxPosts : lambda[n].pc = "put" =>
        IsSnapshotOf(Snapshot(lambda[n].payload), lambda[n].payload)
=============================================================================
