--------------------------- MODULE IndexerClient ----------------------------
(***************************************************************************)
(* From a certificate of a consensus instance to what the inspector shows: *)
(* the Pusher of src/chain/src/indexer.rs, the client library              *)
(* (src/client/src) and the inspector (src/inspector/src).  The indexer is *)
(* a service outside the repository: it keeps what is uploaded and answers *)
(* with something it has.                                                  *)
(*                                                                         *)
(* All instances of a validator upload to one indexer, where a path names  *)
(* a kind and a view, never an instance.                                   *)
(***************************************************************************)
EXTENDS Integers, Sequences

CONSTANTS
  Instances,        \* the consensus instances of the reporting validator
  Heights,          \* heights of blocks
  Views,            \* views, and heights, that are asked for
  Namespace,        \* what each instance signs under
  ClientNamespace,  \* NAMESPACE: what the client verifies under
  Foreign           \* what else the indexer may answer with

Kinds == {"seed", "notarization", "finalization", "block"}

\* A certificate for a block of an instance: the Activity the voter reports.
\* The block stands for its digest.
Block == [inst : Instances, height : Heights]
Certificate == [kind : {"notarization", "finalization"}, inst : Instances, view : Views, payload : Block]

\* What is uploaded, and what a request is answered with.
Seed(c) == [kind |-> "seed", view |-> c.view, ns |-> Namespace[c.inst],
            payload |-> "none", block |-> "none"]
WithBlock(c, b) == [kind |-> c.kind, view |-> c.view, ns |-> Namespace[c.inst],
                    payload |-> c.payload, block |-> b]
Bare(b) == [kind |-> "block", view |-> 0, ns |-> "none", payload |-> b, block |-> b]

VARIABLES
  reported,   \* certificates the Pusher was told of
  uploads,    \* <<certificate, "seed" or "block">> of its running tasks
  held,       \* what the indexer has
  inspector,  \* the inspector: its state, the kind and the queries left
  outcomes    \* <<query, answer, result>> of every request answered

vars == <<reported, uploads, held, inspector, outcomes>>

Idle == [pc |-> "idle", todo |-> <<>>, single |-> FALSE]

Init ==
  /\ reported = {}
  /\ uploads = {}
  /\ held = {}
  /\ inspector = Idle
  /\ outcomes = {}

-----------------------------------------------------------------------------
(* The Pusher. *)

\* Pusher::report: a task uploads the seed, another the block.
Report(c) ==
  /\ c \notin reported
  /\ reported' = reported \cup {c}
  /\ uploads' = uploads \cup {<<c, "seed">>, <<c, "block">>}
  /\ UNCHANGED <<held, inspector, outcomes>>

\* The task ends; what it uploads arrives, or it warns and gives up.
UploadSeed(c) ==
  /\ <<c, "seed">> \in uploads
  /\ uploads' = uploads \ {<<c, "seed">>}
  /\ held' \in {held, held \cup {Seed(c)}}
  /\ UNCHANGED <<reported, inspector, outcomes>>

\* marshal has the block the certificate is for, or cancels the subscription.
UploadBlock(c) ==
  /\ <<c, "block">> \in uploads
  /\ uploads' = uploads \ {<<c, "block">>}
  /\ held' \in {held, held \cup {WithBlock(c, c.payload), Bare(c.payload)}}
  /\ UNCHANGED <<reported, inspector, outcomes>>

-----------------------------------------------------------------------------
(* The client library. *)

\* A query: by index, the latest, or, of a block, by digest.
Query == [kind : Kinds, by : {"index"}, key : Views]
         \cup [kind : Kinds, by : {"latest"}, key : {0}]
         \cup [kind : {"block"}, by : {"digest"}, key : Block]

\* The type the answer is decoded as.
Expected(q) == IF q.kind = "block" /\ q.by # "digest" THEN "finalization" ELSE q.kind

\* Read for Notarized and Finalized: the proof is for the block.
Decodes(q, a) == a.kind = Expected(q) /\ a.payload = a.block

\* Seed::verify, Notarized::verify, Finalized::verify: of certificates.
Verifies(q, a) == q.by = "digest" \/ a.ns = ClientNamespace

\* The answer is to the query.
Matches(q, a) ==
  /\ q.by = "index" => IF q.kind = "block" THEN a.block.height = q.key ELSE a.view = q.key
  /\ q.by = "digest" => a.block = q.key

\* seed_get, notarized_get, finalized_get, block_get, once there is an answer.
Result(q, a) ==
  CASE ~Decodes(q, a)                                    -> "InvalidData"
    [] Decodes(q, a) /\ ~Verifies(q, a)                  -> "InvalidSignature"
    [] Decodes(q, a) /\ Verifies(q, a) /\ ~Matches(q, a) -> "UnexpectedResponse"
    [] OTHER                                             -> "ok"

-----------------------------------------------------------------------------
(* The inspector. *)

\* `get kind query` with one query, or an interval without its end.
GetOne(q) ==
  /\ inspector.pc = "idle"
  /\ inspector' = [pc |-> "get", todo |-> <<q>>, single |-> TRUE]
  /\ UNCHANGED <<reported, uploads, held, outcomes>>

\* parse_range: from start up to end, end left out.  An interval that ends
\* before it starts is no query.
GetRange(kind, start, end) ==
  /\ inspector.pc = "idle"
  /\ inspector' =
       IF start > end
       THEN [Idle EXCEPT !.pc = "panicked"]
       ELSE [pc |-> "get", single |-> FALSE,
             todo |-> [i \in 1 .. end - start |-> [kind |-> kind, by |-> "index", key |-> start + i - 1]]]
  /\ UNCHANGED <<reported, uploads, held, outcomes>>

\* A request fails or its answer is refused: `expect` ends the inspector, in
\* an interval it warns and goes on.
AfterError == IF inspector.single THEN [Idle EXCEPT !.pc = "panicked"]
              ELSE [inspector EXCEPT !.todo = Tail(@)]

\* The answer to the request at the head.
Answered(a) ==
  LET q == Head(inspector.todo)
  IN  /\ inspector.pc = "get" /\ inspector.todo # <<>>
      /\ outcomes' = outcomes \cup {<<q, a, Result(q, a)>>}
      /\ inspector' = IF Result(q, a) = "ok" THEN [inspector EXCEPT !.todo = Tail(@)] ELSE AfterError
      /\ UNCHANGED <<reported, uploads, held>>

\* No connection, or a status that is not success.
Failed ==
  /\ inspector.pc = "get" /\ inspector.todo # <<>>
  /\ inspector' = AfterError
  /\ UNCHANGED <<reported, uploads, held, outcomes>>

\* `listen`: every message comes through the websocket until one is refused.
Listen ==
  /\ inspector.pc = "idle"
  /\ inspector' = [Idle EXCEPT !.pc = "listening"]
  /\ UNCHANGED <<reported, uploads, held, outcomes>>

Pushed(a) ==
  LET q == [kind |-> a.kind, by |-> "latest", key |-> 0]
  IN  /\ inspector.pc = "listening" /\ a.kind # "block"
      /\ outcomes' = outcomes \cup {<<q, a, Result(q, a)>>}
      /\ inspector' = IF Result(q, a) = "ok" THEN inspector ELSE [Idle EXCEPT !.pc = "panicked"]
      /\ UNCHANGED <<reported, uploads, held>>

\* The command has ended; another one is started.
End ==
  /\ inspector.pc \in {"panicked", "get"} /\ inspector.todo = <<>>
  /\ inspector' = Idle
  /\ UNCHANGED <<reported, uploads, held, outcomes>>

Next ==
  \/ \E c \in Certificate : Report(c) \/ UploadSeed(c) \/ UploadBlock(c)
  \/ \E q \in Query : GetOne(q)
  \/ \E kind \in Kinds, start, end \in Views : GetRange(kind, start, end)
  \/ \E a \in held \cup Foreign : Answered(a) \/ Pushed(a)
  \/ Failed \/ Listen \/ End

Spec == Init /\ [][Next]_vars

-----------------------------------------------------------------------------

\* The inspector shows what a validator has uploaded: when the indexer answers
\* a query with the certificate that was uploaded for it, the client accepts
\* the answer.
\* ("Get the notarization for view 100", src/inspector/src/main.rs:30.)
UploadedIsAccepted ==
  \A o \in outcomes : o[2] \in held \ Foreign /\ Decodes(o[1], o[2]) /\ Matches(o[1], o[2]) => o[3] = "ok"

\* What the inspector shows is what was asked for, whatever the indexer
\* answers: it is for the view, the height or the digest of the query, and if
\* it is a certificate it is signed under the client's namespace for the very
\* block it comes with.
ShownAnswersQuery ==
  \A o \in outcomes :
    o[3] = "ok" => /\ o[2].kind = Expected(o[1]) /\ o[2].payload = o[2].block
                   /\ o[1].by # "digest" => o[2].ns = ClientNamespace
                   /\ o[1].by = "index" /\ o[1].kind # "block" => o[2].view = o[1].key
                   /\ o[1].by = "index" /\ o[1].kind = "block" => o[2].block.height = o[1].key
                   /\ o[1].by = "digest" => o[2].block = o[1].key
=============================================================================
