---------------------------- MODULE AncestorWire ----------------------------
(***************************************************************************)
(* The messages validators exchange to fetch ancestors: AncestorFetcher of *)
(* src/chain/src/application/actor.rs, and what its hand-written codec     *)
(* makes of them.  A message on the wire is a sequence of fields: variant, *)
(* id, count, and then one field per digest or block.                      *)
(***************************************************************************)
EXTENDS Naturals, Sequences

Request(id, digests) == [kind |-> "request", id |-> id, items |-> digests]
Response(id, blocks) == [kind |-> "response", id |-> id, items |-> blocks]
DecodeError == [kind |-> "error", id |-> 0, items |-> << >>]

\* AncestorFetcher::encode: variant 0 or 1, then the message's own encoding.
Encode(m) == <<IF m.kind = "request" THEN 0 ELSE 1, m.id, Len(m.items)>> \o m.items

\* Request::decode reads `count` digests and ignores what follows them.
DecodeRequest(id, count, rest) ==
  IF count <= Len(rest) THEN Request(id, SubSeq(rest, 1, count)) ELSE DecodeError

\* Response::decode calls Block::decode on all that is left of the message,
\* which accepts one block and nothing after it.  So it fails on the first of
\* several blocks, and on the second if there is one only.
DecodeResponse(id, count, rest) ==
  IF count = 0 THEN Response(id, << >>)
  ELSE IF count = 1 /\ Len(rest) = 1 THEN Response(id, rest)
  ELSE DecodeError

\* AncestorFetcher::decode: variant, id and count must be there.
Decode(fields) ==
  IF Len(fields) < 3 \/ fields[1] \notin {0, 1} THEN DecodeError
  ELSE LET rest == SubSeq(fields, 4, Len(fields))
       IN  IF fields[1] = 0 THEN DecodeRequest(fields[2], fields[3], rest)
           ELSE DecodeResponse(fields[2], fields[3], rest)
=============================================================================
