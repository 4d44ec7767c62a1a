----------------------------- MODULE MCWebhook -----------------------------
(* A small instance of Webhook for TLC. *)
EXTENDS Webhook, TLC

CONSTANTS n1, n2

MCBlocks == n1 :> 2 @@ n2 :> 3

(* Digests of one byte. *)
Bodies   == {<< >>} \cup {Whole(n) : n \in Notes} \cup {<< << n1, 1 >> >>}
MCDigest == [b \in Bodies |-> IF b = Whole(n1) THEN << 171 >>
                              ELSE IF b = Whole(n2) THEN << 18 >> ELSE << 205 >>]

Length(n)          == [name |-> "length", value |-> n]
SignatureOf(body)  == [name |-> "X-Signature-256", value |-> HexEncode(MCDigest[body])]
(* "AB", the digest of n1 in capital letters, and a text that is not hex. *)
Capitals  == [name |-> "X-Signature-256", value |-> << 65, 66 >>]
NoHex     == [name |-> "X-Signature-256", value |-> << 122, 48 >>]
OtherCase == [name |-> "x-signature-256", value |-> << 97, 98 >>]

Request(n, method, path, headers, body) ==
  [note |-> n, method |-> method, path |-> path, headers |-> headers, body |-> body]

Post(n, headers) == Request(n, "POST", "endpoint", headers, Whole(n))

(* n1 calls itself an order but lacks an order's fields. *)
MCType == n1 :> "new_order" @@ n2 :> "absent"
MCFits == n1 :> {} @@ n2 :> {}

(* A right request with two lengths and a signature in capitals; a wrong   *)
(* method, a wrong path; a signature under another spelling of the name,   *)
(* one that is no hex; a length that is too small, with the signature of   *)
(* the whole and with that of the part, which is no JSON; and a note that  *)
(* is larger than allowed.                                                 *)
MCTries ==
  { Post(n1, << Capitals, Length(0), Length(2) >>),
    Request(n1, "GET", "endpoint", << >>, << >>),
    Request(n1, "POST", "elsewhere", << >>, << >>),
    Post(n1, << OtherCase, Length(2) >>), Post(n1, << NoHex, Length(2) >>),
    Post(n1, << SignatureOf(Whole(n1)), Length(1) >>),
    Post(n1, << SignatureOf(<< << n1, 1 >> >>), Length(1) >>),
    Post(n2, << SignatureOf(Whole(n2)), Length(3) >>) }
=============================================================================
