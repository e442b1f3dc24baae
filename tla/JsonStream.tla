----------------------------- MODULE JsonStream -----------------------------
(***************************************************************************)
(* The values that travel on a connection and what coder.JsonCoder makes   *)
(* of them.  A connection carries a stream of JSON values; nothing but     *)
(* their order tells a header from a body, so a reader that is one value   *)
(* off decodes a body as a header and a header as a body.  A value is      *)
(* abstracted to the facts a decoder can tell apart: whether it is a       *)
(* MessageHeader, and whether it is a JSON object or a scalar.             *)
(***************************************************************************)
EXTENDS Naturals, Sequences

\* coder.MessageHeader: `error' stands for header.Error # "".
Header(n, m, e) == [type |-> "header", seq |-> n, method |-> m, error |-> e]

\* A request or response body: the calls it carries data of, and its shape.
Body(d, s) == [type |-> "body", data |-> d, shape |-> s]

\* The data of a value decoded into a struct with none of its fields set.
ZeroData == {}

\* What is left of a value whose first bytes another decoder has read.
Fragment == [type |-> "fragment"]

\* invalidRequest, the body `{}' of every error response.
InvalidRequest == Body(ZeroData, "object")

\* The header a JSON object without any of the header's fields decodes to.
ZeroHeader == Header(0, "", FALSE)

Shape(t) == IF t.type = "header" THEN "object" ELSE t.shape

-----------------------------------------------------------------------------
\* DecodeMessageHeader: a scalar, or the rest of a cut value, is an error.
HeaderDecodes(t) == t.type # "fragment" /\ Shape(t) = "object"

DecodedHeader(t) == IF t.type = "header" THEN t ELSE ZeroHeader

\* DecodeMessageBody into a value of shape s.
BodyDecodes(t, s) == t.type # "fragment" /\ Shape(t) = s

DecodedBody(t) == IF t.type = "header" THEN ZeroData ELSE t.data

\* What a decoder leaves of the stream s when it is dropped, having read up to
\* k values ahead.  The cut may fall inside a value.
ReadAhead(s, k) ==
    LET Reach == {n \in 0 .. Len(s) : n <= k}
    IN  {SubSeq(s, n + 1, Len(s)) : n \in Reach}
          \cup {<<Fragment>> \o SubSeq(s, n + 2, Len(s)) :
                 n \in {m \in Reach : m < Len(s) /\ m < k}}
=============================================================================
