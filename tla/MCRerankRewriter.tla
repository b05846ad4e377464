--------------------------- MODULE MCRerankRewriter ---------------------------
(***************************************************************************)
(* Instances of RerankRewriter.  Three surfaces are enough for a candidate *)
(* below another two and for one past the cap; the conversions have one    *)
(* segment or two, a duplicate candidate, readings the guard lets through  *)
(* or not, and text near the cursor, farther than DegradedChars, or none.  *)
(***************************************************************************)
EXTENDS RerankRewriter

CONSTANTS t1, t2, a, b, c

Conv(len, listed, at, lists) ==
  [reading |-> [len |-> len, listed |-> listed], textAt |-> at, segs |-> lists]

Eligible == Conv(3, TRUE, 1, <<<<a, b, c>>>>)
TwoSegments == Conv(4, TRUE, 2, <<<<a, b>>, <<b, a>>>>)
FarContext == Conv(5, TRUE, 3, <<<<a, b, a>>>>)
ShortReading == Conv(2, TRUE, 1, <<<<b, a>>>>)
Unlisted == Conv(6, FALSE, 1, <<<<a, c>>>>)
NoSegment == Conv(3, TRUE, 1, <<>>)
NoCandidate == Conv(3, TRUE, 1, <<<<a>>, <<>>>>)
EmptyReading == Conv(0, FALSE, 1, <<<<a, b>>>>)

AllRequests == {Eligible, TwoSegments, FarContext, ShortReading, Unlisted,
                NoSegment, NoCandidate, EmptyReading}
CallRequests == {Eligible, FarContext}

(* Any ranking without repetition, and one that repeats a surface.         *)
Rankings == {s \in UNION {[1..n -> Surfaces] : n \in 1..3} :
               \A i, j \in DOMAIN s : s[i] = s[j] => i = j} \cup {<<b, b, a>>}

Reply(r, top, over) == [ranked |-> r, final_top1 |-> top, overwritten |-> over]

AnyReplies == {Reply(r, r[1], over) : r \in Rankings, over \in BOOLEAN}
OneReply == {Reply(<<b, a>>, b, TRUE)}
================================================================================
