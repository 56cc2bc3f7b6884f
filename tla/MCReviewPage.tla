---------------------------- MODULE MCReviewPage ----------------------------
(* The older review's panel has a reply and a summary to say and is scripted: *)
(* four events are dated ahead of its completion, which leaves room among    *)
(* the five that the timeline shows.  The newer one's has nothing to say:    *)
(* all its events may fall in the second of its completion, which do not.    *)
EXTENDS ReviewPage

TwoReviews == <<<<3, 4>>, <<>>>>
DatedLate == <<4, 6>>
=============================================================================
