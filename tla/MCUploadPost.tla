---------------------------- MODULE MCUploadPost ----------------------------
(* An empty feed or one of two posts, one of them liked, and one upload    *)
(* screen on top of it.                                                    *)
EXTENDS UploadPost

CONSTANTS p1, p2

AllPosts == {p1, p2}
AllFeeds == {<<{}, {}>>, <<{p1, p2}, {p1}>>}
============================================================================
