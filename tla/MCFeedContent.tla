----------------------------- MODULE MCFeedContent -----------------------------
(* Constants of the TLC instances of FeedContent. *)
EXTENDS FeedContent, TLC

CONSTANTS u1, u2, c1, c2, k1, k2, h1, r1, r2, r3, r4, r5

\* An author writes content; u2, an administrator, deletes what it likes.  Each scene
\* has two or three requests of the same kind, so that they overlap.
LikeScene == (r1 :> {<<u1, "create">>} @@ r2 :> {<<u1, "likes">>, <<u2, "likes">>}
           @@ r3 :> {<<u1, "likes">>, <<u2, "likes">>} @@ r4 :> {<<u1, "likes">>, <<u2, "likes">>}
           @@ r5 :> {<<u1, "likes">>, <<u2, "delete">>})
TagScene == (r1 :> {<<u1, "create">>} @@ r2 :> {<<u1, "edit">>} @@ r3 :> {<<u1, "edit">>}
          @@ r4 :> {<<u1, "edit">>, <<u1, "delete">>} @@ r5 :> {<<u2, "delete">>, <<u2, "saves">>})
CommentScene == (r1 :> {<<u1, "create">>} @@ r2 :> {<<u1, "comment">>} @@ r3 :> {<<u2, "comment">>}
          @@ r4 :> {<<u1, "uncomment">>, <<u2, "likes">>}
          @@ r5 :> {<<u2, "uncomment">>, <<u2, "delete">>})
ThreeScenes == {LikeScene, TagScene, CommentScene}

Interchangeable == Permutations(Comments)
=============================================================================
