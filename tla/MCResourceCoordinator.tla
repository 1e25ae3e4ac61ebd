------------------------ MODULE MCResourceCoordinator ------------------------
(* Instances of ResourceCoordinator for TLC; a tick is ten seconds. *)
EXTENDS ResourceCoordinator, TLC

CONSTANTS c1, c2, c3, p1, p2

\* One key: a writer with the shortest lease nodes use (60 s), a reader with
\* the default one (360 s), and a reader with the shortest one.
OneKeyClaims == c1 :> (1 :> "write") @@ c2 :> (1 :> "read") @@ c3 :> (1 :> "read")
OneKeyTtl == c1 :> 6 @@ c2 :> 36 @@ c3 :> 6
OneKeyProcs == c1 :> p1 @@ c2 :> p1 @@ c3 :> p2

\* Two keys claimed in opposite modes by two calls, and a reader of both.
TwoKeyClaims ==
    c1 :> (1 :> "write" @@ 2 :> "read") @@ c2 :> (1 :> "read" @@ 2 :> "write")
      @@ c3 :> (1 :> "read" @@ 2 :> "read")
TwoKeyTtl == c1 :> 6 @@ c2 :> 6 @@ c3 :> 6
OneProc == c1 :> p1 @@ c2 :> p1 @@ c3 :> p1

\* A write of two keys whose second key is taken.
WriteClaims ==
    c1 :> (1 :> "write" @@ 2 :> "write") @@ c2 :> (2 :> "write") @@ c3 :> (1 :> "write")

===============================================================================
