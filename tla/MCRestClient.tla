---------------------------- MODULE MCRestClient ----------------------------
(***************************************************************************)
(* Two depth calls and a heavier one of another endpoint.  The two depth   *)
(* calls are interchangeable.                                              *)
(***************************************************************************)
EXTENDS RestClient, TLC

CONSTANTS d1, d2, k

MCCalls == {d1, d2, k}
MCDepth == {d1, d2}
MCWeight == d1 :> 1 @@ d2 :> 1 @@ k :> 2
MCRetries == d1 :> 2 @@ d2 :> 2 @@ k :> 1
MCNoRetries == [c \in MCCalls |-> 1]
=============================================================================
