------------------------------ MODULE Resource ------------------------------
(***************************************************************************)
(* acquireResource() of src/resource.ts: a resource and its release, which *)
(* `await using` calls at the end of a scope and the program may call      *)
(* before.                                                                 *)
(***************************************************************************)
EXTENDS Naturals

VARIABLES
  resource, \* "none", "acquiring", "refused", "held", "releasing" or "released"
  releases  \* how often release() was called

resourceVars == <<resource, releases>>

ResourceInit == resource = "none" /\ releases = 0

Acquire == resource = "none" /\ resource' = "acquiring" /\ UNCHANGED releases
AcquireSucceeds == resource = "acquiring" /\ resource' = "held" /\ UNCHANGED releases
AcquireFails == resource = "acquiring" /\ resource' = "refused" /\ UNCHANGED releases

\* [Symbol.asyncDispose]: only the first disposal releases; a later one
\* resolves at once, whether the release has ended or not.
DisposeResource ==
  \/ resource = "held" /\ resource' = "releasing" /\ releases' = releases + 1
  \/ resource \in {"releasing", "released"} /\ UNCHANGED resourceVars

\* release() resolves or rejects.
ReleaseSettles == resource = "releasing" /\ resource' = "released" /\ UNCHANGED releases

ResourceTypeOK ==
  /\ resource \in {"none", "acquiring", "refused", "held", "releasing", "released"}
  /\ releases \in Nat
=============================================================================
