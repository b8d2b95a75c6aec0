--------------------------- MODULE MonotoneReads ---------------------------
(***************************************************************************)
(* What the fetch layer of blueocean-core-js promises its callers, without *)
(* saying how: a GET of a resource is answered, at most once, with a       *)
(* version the resource really had, and no caller is answered with an      *)
(* older version than a caller answered before it.                         *)
(***************************************************************************)
EXTENDS Naturals

CONSTANTS Urls,    \* the resources
          Calls    \* one element per GET ever made

VARIABLES version,   \* version[u]: the version the resource now has
          urlOf,     \* urlOf[c]: the resource call c asks for
          answered,  \* the calls answered with data
          got        \* got[c]: the version call c was answered with

vars == <<version, urlOf, answered, got>>

Init ==
    /\ version = [u \in Urls |-> 0]
    /\ urlOf \in [Calls -> Urls]
    /\ answered = {}
    /\ got \in [Calls -> Nat]

\* The resource changes on the server.
Change(u) ==
    /\ version' = [version EXCEPT ![u] = @ + 1]
    /\ UNCHANGED <<urlOf, answered, got>>

\* A call that is not answered yet chooses its resource.
Ask(c, u) ==
    /\ c \notin answered
    /\ urlOf' = [urlOf EXCEPT ![c] = u]
    /\ UNCHANGED <<version, answered, got>>

\* The unanswered calls of C, which all ask for u, are answered with v.
Answer(u, C, v) ==
    /\ C \cap answered = {}
    /\ \A c \in C : urlOf[c] = u
    /\ \A d \in answered : urlOf[d] = u => got[d] <= v
    /\ answered' = answered \cup C
    /\ got' = [c \in Calls |-> IF c \in C THEN v ELSE got[c]]
    /\ UNCHANGED <<version, urlOf>>

Next ==
    \/ \E u \in Urls : Change(u)
    \/ \E c \in Calls, u \in Urls : Ask(c, u)
    \/ \E u \in Urls, C \in SUBSET Calls : \E v \in 0..version[u] : Answer(u, C, v)

Spec == Init /\ [][Next]_vars
=============================================================================
