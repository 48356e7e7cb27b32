------------------------------ MODULE MCWorknet ------------------------------
(* Worknet instantiated for TLC: one group, one spec and deployment name, *)
(* one device, one URL that serves a compose file, one that answers 404   *)
(* with an error page, and a project web page; one library entry whose    *)
(* project page is u3 and whose compose file is u1.                       *)
EXTENDS Worknet, TLC

CONSTANTS g1, s1, d1, k1, u1, u2, u3, composeFile, notFoundPage, homePage

MCServe == (u1 :> [status |-> 200, body |-> composeFile])
           @@ (u2 :> [status |-> 404, body |-> notFoundPage])
           @@ (u3 :> [status |-> 200, body |-> homePage])

(* A spec and a deployment named alike, as a user naming a deployment     *)
(* after its spec does.                                                   *)
MCText == (g1 :> "team") @@ (s1 :> "web") @@ (d1 :> "web")

MCLibrary == s1 :> [url |-> u3, spec |-> u1]
====
