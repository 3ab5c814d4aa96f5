-------------------------- MODULE MCIdentityServer --------------------------
(***************************************************************************)
(* Instances of IdentityServer: four requests at a time, chosen so that    *)
(* they meet on the same secret, address, token or key.                    *)
(***************************************************************************)
EXTENDS IdentityServer

MCRequests == {"q1", "q2", "q3", "q4"}
MCUsers == {"alice", "bob"}
MCAddresses == {"a", "b"}
MCSecrets == {"s"}

Request(kind) ==
  [kind |-> kind, ok |-> TRUE, access |-> "root", user |-> "alice", secret |-> "s", address |-> "a",
   attempt |-> 1, ref |-> "q1"]
On(r, ref) == [r EXCEPT !.ref = ref]
As(r, access) == [r EXCEPT !.access = access]
Bad(r) == [r EXCEPT !.ok = FALSE]
None == Request("none")

Of(w, x, y, z) == [q1 |-> w, q2 |-> x, q3 |-> y, q4 |-> z]
Base(reqs) ==
  [server |-> "identity", owner |-> "alice", refused |-> {}, patient |-> FALSE, serial |-> TRUE, req |-> reqs]

OtherAddress == [Request("request") EXCEPT !.address = "b"]
Again == [Request("request") EXCEPT !.attempt = 2]
BobBinds == [Request("bind") EXCEPT !.user = "bob"]
UnbindOther == [Request("unbind") EXCEPT !.address = "b"]

\* Sessions: two addresses for one secret; a second attempt while the first link is followed;
\* one link followed twice and bound twice; a binding and its removal.
Sessions ==
  {Base(Of(Request("request"), OtherAddress, On(Request("submit"), "q2"), Request("bind"))),
   Base(Of(Request("request"), Again, Request("submit"), On(Request("bind"), "q2"))),
   Base(Of(Request("request"), Request("submit"), Request("submit"), Request("bind"))),
   Base(Of(Request("request"), Request("submit"), Request("bind"), BobBinds)),
   Base(Of(Request("request"), Request("submit"), Request("bind"), Request("unbind"))),
   Base(Of(Request("request"), Request("submit"), Request("validated"), UnbindOther)),
   Base(Of(Bad(On(Request("validated"), "q2")), Request("request"), Bad(On(Request("submit"), "q2")),
           Bad(On(Request("unbind"), "q2"))))}

\* Invitations: three in a row; two at once; one for an address that is being bound.
Invites ==
  {Base(Of(Request("store"), Request("store"), Request("store"), Request("sign"))),
   [Base(Of(Request("store"), Request("store"), None, None)) EXCEPT !.serial = FALSE],
   Base(Of(Request("request"), Request("submit"), Request("bind"), Request("store")))}

\* Accounts: a token used while it is logged out; terms to accept; Matrix tokens on tom-server.
Accounts ==
  {Base(Of(Request("register"), As(Request("logout"), "q1"), As(Request("store"), "q1"),
           As(Request("request"), "q1"))),
   [Base(Of(Request("request"), Request("terms"), Request("request"), Bad(Request("terms"))))
      EXCEPT !.refused = {"alice"}],
   [Base(Of(Bad(Request("register")), Request("register"), As(Request("logout"), "q2"),
            As(Request("validated"), "q2"))) EXCEPT !.server = "tom"],
   [Base(Of(Request("logout"), Request("store"), Request("terms"), None)) EXCEPT !.server = "tom"]}

MCScenarios == Sessions \union {[s EXCEPT !.patient = TRUE] : s \in Sessions} \union Invites \union Accounts
=============================================================================
