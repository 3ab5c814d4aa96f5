--------------------------- MODULE MCInvitations ---------------------------
(***************************************************************************)
(* Model-checking instances of Invitations: two inviters and an invitee,   *)
(* one address.                                                            *)
(***************************************************************************)
EXTENDS Invitations

By(kind, user, contact) == [kind |-> kind, user |-> user, contact |-> contact]
Accepting == By("accept", "carol", NoContact)

\* One request at a time, and before, at and after the instants that matter.
Quiet == [menu |-> {By("invite", "alice", "c"), By("link", "alice", "c"),
                    By("link", "bob", "c"), By("link", "alice", NoContact),
                    Accepting, By("accept", "alice", NoContact)},
          requests |-> 1..4, pace |-> "quiet", faults |-> 0,
          instants |-> {23, 24}, enabled |-> TRUE]
\* The rate limit over two days.
Days == [Quiet EXCEPT !.menu = {By("invite", "alice", "c"), By("invite", "bob", "c"),
                                By("link", "bob", "c")},
                      !.instants = {24, 25, 49, 50}]
\* Requests that overlap, one call failing.
Faulty == [Quiet EXCEPT !.menu = {By("invite", "alice", "c"), By("link", "alice", NoContact),
                                  By("invite", "alice", Malformed), By("list", "alice", NoContact),
                                  By("status", "alice", NoContact), By("remove", "alice", NoContact),
                                  By("remove", "bob", NoContact), Accepting},
                        !.requests = 1..3, !.pace = "free", !.faults = 1, !.instants = {25}]
Overlapping == [Faulty EXCEPT !.menu = {By("link", "alice", "c"), By("link", "bob", "c"),
                                        By("remove", "alice", NoContact), Accepting,
                                        By("accept", "bob", NoContact)},
                              !.requests = 1..4, !.faults = 0, !.instants = {}]
Disabled == [Faulty EXCEPT !.enabled = FALSE]
\* A client that repeats an acceptance it was told had succeeded.
Retry == [Quiet EXCEPT !.menu = {By("invite", "alice", "c"), Accepting},
                       !.requests = 1..3, !.pace = "serial", !.instants = {}]

MCScenarios == {Quiet, Days, Faulty, Overlapping, Disabled}
MCRetry == {Retry}
=============================================================================
