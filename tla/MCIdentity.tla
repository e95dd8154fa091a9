----------------------------- MODULE MCIdentity -----------------------------
(* One browser; seven requests at most, of which each mix makes some. *)
EXTENDS IdentityInv

CONSTANTS r1, r2, r3, r4, r5, r6, r7, d1, d2, u1, u2, c1, c2

Nothing == [kind |-> "none", conv |-> Nobody, subject |-> Nobody, fact |-> Nobody, user |-> Nobody, flow |-> Nobody,
            after |-> Nobody]
Ask(c, s, f) == [Nothing EXCEPT !.kind = "ask", !.conv = c, !.subject = s, !.fact = f]
Codex(c, s, f, u) == [Ask(c, s, f) EXCEPT !.kind = "codex", !.user = u]
Login == [Nothing EXCEPT !.kind = "login"]
Callback(f, u) == [Nothing EXCEPT !.kind = "callback", !.flow = f, !.user = u]
After(a, r) == [a EXCEPT !.after = r]
Of(k) == [Nothing EXCEPT !.kind = k]
Asks(s) == [r \in Requests |->
    CASE r = r1 -> s[1] [] r = r2 -> s[2] [] r = r3 -> s[3] [] r = r4 -> s[4] [] r = r5 -> s[5] [] r = r6 -> s[6]
      [] r = r7 -> s[7]]
Mix(db, bad, s) == [database |-> db, trouble |-> bad, ask |-> Asks(s)]

MCMixes ==
    {\* questions before, while and after the device is merged
     Mix("sqlite", {}, <<Login, Callback(r1, u1), Of("merge"), Ask(c1, "s", "f"), Ask(c2, "s", "g"), Nothing, Nothing>>),
     Mix("sqlite", {}, <<Login, Callback(r1, u1), Of("merge"), Ask(c1, "s", "f"), Ask(c2, "s", "f"), Nothing, Nothing>>),
     Mix("sqlite", {"fail", "stop"}, <<Login, Callback(r1, u1), Of("merge"), Ask(c1, "s", "f"), Nothing, Nothing, Nothing>>),
     Mix("postgres", {}, <<Login, Callback(r1, u1), Of("merge"), Ask(c1, "s", "f"), Ask(c2, "s", "f"), Nothing, Nothing>>),
     \* two people log in on the device, and both ask for the merge
     Mix("sqlite", {"fail"}, <<After(Login, r7), Callback(r1, u1), Callback(r5, u2), Of("merge"), After(Login, r2),
                               After(Of("merge"), r3), Ask(c1, "s", "f")>>),
     \* the callback is repeated
     Mix("sqlite", {"lapse"}, <<Login, Callback(r1, u1), Callback(r1, u2), Ask(c1, "s", "f"), Nothing, Nothing, Nothing>>),
     Mix("postgres", {}, <<Login, Callback(r1, u1), Callback(r1, u2), Ask(c1, "s", "f"), Of("merge"), Nothing, Nothing>>),
     \* the merge is declined, or asked for twice
     Mix("sqlite", {}, <<Login, Callback(r1, u1), Of("decline"), Of("merge"), Of("merge"), Ask(c1, "s", "f"), Nothing>>),
     \* tokens and sessions come and go
     Mix("sqlite", {"lapse", "stop"}, <<Login, Callback(r1, u1), Of("mint"), After(Codex(c1, "s", "f", u1), r3),
                                        Of("revoke"), Of("logout"), Nothing>>)}
=============================================================================
