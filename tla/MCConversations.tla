---------------------------- MODULE MCConversations ----------------------------
(* Conversations on small instances: three requests of one conversation, in the combinations where they meet. *)
EXTENDS ConversationsInv, TLC

CONSTANTS r1, r2, r3, p1, p2, e1, alice, bob, nobody, space, other

Ask(kind, by, s, provided, text, target, e) ==
    [kind |-> kind, by |-> by, scope |-> s, provided |-> provided, text |-> text, target |-> target, event |-> e]
Chat(by, s) == Ask("chat", by, s, TRUE, "plain", r1, e1)
Stream(by, s) == Ask("stream", by, s, TRUE, "plain", r1, e1)
Message(by) == Ask("feishu", by, space, TRUE, "plain", r1, e1)
Decision == Ask("decide", alice, space, FALSE, "plain", r1, e1)
Deletion == Ask("delete", alice, space, FALSE, "plain", r1, e1)
NoRequest == Ask("none", nobody, space, FALSE, "plain", r1, e1)
Bug(kind, text) == Ask(kind, alice, space, FALSE, text, r1, e1)

Three(a, b, c, x) == [ask |-> (r1 :> a @@ r2 :> b @@ r3 :> c), extracts |-> x, pods |-> {p1, p2}]
\* One pod, which may stop and start again.
AloneX(a, b, c, x) == [ask |-> (r1 :> a @@ r2 :> b @@ r3 :> c), extracts |-> x, pods |-> {p1}]
Alone(a, b, c) == AloneX(a, b, c, FALSE)

SomeMixes ==
    { AloneX(Stream(alice, other), Deletion, Chat(alice, space), TRUE),
      Three(Chat(alice, other), Deletion, Chat(bob, space), TRUE),
      Three(Stream(alice, space), Decision, Decision, FALSE),
      Three(Chat(alice, space), Decision, Deletion, FALSE),
      Three(Message(alice), Message(alice), Message(bob), FALSE),
      Three(Bug("stream", "report"), Bug("chat", "supplement"), NoRequest, FALSE),
      Alone(Bug("chat", "report"), Bug("chat", "follow"), Bug("chat", "cancel")),
      Alone(Bug("feishu", "report"), Deletion, NoRequest),
      Alone(Bug("stream", "report"), Deletion, NoRequest) }

\* README.md:239-240: requests of one conversation run one after the other, by an asyncio lock.  Within a pod, that is.
RequestsRunInTurn ==
    \A r, s \in Runs : r # s /\ at[r] = at[s] =>
        ~(pc[r] \in {"run", "answer", "diagnosing"} /\ pc[s] \in {"run", "answer", "diagnosing"} \cup Loose)
=============================================================================
