--------------------------- MODULE MCConversation ---------------------------
(* Messages with one call of any kind, with none, and with the pairs in    *)
(* which a streak breaks, restarts or grows by two.                        *)
EXTENDS Conversation

c(call, out) == [call |-> call, out |-> out]
One == {c("read", "v1"), c("read", "e1"), c("read", "e2"), c("query", "part"),
        c("range", "part"), c("range", "v1"), c("use_skill", "body")}
MCBatches ==
    {<<>>} \cup {<<x>> : x \in One}
    \cup {<<c("read", "e1"), c("read", "e1")>>, <<c("read", "v1"), c("read", "e1")>>,
          <<c("read", "v1"), c("read", "v2")>>, <<c("query", "v1"), c("query", "part")>>}
=============================================================================
