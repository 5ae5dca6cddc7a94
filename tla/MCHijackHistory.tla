-------------------------- MODULE MCHijackHistory ---------------------------
(* A chain by "ann" on "doc", what does not fit it (another actor, another *)
(* uri), unnamed calls, and calls on which two rules match at once.        *)
EXTENDS HijackHistory

Call(rules, user, uri, completes) ==
  [rules |-> rules, user |-> user, uri |-> uri, completes |-> completes]

MCLoggedCalls ==
  { Call({"partial_handshake"}, "ann", "doc", FALSE),
    Call({"partial_handshake"}, "", "", FALSE),
    Call({"takeover_pending_subscription"}, "ann", "doc", FALSE),
    Call({"takeover_pending_subscription"}, "bob", "doc", FALSE),
    Call({"takeover_pending_subscription"}, "ann", "mail", FALSE),
    Call({"takeover_pending_subscription", "partial_handshake"}, "bob", "mail", FALSE),
    Call({}, "ann", "doc", TRUE),
    Call({"subscription_state_corruption"}, "ann", "", FALSE),
    Call({"subscription_state_corruption"}, "bob", "", FALSE),
    Call({"subscription_state_corruption", "takeover_pending_subscription"}, "ann", "doc", FALSE),
    Call({}, "ann", "", FALSE) }
=============================================================================
