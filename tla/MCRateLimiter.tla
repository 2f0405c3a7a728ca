----------------------------- MODULE MCRateLimiter -----------------------------
(* Small instances of RateLimiter for TLC. *)
EXTENDS RateLimiter, TLC

CONSTANTS g1, g2, r1, r2, r3

TwoCallers == {g1, g2}

(* One limiter more than there are callers: one each may still hold, and   *)
(* one in the client.                                                      *)
TwoCallerLimiters == {r1, r2, r3}

FixedLimit == {3}
OnOff == {0, 2}

Chats == {"chat"}
ChatsAndListings == {"chat", "list"}
================================================================================
