----------------------------- MODULE MCWsClient -----------------------------
(* Scenarios of the websocket client for TLC.                              *)
EXTENDS WsClient, TLC

MCScenarios == {{"lost", "restart", "call", "visit"}, {"restart", "refuse", "expire"},
                {"lost", "expire", "call"}}
Rejoining == {{"lost", "rejoin"}}
Lingering == {{"lost", "linger"}}
Refusing == {{"refuse"}}
Slow == {{"refuse", "expire", "visit", "slow"}}
=============================================================================
