------------------------- MODULE MCWebSocketQuery --------------------------
(* One HTTP stream and two prompts of a WebSocket on one session, with one  *)
(* interrupt that comes over HTTP or over the WebSocket.                    *)
EXTENDS WebSocketQuery
CONSTANTS h1, k1, k2, i1
MCStreams == {h1, k1, k2}
MCScoped  == {h1}
MCPrompts == {k1, k2}
MCTwoStreams == {h1, k1}
MCNone == {}
MCRequests == {i1}
MCSignals == {i1}
MCAllFaults == {"cache", "close", "crash", "ttl"}
MCNoFaults == {}
=============================================================================
