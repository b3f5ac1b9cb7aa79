------------------------------ MODULE MCEngine ------------------------------
(* Engine for TLC: one run goes through several configurations.            *)
EXTENDS Engine, TLC

CONSTANTS c1, c2, a1, a2, a3, Chosen

MCAppConn == (a1 :> c1) @@ (a2 :> c1) @@ (a3 :> c2)

Only(c, n) == [d \in Conns |-> IF d = c THEN n ELSE 0]
ByApps(first, second, third) == (a1 :> first) @@ (a2 :> second) @@ (a3 :> third)

\* One connection, one worker, small buffers, nothing happening.
Plain ==
    [readBufferSize |-> 1, high |-> 0, budget |-> 0, inlineHandlers |-> FALSE,
     concurrency |-> 1, refuses |-> FALSE, conns |-> {c1}, sndBuf |-> 1,
     maxIn |-> Only(c1, 0), maxOut |-> Only(c1, 0), sendSizes |-> {1, 2},
     handlerOps |-> {}, appOps |-> ByApps({}, {}, {}), maxOps |-> 1, peerActs |-> {"data"}]

\* Two workers, and every way a round can end.
Scheduling ==
    [Plain EXCEPT !.concurrency = 2, !.refuses = TRUE, !.maxIn = Only(c1, 2),
                  !.handlerOps = {"close", "panic"}, !.peerActs = {"data", "oob", "fin", "rst"}]

\* A callback and two goroutines that send, send files and flush.
Output ==
    [Plain EXCEPT !.maxIn = Only(c1, 1), !.maxOut = Only(c1, 3), !.handlerOps = {"send", "flush"},
                  !.appOps = ByApps({"send"}, {"sendfile"}, {})]

\* Output against a graceful close and a reset.
Graceful ==
    [Plain EXCEPT !.maxOut = Only(c1, 4), !.sendSizes = {2}, !.maxOps = 2,
                  !.appOps = ByApps({"send", "sendfile"}, {"closeAfterSend"}, {}), !.peerActs = {"rst"}]

\* The write watermark: replies that the peer does not take in time.
Watermark ==
    [Plain EXCEPT !.high = 2, !.maxIn = Only(c1, 1), !.maxOut = Only(c1, 4), !.sendSizes = {2},
                  !.handlerOps = {"send"}, !.appOps = ByApps({"send"}, {}, {})]

\* Two connections that share a budget of pending bytes.
Shared ==
    [Plain EXCEPT !.conns = {c1, c2}, !.budget = 1, !.maxIn = Only(c1, 1),
                  !.maxOut = Only(c2, 2), !.sendSizes = {2}, !.appOps = ByApps({}, {}, {"send"})]

\* The budget recovers and is used up again while the loop resumes.
Resumed ==
    [Plain EXCEPT !.budget = 1, !.maxOut = Only(c1, 4), !.sendSizes = {2},
                  !.maxOps = 2, !.appOps = ByApps({"send"}, {}, {})]

\* What the liveness run goes through: an echo server with a watermark that may
\* close after sending, with a pool and with inline handlers.
Echo ==
    [Plain EXCEPT !.high = 2, !.maxIn = Only(c1, 2), !.maxOut = Only(c1, 3),
                  !.handlerOps = {"send", "closeAfterSend"}]
Inline ==
    [Plain EXCEPT !.high = 1, !.inlineHandlers = TRUE, !.maxIn = Only(c1, 2),
                  !.maxOut = Only(c1, 3), !.handlerOps = {"send"}]

\* A goroutine that sends a file while input arrives.
FileSender ==
    [Plain EXCEPT !.maxIn = Only(c1, 1), !.maxOut = Only(c1, 1), !.sendSizes = {1}, !.sndBuf = 2,
                  !.appOps = ByApps({"sendfile"}, {}, {})]

\* A peer that shuts down its side after its last bytes.
HalfClose ==
    [Plain EXCEPT !.high = 1, !.maxIn = Only(c1, 2), !.maxOut = Only(c1, 3),
                  !.handlerOps = {"send"}, !.peerActs = {"data", "fin"}]

MCConfigs ==
    CASE Chosen = "safety" -> {Scheduling, Output, Graceful, Watermark, Shared, Resumed}
      [] Chosen = "liveness" -> {Echo, Inline}
      [] Chosen = "deferred" -> {FileSender}
      [] Chosen = "halfclose" -> {HalfClose}

\* Workers are interchangeable: no property or action names one.
WorkerSymmetry == Permutations(Workers)
=============================================================================
