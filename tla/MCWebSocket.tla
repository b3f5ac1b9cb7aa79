---------------------------- MODULE MCWebSocket ----------------------------
EXTENDS WebSocket

F(n, v) == [n |-> n, v |-> v]
Fields == <<F("Host", "h"), F("Connection", {"upgrade"}), F("Upgrade", "websocket"), F("Version", "13"), F("Key", "key")>>
Q(size, fields) == [size |-> size, line |-> "GET", fields |-> fields]
None == [server |-> <<>>, client |-> <<>>]

Base ==
  [foreign |-> "", request |-> Q(2, Fields), raw |-> <<>>, meant |-> <<>>, answer |-> <<>>,
   supported |-> {"chat"}, offered |-> {"chat"}, checkOrigin |-> FALSE, needsRequest |-> TRUE,
   compression |-> [server |-> FALSE, client |-> FALSE], race |-> FALSE, onPing |-> "", url |-> "ws", refused |-> FALSE,
   timeout |-> FALSE, fault |-> 0, acceptable |-> TRUE, writes |-> None, closes |-> None]

A == 97
Talk == [Base EXCEPT !.writes = [server |-> <<<<"text", <<A, 195, 169>>>>, <<"ping", <<A>>>>>>,
                                 client |-> <<<<"binary", <<1>>>>, <<"text", <<226, 130, 172, A>>>>>>],
                     !.closes = [server |-> <<1000>>, client |-> <<>>]]
Crossing == [Base EXCEPT !.writes = [server |-> <<<<"text", <<A>>>>, <<"text", <<128>>>>>>, client |-> <<<<"ping", <<>>>>, <<"binary", <<>>>>>>],
                         !.closes = [server |-> <<1001>>, client |-> <<3000>>], !.needsRequest = FALSE]
Packed == [Base EXCEPT !.compression = [server |-> TRUE, client |-> TRUE],
                    !.request.fields = Fields \o <<F("Protocol", <<"other", "chat">>), F("Extensions", deflateOffer)>>,
                    !.writes = [server |-> <<<<"text", <<A, A, A>>>>>>, client |-> <<<<"text", <<A, 195, 169>>>>, <<"binary", <<>>>>>>],
                    !.closes = [server |-> <<>>, client |-> <<1000>>]]

Raw(op, payload, fin, comp) == RawFrame(op, payload, fin, comp, TRUE, Len(payload) > ShortLen)
Client(request, raw, meant) == [Base EXCEPT !.foreign = "client", !.request = request, !.raw = raw, !.meant = meant]
Fragments ==
  Client(Q(1, Fields),
         Raw("text", Payload(<<A, 226>>), FALSE, FALSE) \o Raw("ping", Payload(<<1>>), TRUE, FALSE)
           \o Raw("continuation", Payload(<<130>>), FALSE, FALSE) \o Raw("continuation", Payload(<<172>>), TRUE, FALSE)
           \o Raw("pong", <<>>, TRUE, FALSE) \o Raw("close", <<>>, TRUE, FALSE),
         <<<<"text", <<A, 226, 130, 172>>>>>>)
Pings == {[Fragments EXCEPT !.onPing = h] : h \in {"replies", "takes"}}
           \union {[Crossing EXCEPT !.onPing = "replies"]}
Invalid ==
  {[Client(Q(1, Fields), Raw("text", Payload(<<240>>), FALSE, FALSE) \o Raw("continuation", Payload(<<b, 128, 128>>), TRUE, FALSE),
           IF b = 144 THEN <<<<"text", <<240, 144, 128, 128>>>>>> ELSE <<>>)
      EXCEPT !.fault = IF b = 144 THEN 0 ELSE 1007, !.needsRequest = FALSE] : b \in {143, 144}}
  \union {[Client(Q(1, Fields), Raw("text", Payload(s), TRUE, FALSE), <<>>) EXCEPT !.fault = 1007] :
          s \in {<<237, 160, 128, A>>, <<A, A, 195>>, <<244, 144, 128, 128>>}}
Wrong ==
  {[Client(Q(1, Fields), f \o Raw("text", Payload(<<A>>), TRUE, FALSE), <<>>) EXCEPT !.fault = 1002] :
     f \in {Raw("continuation", <<>>, TRUE, FALSE), Raw("text", <<>>, TRUE, TRUE), Raw("ping", <<>>, FALSE, FALSE),
            RawFrame("text", <<>>, TRUE, FALSE, FALSE, FALSE), RawFrame("binary", Payload(<<1>>), TRUE, FALSE, TRUE, TRUE),
            Raw("close", Payload(<<1005, 0>>), TRUE, FALSE), Raw("odd", <<>>, TRUE, FALSE)}}
  \union {[Client(Q(1, Fields), Raw("binary", Payload(<<1, 2>>), FALSE, FALSE) \o Raw("continuation", Payload(<<1, 2, 3>>), TRUE, FALSE), <<>>)
             EXCEPT !.fault = 1009]}

Z(b, back) == <<[t |-> "z", m |-> FALSE, b |-> b, back |-> back]>>
Offer(params) == F("Extensions", <<Param("permessage-deflate", 0)>> \o params)
Takeover ==
  [Client(Q(1, Fields \o <<Offer(<<Param("mystery", 0)>>), Offer(<<Param("server_max_window_bits", 8)>>)>>),
          Raw("text", Z(<<A, 195, 169>>, <<>>), TRUE, TRUE) \o Raw("text", Z(<<A>>, <<A, 195, 169>>), FALSE, TRUE)
             \o Raw("continuation", Z(<<A>>, <<195, 169, A>>), TRUE, FALSE),
          <<<<"text", <<A, 195, 169>>>>, <<"text", <<A, A>>>>>>)
     EXCEPT !.compression.server = TRUE, !.writes.server = <<<<"text", <<A, A>>>>>>]
Malformed ==
  [Client(Q(1, Fields \o <<Offer(<<>>), F("Extensions", <<Param("", 0)>>)>>), Raw("text", Payload(<<A>>), TRUE, FALSE), <<<<"text", <<A>>>>>>)
     EXCEPT !.compression.server = TRUE]
Inflated ==
  {[Client(Q(1, Append(Fields, Offer(<<Param("client_no_context_takeover", 0)>>))), Raw("text", z, TRUE, TRUE), <<>>)
     EXCEPT !.compression.server = TRUE, !.fault = IF Len(z[1].b) > 3 THEN 1009 ELSE 1007] :
     z \in {Z(<<A, A, A, A, A>>, <<>>), Z(<<195>>, <<>>), Z(<<A>>, <<A>>)}}

Requests ==
  {[Client(q, <<>>, <<>>) EXCEPT !.acceptable = FALSE, !.needsRequest = n] :
     n \in BOOLEAN,
     q \in {[Q(2, Fields) EXCEPT !.line = "POST"], Q(4, Fields), Q(2, Tail(Fields)), Q(1, SubSeq(Fields, 1, 4)),
            Q(2, Append(Fields, F("Content-Length", "1"))), Q(2, Append(Fields, F("Protocol", <<"bad">>))),
            Q(2, Append(Fields, F("malformed", "")))}}
  \union {[Client(Q(2, Append(Fields, F("Origin", "foreign"))), <<>>, <<>>) EXCEPT !.acceptable = FALSE, !.checkOrigin = TRUE]}
  \union {[Client(Q(2, Append(Fields, f)), <<>>, <<>>) EXCEPT !.needsRequest = n] :
            n \in BOOLEAN, f \in {F("Upgrade", "other"), F("Version", "12")}}

R == [size |-> 2, status |-> 101, upgrade |-> TRUE, accept |-> "key", exts |-> <<>>, sub |-> ""]
Text == frameHeader("text", Payload(<<A>>), FALSE, FALSE)
Answers ==
  {[Base EXCEPT !.foreign = "server", !.answer = Response(r) \o Text,
         !.meant = <<<<"text", <<A>>>>>>, !.timeout = TRUE] :
     r \in {R, [R EXCEPT !.status = 404], [R EXCEPT !.accept = "other"], [R EXCEPT !.sub = "other"], [R EXCEPT !.size = 5],
            [R EXCEPT !.exts = <<<<Param("permessage-deflate", 0)>>>>]}}
  \union {[Base EXCEPT !.foreign = "server", !.answer = Response([R EXCEPT !.exts = <<<<Param("", 0)>>>>]), !.compression.client = TRUE]}
  \union {[Base EXCEPT !.foreign = "server", !.answer = <<>>, !.timeout = TRUE, !.refused = TRUE], [Base EXCEPT !.url = "bad"],
          [Base EXCEPT !.timeout = TRUE, !.closes.client = <<1000>>]}
Race == [Base EXCEPT !.race = TRUE, !.writes.server = <<<<"text", <<A>>>>, <<"ping", <<>>>>>>, !.closes.server = <<1000>>]

All == {Talk, Crossing, Race, Packed, Fragments, Takeover, Malformed} \union Pings \union Invalid \union Wrong \union Inflated \union Requests \union Answers
=============================================================================
