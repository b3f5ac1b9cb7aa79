----------------------------- MODULE WebSocket -----------------------------
(***************************************************************************)
(* One WebSocket connection: a dialer (websocket/client.go) and a server   *)
(* (websocket/handler.go) shake hands and exchange frames                  *)
(* (websocket/frame.go, utf8.go, deflate.go, handshake_parser.go).         *)
(*                                                                         *)
(* The two directions carry units: parts of the handshake, the first two   *)
(* bytes of a frame (lead), the rest of its header (rest), the bytes of    *)
(* its payload.  A read takes any number of units, so frames arrive split  *)
(* in every way.  A compressed block is one unit, with the history that it *)
(* refers to.                                                              *)
(***************************************************************************)
EXTENDS Integers, Sequences, FiniteSets, SequencesExt

CONSTANTS Plans,        \* what both ends and the application do, one of these
          ShortLen,     \* the longest payload of a control frame, 125
          MaxMessage,   \* MaxMessageBytes
          MaxHeader,    \* MaxHeaderBytes and MaxHandshakeBytes, in units
          MaxWindowBits \* maxWindowBits

VARIABLES
  plan,      \* what the application, its peer and the network may still do
  server,    \* connectionState
  client,    \* clientConn
  up, down,  \* units on their way to the server, to the client
  log        \* what was sent, what the handlers got, what done was called with

vars == <<plan, server, client, up, down, log>>

Data == {"text", "binary"}
Control == {"close", "ping", "pong"}
Opcodes == Data \union Control \union {"continuation"}
Fin == [t |-> "FIN"]

-----------------------------------------------------------------------------
(* UTF-8.                                                                  *)

\* utf8.Valid: a sequence of well-formed characters (the Unicode standard, table 3-7).
Char(s) ==
  /\ \A i \in 2..Len(s) : s[i] \in 128..191
  /\ CASE Len(s) = 1 -> s[1] \in 0..127
       [] Len(s) = 2 -> s[1] \in 194..223
       [] Len(s) = 3 -> s[1] \in 224..239 /\ (s[1] = 224 => s[2] >= 160) /\ (s[1] = 237 => s[2] <= 159)
       [] OTHER -> s[1] \in 240..244 /\ (s[1] = 240 => s[2] >= 144) /\ (s[1] = 244 => s[2] <= 143)

RECURSIVE Valid(_)
Valid(s) ==
  s = <<>> \/ \E k \in 1..4 : k <= Len(s) /\ Char(SubSeq(s, 1, k)) /\ Valid(SubSeq(s, k + 1, Len(s)))

\* Text that more bytes can make valid.
CanBecomeValid(s) ==
  \E k \in 0..3 : \E more \in [1..k -> {128, 143, 144, 159, 160, 191}] : Valid(s \o more)

reset == [ok |-> TRUE, need |-> 0, lo |-> 128, hi |-> 191]

step(v, b) ==
  LET starts(need, lo, hi) == [ok |-> TRUE, need |-> need, lo |-> lo, hi |-> hi]
  IN IF v.need # 0
     THEN IF b < v.lo \/ b > v.hi THEN [v EXCEPT !.ok = FALSE] ELSE starts(v.need - 1, 128, 191)
     ELSE CASE b < 128 -> starts(0, 128, 191)
            [] b \in 194..223 -> starts(1, 128, 191)
            [] b = 224 -> starts(2, 160, 191)
            [] b = 237 -> starts(2, 128, 159)
            [] b \in 225..239 \ {237} -> starts(2, 128, 191)
            [] b = 240 -> starts(3, 144, 191)
            [] b \in 241..243 -> starts(3, 128, 191)
            [] b = 244 -> starts(3, 128, 143)
            [] OTHER -> [v EXCEPT !.ok = FALSE]

\* What is left of the last character, if the end of p may have cut it off.
cutOff(p) ==
  LET last == {i \in Max({1, Len(p) - 2})..Len(p) : p[i] \notin 128..191}
  IN IF last = {} \/ p[Max(last)] < 192 THEN Len(p) + 1 ELSE Max(last)

RECURSIVE write(_, _)
write(v, p) ==
  IF ~v.ok \/ p = <<>> THEN v
  ELSE IF v.need # 0 THEN write(step(v, Head(p)), Tail(p))
  ELSE LET tail == cutOff(p)
       IN IF Valid(SubSeq(p, 1, tail - 1))
          THEN FoldLeft(LAMBDA w, b : IF w.ok THEN step(w, b) ELSE w, v, SubSeq(p, tail, Len(p)))
          ELSE [v EXCEPT !.ok = FALSE]

-----------------------------------------------------------------------------
(* permessage-deflate.  An extension is a sequence of parameters, the      *)
(* first of them its name; val is 0 for none, -1 for one that is wrong.    *)

Param(name, val) == [name |-> name, val |-> val]
parseWindowBits(val) == val \in 8..15

declined == [on |-> FALSE, windowBits |-> MaxWindowBits, peerContextTakeover |-> FALSE]
seenTwice(ext) == \E i, j \in 2..Len(ext) : i # j /\ ext[i].name = ext[j].name
valueOf(ext, name) == {ext[i].val : i \in {j \in 2..Len(ext) : ext[j].name = name}}

\* An extension that is not understood; optional are the names that need no value.
badParam(ext, optional) ==
  \/ ext[1].name # "permessage-deflate" \/ ext[1].val # 0
  \/ seenTwice(ext)
  \/ \E i \in 2..Len(ext) :
       CASE ext[i].name \in {"server_no_context_takeover", "client_no_context_takeover"} -> ext[i].val # 0
         [] ext[i].name \in {"server_max_window_bits", "client_max_window_bits"} ->
              ~parseWindowBits(ext[i].val) /\ ~(ext[i].name \in optional /\ ext[i].val = 0)
         [] OTHER -> TRUE

agreed(ext, own, peer) ==
  [on |-> TRUE,
   windowBits |-> IF valueOf(ext, own) = {} THEN MaxWindowBits ELSE CHOOSE b \in valueOf(ext, own) : TRUE,
   peerContextTakeover |-> valueOf(ext, peer) = {}]

\* parseExtensions' ok: no name is "", which stands for what is not a token.
wellFormed(exts) == \A i \in 1..Len(exts) : \A j \in 1..Len(exts[i]) : exts[i][j].name # ""

\* The first offer that the server can accept, and the answer to it.
acceptDeflateOffer(offers) ==
  LET good == {i \in 1..Len(offers) : ~badParam(offers[i], {"client_max_window_bits"})}
  IN IF ~wellFormed(offers) \/ good = {} THEN declined
     ELSE agreed(offers[Min(good)], "server_max_window_bits", "client_no_context_takeover")

deflateResponse(params) ==
  IF ~params.on THEN <<>>
  ELSE <<<<Param("permessage-deflate", 0), Param("server_no_context_takeover", 0)>>
           \o (IF params.peerContextTakeover THEN <<>> ELSE <<Param("client_no_context_takeover", 0)>>)
           \o (IF params.windowBits = MaxWindowBits THEN <<>>
               ELSE <<Param("server_max_window_bits", params.windowBits)>>)>>

deflateOffer ==
  <<Param("permessage-deflate", 0), Param("client_no_context_takeover", 0), Param("client_max_window_bits", 0)>>

\* [ok, params]
acceptDeflateResponse(exts) ==
  IF ~wellFormed(exts) \/ Len(exts) > 1 \/ (exts # <<>> /\ badParam(exts[1], {})) THEN [ok |-> FALSE, params |-> declined]
  ELSE [ok |-> TRUE,
        params |-> IF exts = <<>> THEN declined
                   ELSE agreed(exts[1], "client_max_window_bits", "server_no_context_takeover")]

\* A message in pieces no longer than the window, none of which refers to another.
compressMessage(payload, windowBits) ==
  LET chunk == IF windowBits < MaxWindowBits THEN windowBits - 7 ELSE Max({1, Len(payload)})
      pieces == Max({1, (Len(payload) + chunk - 1) \div chunk})
  IN [i \in 1..pieces |->
        [t |-> "z", m |-> FALSE, back |-> <<>>,
         b |-> SubSeq(payload, (i - 1) * chunk + 1, Min({i * chunk, Len(payload)}))]]

\* The blocks inflated, each with the history before it: "invalid" if it is not there.
decompressMessage(blocks, dict, limit) ==
  LET history[i \in 0..Len(blocks)] ==
        IF i = 0 THEN dict ELSE history[i - 1] \o blocks[i].b
      known(i) == IsSuffix(blocks[i].back, history[i - 1])
      message == SubSeq(history[Len(blocks)], Len(dict) + 1, Len(history[Len(blocks)]))
  IN IF \E i \in 1..Len(blocks) : blocks[i].t # "z" \/ blocks[i].m THEN [err |-> "invalid", message |-> <<>>]
     ELSE IF Len(message) > limit THEN [err |-> "toobig", message |-> <<>>]
     ELSE IF \A i \in 1..Len(blocks) : known(i) THEN [err |-> "", message |-> message]
     ELSE [err |-> "invalid", message |-> <<>>]

\* maxWindowSize is twice MaxMessage here.
keepWindow(window, message) ==
  LET all == window \o message IN SubSeq(all, Max({1, Len(all) - 2 * MaxMessage + 1}), Len(all))

-----------------------------------------------------------------------------
(* Frames.                                                                 *)

applyMask(payload) == [i \in 1..Len(payload) |-> [payload[i] EXCEPT !.m = ~@]]
Bytes(payload) == [i \in 1..Len(payload) |-> IF payload[i].m THEN -1 ELSE payload[i].b]
Payload(bytes) == [i \in 1..Len(bytes) |-> [t |-> "byte", m |-> FALSE, b |-> bytes[i]]]

\* Any frame, and the ones that frameHeader and sendFrame build.
RawFrame(op, payload, fin, comp, masked, ext) ==
  <<[t |-> "lead", op |-> op, fin |-> fin, rsv |-> FALSE, comp |-> comp, masked |-> masked, ext |-> ext,
     n |-> Len(payload)]>>
    \o (IF masked \/ ext THEN <<[t |-> "rest"]>> ELSE <<>>)
    \o (IF masked THEN applyMask(payload) ELSE payload)
frameHeader(op, payload, comp, masked) == RawFrame(op, payload, TRUE, comp, masked, Len(payload) > ShortLen)

NoFragment == [op |-> "", comp |-> FALSE, data |-> <<>>]
NewParser(fromServer, params) ==
  [fromServer |-> fromServer, buffer |-> <<>>, tail |-> <<>>, borrowed |-> FALSE, pendingConsume |-> 0,
   fragment |-> NoFragment, text |-> reset, textChecked |-> 0,
   deflate |-> params.on, contextTakeover |-> params.peerContextTakeover, window |-> <<>>]

consume(p, n) ==
  [p EXCEPT !.buffer = SubSeq(@, n + 1, Len(@)), !.borrowed = @ /\ n # Len(p.buffer)]
consumePending(p) ==
  IF p.pendingConsume = 0 THEN p ELSE [consume(p, p.pendingConsume) EXCEPT !.pendingConsume = 0]

\* The header and the whole of the frame at the head of a buffer, in units; -1 if unknown.
frameHeaderSize(buffer) ==
  IF buffer = <<>> \/ buffer[1].t # "lead" THEN 1 ELSE IF buffer[1].masked \/ buffer[1].ext THEN 2 ELSE 1
frameSize(buffer) ==
  IF Len(buffer) < frameHeaderSize(buffer) THEN -1
  ELSE frameHeaderSize(buffer) + (IF buffer[1].t = "lead" THEN buffer[1].n ELSE 0)

\* As much of data as completes the frame that buffer starts with, and what is left.
RECURSIVE appendCurrentFrame(_, _)
appendCurrentFrame(buffer, data) ==
  LET known == frameSize(buffer) >= 0
      need == (IF known THEN frameSize(buffer) ELSE frameHeaderSize(buffer)) - Len(buffer)
  IN IF need <= 0 \/ need >= Len(data) THEN <<buffer \o data, <<>>>>
     ELSE LET more == buffer \o SubSeq(data, 1, need)
              rest == SubSeq(data, need + 1, Len(data))
          IN IF known THEN <<more, rest>> ELSE appendCurrentFrame(more, rest)

validCloseCode(code) == code \in (1000..1014 \ {1004, 1005, 1006}) \union 3000..4999

\* The first two units of a Close payload are its code.
badClose(payload) ==
  IF Len(payload) = 1 \/ (Len(payload) >= 2 /\ ~validCloseCode(payload[1].b)) THEN "protocol"
  ELSE IF Len(payload) > 2 /\ ~Valid(Bytes(SubSeq(payload, 3, Len(payload)))) THEN "invalid"
  ELSE ""

badLead(p, h) ==
  \/ h.t # "lead" \/ h.rsv \/ h.masked = p.fromServer
  \/ h.comp /\ (~p.deflate \/ h.op \notin Data)
  \/ h.op \notin Opcodes
  \/ h.op \in Control /\ (~h.fin \/ h.ext)
  \/ h.op = "continuation" /\ p.fragment = NoFragment
  \/ h.op \in Data /\ p.fragment # NoFragment

checkPartialTextMutant(p, available, masked) ==
  p

checkPartialText(p, available, masked) ==
  LET new == SubSeq(available, p.textChecked + 1, Len(available))
  IN IF new = <<>> THEN p
     ELSE [p EXCEPT !.text = write(@, Bytes(IF masked THEN applyMask(new) ELSE new)), !.textChecked = Len(available)]

\* inflate, and the message it gives.
inflate(p, blocks) ==
  LET kept(r) == IF r.err = "" /\ p.contextTakeover THEN [p EXCEPT !.window = keepWindow(@, r.message)] ELSE p
      done(r) == [err |-> r.err, message |-> r.message, p |-> kept(r)]
  IN done(decompressMessage(blocks, IF p.contextTakeover THEN p.window ELSE <<>>, MaxMessage))

\* What next says: more is needed, a fragment was taken, an event or an error.
Result(p, is, op, payload) == [p |-> p, is |-> is, op |-> op, payload |-> payload]
Failed(p, err) == Result(p, "error", err, <<>>)

\* A data message is whole: inflated and checked if it was compressed.
message(p, op, comp, payload) ==
  LET checked(r) ==
        IF r.err # "" THEN Failed(p, r.err)
        ELSE IF op = "text" /\ ~Valid(r.message) THEN Failed(p, "invalid")
        ELSE Result(r.p, "event", op, Payload(r.message))
  IN IF comp THEN checked(inflate(p, payload)) ELSE Result(p, "event", op, payload)

\* next, with a whole frame of h in the buffer, end units long.
frame(q, h, end, payload, text) ==
  LET p == [q EXCEPT !.textChecked = 0]
      new == Bytes(SubSeq(payload, q.textChecked + 1, Len(payload)))
      v == write(p.text, new)
      finished(r) == IF r.is = "event" THEN [r EXCEPT !.p.pendingConsume = end, !.p.text = reset] ELSE r
      data == p.fragment.data \o payload
  IN CASE h.op \in Control ->
            IF h.op = "close" /\ badClose(payload) # "" THEN Failed(p, badClose(payload))
            ELSE Result([p EXCEPT !.pendingConsume = end], "event", h.op, payload)
       [] h.op \in Data /\ h.fin ->
            IF text /\ (IF q.textChecked = 0 THEN ~Valid(Bytes(payload)) ELSE ~v.ok \/ v.need # 0)
            THEN Failed(p, "invalid") ELSE finished(message(p, h.op, h.comp, payload))
       [] text /\ (~v.ok \/ (h.fin /\ v.need # 0)) -> Failed(p, "invalid")
       [] OTHER ->
            LET op == IF h.op \in Data THEN h.op ELSE p.fragment.op
                comp == IF h.op \in Data THEN h.comp ELSE p.fragment.comp
                taken == [consume(p, end) EXCEPT !.text = IF text THEN v ELSE @,
                                                 !.fragment = [op |-> op, comp |-> comp, data |-> data]]
                whole(r) == IF r.is = "error" THEN r ELSE [r EXCEPT !.p.text = reset, !.p.fragment = NoFragment]
            IN IF h.fin THEN whole(message(taken, op, comp, data)) ELSE Result(taken, "fragment", "", <<>>)

next(p) ==
  IF p.buffer = <<>> THEN Result(p, "more", "", <<>>)
  ELSE LET h == Head(p.buffer)
           head == frameHeaderSize(p.buffer)
           available == SubSeq(p.buffer, head + 1, Len(p.buffer))
           text == \/ h.op = "text" /\ ~h.comp
                   \/ h.op = "continuation" /\ p.fragment.op = "text" /\ ~p.fragment.comp
           part == IF text THEN checkPartialText(p, available, h.masked) ELSE p
           end == head + h.n
           payload == SubSeq(p.buffer, head + 1, end)
           plain == IF h.masked THEN applyMask(payload) ELSE payload
           unmasked == [p EXCEPT !.buffer = SubSeq(@, 1, head) \o plain \o SubSeq(@, end + 1, Len(@))]
       IN IF badLead(p, h) THEN Failed(p, "protocol")
          ELSE IF h.ext /\ Len(p.buffer) < head THEN Result(p, "more", "", <<>>)
          ELSE IF h.ext /\ h.n <= ShortLen THEN Failed(p, "protocol")
          ELSE IF h.op \notin Control /\ h.n + Len(p.fragment.data) > MaxMessage
               THEN Failed(p, "toobig")
          ELSE IF Len(p.buffer) < head THEN Result(p, "more", "", <<>>)
          ELSE IF h.n > Len(available)
               THEN IF part.text.ok THEN Result(part, "more", "", <<>>) ELSE Failed(p, "invalid")
          ELSE frame(unmasked, h, end, plain, text)

\* The bytes behind the ones that completed a frame are read from where they are.
takeTail(p) ==
  IF p.buffer = <<>> /\ p.tail # <<>> THEN [p EXCEPT !.buffer = p.tail, !.tail = <<>>, !.borrowed = TRUE] ELSE p

RECURSIVE parse(_)
parse(p) ==
  LET new == [NewParser(p.fromServer, declined) EXCEPT !.deflate = p.deflate, !.contextTakeover = p.contextTakeover]
      after(r) ==
        CASE r.is = "error" -> [r EXCEPT !.p = new]
          [] r.is = "event" -> r
          [] r.is = "fragment" -> parse(r.p)
          [] OTHER -> IF takeTail(r.p) # r.p THEN parse(takeTail(r.p))
                      ELSE [r EXCEPT !.p.borrowed = @ /\ r.p.buffer = <<>>]
  IN after(next(p))

feedOne(q, data) ==
  LET p == takeTail(consumePending(q))
      joined == appendCurrentFrame(p.buffer, data)
  IN parse(IF p.buffer = <<>> /\ data # <<>> THEN [p EXCEPT !.buffer = data, !.borrowed = TRUE]
           ELSE IF ~p.borrowed /\ p.buffer # <<>> /\ data # <<>>
                THEN [p EXCEPT !.buffer = joined[1], !.tail = joined[2]]
           ELSE [p EXCEPT !.buffer = @ \o data])

\* What was borrowed and is not half a frame is let go.
ReleaseBorrowed(q) ==
  LET p == consumePending(q)
  IN [p EXCEPT !.tail = <<>>, !.borrowed = FALSE, !.buffer = IF p.borrowed THEN <<>> ELSE @]

-----------------------------------------------------------------------------
(* Either end of an open connection.                                       *)

\* fib.Connection: Send refuses once a close is asked for, Close drops what is not
\* sent, CloseAfterSend does not.
End ==
  [open |-> TRUE, closing |-> FALSE, fin |-> FALSE, out |-> <<>>,
   upgraded |-> FALSE, isClient |-> FALSE, sub |-> "", deflate |-> declined, parser |-> NewParser(FALSE, declined),
   closeSent |-> FALSE, closeState |-> 1006, finishing |-> "", writing |-> <<>>, got |-> <<>>, late |-> <<>>]

Usable(e) == e.open /\ ~e.closing
CanSend(e) == Usable(e) /\ ~e.fin
Send(e, units) == IF CanSend(e) THEN [e EXCEPT !.out = @ \o units] ELSE e
CloseAfterSend(e) == IF CanSend(e) THEN [e EXCEPT !.fin = TRUE, !.out = Append(@, Fin)] ELSE e
Close(e) == [e EXCEPT !.closing = TRUE]

sendFrame(e, op, payload, comp) == Send(e, frameHeader(op, payload, comp, e.isClient))

\* writeFrame after it has looked at closeSent.
writeFrame(e, op, bytes) ==
  IF e.deflate.on /\ op \in Data
  THEN sendFrame(e, op, compressMessage(bytes, e.deflate.windowBits), TRUE)
  ELSE sendFrame(e, op, Payload(bytes), FALSE)

\* A connection that cannot send a pong is closed.
replyPing(e, payload) ==
  IF e.closeSent \/ ~CanSend(e) THEN Close(e) ELSE sendFrame(e, "pong", payload, FALSE)

closePayload(payload) == IF Len(payload) < 2 THEN 1000 ELSE payload[1].b

\* sendClose by the thread who, up to its CloseAfterSend.
sendClose(e, payload, who) ==
  IF e.closeSent THEN e
  ELSE [sendFrame(e, "close", payload, FALSE)
          EXCEPT !.closeSent = TRUE, !.closeState = closePayload(payload),
                 !.finishing = IF CanSend(e) THEN who ELSE ""]

closeParserError(e, err) ==
  LET code == CASE err = "toobig" -> 1009 [] err = "invalid" -> 1007 [] OTHER -> 1002
  IN sendClose(e, Payload(<<code, 0>>), "reader")

\* plan.onPing: "" without a PingHandler, "replies" for the OnPing of HandlerFuncs,
\* "takes" for one of the application that answers nothing.
RECURSIVE serveFrames(_, _)
serveFrames(e, data) ==
  LET release(x) == [x EXCEPT !.parser = ReleaseBorrowed(@)]
      pinged(x) == IF x.closing /\ plan.onPing = "" THEN release(x) ELSE serveFrames(x, <<>>)
      got(x, m) == IF e.closeSent THEN [x EXCEPT !.late = Append(@, m)] ELSE [x EXCEPT !.got = Append(@, m)]
      served(fed, r) ==
        CASE r.is = "error" -> release(closeParserError(fed, r.op))
          [] r.is = "more" -> release(fed)
          [] r.op \in Data -> serveFrames(got(fed, <<r.op, Bytes(r.payload)>>), <<>>)
          [] r.op = "ping" -> pinged(IF plan.onPing = "takes" THEN fed ELSE replyPing(fed, r.payload))
          [] r.op = "pong" -> serveFrames(fed, <<>>)
          [] OTHER -> release(sendClose(fed, r.payload, "reader"))
      taken(r) == served([e EXCEPT !.parser = r.p], r)
  IN taken(feedOne(e.parser, data))

-----------------------------------------------------------------------------
(* The server's handshake.  A request is several units, the last of them   *)
(* with the empty line; its fields have one value each, or a sequence or   *)
(* set of tokens.                                                          *)

Request(q) == [i \in 1..q.size |-> [t |-> "request", last |-> i = q.size, q |-> q]]
Response(r) == [i \in 1..r.size |-> [t |-> "response", last |-> i = r.size, r |-> r]]

headerEnd(data) ==
  LET ends == {i \in 1..Len(data) : data[i].t \in {"request", "response"} /\ data[i].last}
  IN IF ends = {} THEN 0 ELSE Min(ends)

values(q, name) == SelectSeq(q.fields, LAMBDA f : f.n = name)
Get(q, name) == IF values(q, name) = <<>> THEN "" ELSE values(q, name)[1].v

parseHandshakeRequest(q) ==
  q.line # "bad" /\ values(q, "malformed") = <<>> /\ Len(values(q, "Host")) = 1
    /\ values(q, "Content-Length") = <<>> /\ values(q, "Transfer-Encoding") = <<>>

hasUpgrade(q) == \E i \in 1..Len(q.fields) : q.fields[i].n = "Connection" /\ "upgrade" \in q.fields[i].v

\* The first of the tokens that is supported, "" for none, "bad" if one before it is no token.
select(tokens) ==
  LET hits == {i \in 1..Len(tokens) : tokens[i] \in plan.supported \union {"bad"}}
  IN IF hits = {} THEN "" ELSE tokens[Min(hits)]

Subprotocols(q) == [i \in 1..Len(values(q, "Protocol")) |-> values(q, "Protocol")[i].v]
Offers(q) == [i \in 1..Len(values(q, "Extensions")) |-> values(q, "Extensions")[i].v]

negotiateExtensions(q) == IF plan.compression.server THEN acceptDeflateOffer(Offers(q)) ELSE declined

refused == [ok |-> FALSE, sub |-> "", params |-> declined]

validateHandshake(q) ==
  LET sub == select(FlattenSeq(Subprotocols(q)))
  IN IF /\ q.line = "GET" /\ hasUpgrade(q) /\ Get(q, "Upgrade") = "websocket" /\ Get(q, "Version") = "13"
        /\ Get(q, "Key") = "key" /\ (plan.checkOrigin => Get(q, "Origin") # "foreign") /\ sub # "bad"
     THEN [ok |-> TRUE, sub |-> sub, params |-> negotiateExtensions(q)] ELSE refused

validateMinimalHandshakeMutant(q) == validateHandshake(q)

\* The same for a handler that needs no request, straight from one read.
validateMinimalHandshake(q) ==
  LET subs == [i \in 1..Len(Subprotocols(q)) |-> select(Subprotocols(q)[i])]
      last(name) == IF values(q, name) = <<>> THEN "" ELSE Last(values(q, name)).v
  IN IF /\ q.line = "GET" /\ values(q, "malformed") = <<>> /\ Len(values(q, "Host")) = 1
        /\ hasUpgrade(q) /\ last("Upgrade") = "websocket" /\ last("Version") = "13" /\ Get(q, "Key") = "key"
        /\ values(q, "Content-Length") = <<>> /\ values(q, "Transfer-Encoding") = <<>>
        /\ \A i \in 1..Len(subs) : subs[i] # "bad"
     THEN [ok |-> TRUE, params |-> negotiateExtensions(q),
           sub |-> IF SelectSeq(subs, LAMBDA x : x # "") = <<>> THEN "" ELSE SelectSeq(subs, LAMBDA x : x # "")[1]]
     ELSE refused

reject(s) ==
  CloseAfterSend(Send(s, Response([size |-> 1, status |-> 400, upgrade |-> FALSE, accept |-> "", exts |-> <<>>, sub |-> ""])))

sendHandshakeResponse(s, result) ==
  Send(s, Response([size |-> 2, status |-> 101, upgrade |-> TRUE, accept |-> "key",
                    exts |-> deflateResponse(result.params), sub |-> result.sub]))

upgradeMutant(s, result, remainder) ==
  IF ~CanSend(s) THEN Close(s)
  ELSE [sendHandshakeResponse(s, result)
          EXCEPT !.upgraded = TRUE, !.sub = result.sub, !.deflate = result.params, !.handshake = <<>>,
                 !.parser = NewParser(FALSE, result.params)]

upgrade(s, result, remainder) ==
  LET up1 == [sendHandshakeResponse(s, result)
                EXCEPT !.upgraded = TRUE, !.sub = result.sub, !.deflate = result.params, !.handshake = <<>>,
                       !.parser = NewParser(FALSE, result.params)]
  IN IF ~CanSend(s) THEN Close(s)
     ELSE IF remainder = <<>> THEN up1 ELSE serveFrames(up1, remainder)

\* OnData: handshake is what the handshake parser holds, of earlier reads.
serverOnData(s, data) ==
  LET all == s.handshake \o data
      end == headerEnd(all)
      q == all[end].q
      minimal == ~plan.needsRequest /\ s.handshake = <<>>
      result == IF minimal THEN validateMinimalHandshake(q)
                ELSE IF parseHandshakeRequest(q) THEN validateHandshake(q) ELSE refused
  IN IF s.upgraded THEN serveFrames(s, data)
     ELSE IF end > MaxHeader \/ (end = 0 /\ Len(all) > MaxHeader) THEN reject(s)
     ELSE IF end = 0 THEN [s EXCEPT !.handshake = all]
     ELSE IF ~result.ok THEN reject(s)
     ELSE upgrade(s, result, SubSeq(all, end + 1, Len(all)))

-----------------------------------------------------------------------------
(* The dialer.                                                             *)

NewClient ==
  [End EXCEPT !.open = FALSE, !.isClient = TRUE]
    @@ [net |-> "idle", conn |-> FALSE, opening |-> FALSE, settled |-> FALSE, failing |-> "", response |-> <<>>]

\* claim, and fail up to the point where it looks for the connection.
fail(c, outcome) == IF c.settled THEN c ELSE [c EXCEPT !.settled = TRUE, !.failing = outcome]

\* [ok, params] of a response.
checkResponse(r) ==
  LET ext == acceptDeflateResponse(r.exts)
  IN [ok |-> /\ r.status = 101 /\ r.upgrade /\ r.accept = "key"
             /\ r.exts = <<>> \/ plan.compression.client
             /\ ext.ok /\ (r.sub # "" => r.sub \in plan.offered),
      params |-> ext.params]

clientOnData(c, data) ==
  LET all == c.response \o data
      end == headerEnd(all)
      r == all[end].r
      checked == checkResponse(r)
      opened == [c EXCEPT !.settled = TRUE, !.upgraded = TRUE, !.response = <<>>, !.sub = r.sub,
                          !.deflate = checked.params, !.parser = NewParser(TRUE, checked.params)]
  IN IF c.upgraded THEN serveFrames(c, data)
     ELSE IF c.settled THEN c
     ELSE IF end = 0 THEN IF Len(all) > MaxHeader THEN fail(c, "error") ELSE [c EXCEPT !.response = all]
     ELSE IF ~checked.ok THEN fail([c EXCEPT !.response = all], "response")
     ELSE IF end = Len(all) THEN opened ELSE serveFrames(opened, SubSeq(all, end + 1, Len(all)))

-----------------------------------------------------------------------------
(* The connection.  A foreign client sends all it has to say at once; a    *)
(* foreign server answers the request with plan.answer.                    *)

Ends == {"server", "client"}

Init ==
  /\ plan \in Plans
  /\ server = End @@ [handshake |-> <<>>]
  /\ client = IF plan.foreign = "client" THEN [NewClient EXCEPT !.open = TRUE, !.net = "open"] ELSE NewClient
  /\ up = IF plan.foreign = "client" THEN Request(plan.request) \o plan.raw ELSE <<>>
  /\ down = <<>>
  /\ log = [sent |-> [x \in Ends |-> IF plan.foreign = x THEN plan.meant ELSE <<>>], got |-> [server |-> <<>>, client |-> <<>>],
            late |-> [server |-> <<>>, client |-> <<>>], closed |-> [server |-> <<>>, client |-> <<>>], done |-> <<>>]

Peer(x) == CHOOSE y \in Ends : y # x
Of(x) == IF x = "server" THEN server ELSE client
In(x) == IF x = "server" THEN up ELSE down
Out(x) == In(Peer(x))

\* End x goes on to e, with in left to read, out on its way and l in the log.
Becomes(x, e, in, out, l) ==
  LET e1 == [e EXCEPT !.out = <<>>, !.got = <<>>, !.late = <<>>]
  IN /\ server' = (IF x = "server" THEN e1 ELSE server)
     /\ client' = (IF x = "client" THEN e1 ELSE client)
     /\ up' = (IF x = "server" THEN in ELSE out)
     /\ down' = (IF x = "client" THEN in ELSE out)
     /\ log' = [l EXCEPT !.got[x] = @ \o e.got, !.late[x] = @ \o e.late]

\* Nobody reads what is sent to an end that has closed.
Sent(x, e) == IF Of(Peer(x)).open THEN Out(x) \o e.out ELSE <<>>
Goes(x, e, in, l) == Becomes(x, e, in, Sent(x, e), l)

\* Reads any part of what has arrived.  The thread that reads is the one that closes
\* after an error or the close of the peer.
OnData(x) ==
  /\ Usable(Of(x)) /\ Of(x).finishing # "reader" /\ plan.foreign # x
  /\ \E k \in 1..Len(In(x)) :
       /\ In(x)[k].t # "FIN"
       /\ \E e \in {IF x = "server" THEN serverOnData(server, SubSeq(In(x), 1, k))
                     ELSE clientOnData(client, SubSeq(In(x), 1, k))} :
            Goes(x, e, SubSeq(In(x), k + 1, Len(In(x))),
                 IF e.upgraded /\ ~Of(x).upgraded /\ x = "client" THEN [log EXCEPT !.done = Append(@, "ok")] ELSE log)
  /\ UNCHANGED plan

\* CloseAfterSend, the end of sendClose.
Finish(x) ==
  /\ Of(x).finishing # ""
  /\ Goes(x, [CloseAfterSend(Of(x)) EXCEPT !.finishing = ""], In(x), log)
  /\ UNCHANGED plan

\* The connection has closed: what Close did not send is lost, and what the peer has
\* not read may be when this end had not read everything.
OnClose(x) ==
  LET e == Of(x)
      closed == [e EXCEPT !.open = FALSE, !.closing = TRUE, !.writing = <<>>, !.finishing = ""]
      lossy == e.closing \/ In(x) \notin {<<>>, <<Fin>>}
  IN /\ e.open /\ (e.closing \/ e.fin \/ (In(x) # <<>> /\ Head(In(x)).t = "FIN"))
     /\ \E k \in (IF lossy THEN 0 ELSE Len(Out(x)))..Len(Out(x)) :
          LET kept == SubSeq(Out(x), 1, k)
          IN Becomes(x, IF x = "client" /\ ~e.upgraded THEN fail(closed, "error") ELSE closed, <<>>,
                     IF ~Of(Peer(x)).open THEN <<>>
                     ELSE IF kept # <<>> /\ Last(kept).t = "FIN" THEN kept ELSE Append(kept, Fin),
                     IF e.upgraded THEN [log EXCEPT !.closed[x] = Append(@, e.closeState)] ELSE log)
     /\ UNCHANGED plan

\* The application writes the next of its messages, or a ping.
Written(x, op, bytes) ==
  Goes(x, [writeFrame(Of(x), op, bytes) EXCEPT !.writing = <<>>], In(x),
       IF op \in Data /\ CanSend(Of(x)) THEN [log EXCEPT !.sent[x] = Append(@, <<op, bytes>>)] ELSE log)

WriteMessage(x) ==
  /\ Of(x).upgraded /\ Of(x).writing = <<>> /\ plan.writes[x] # <<>>
  /\ LET w == Head(plan.writes[x])
         refuses == Of(x).closeSent \/ (w[1] = "text" /\ ~Valid(w[2]))
     IN IF refuses THEN Goes(x, Of(x), In(x), log)
        ELSE IF plan.race THEN Goes(x, [Of(x) EXCEPT !.writing = w], In(x), log)
        ELSE Written(x, w[1], w[2])
  /\ plan' = [plan EXCEPT !.writes[x] = Tail(@)]

\* With plan.race, writeFrame has looked at closeSent in an earlier step.
WriteEnds(x) ==
  /\ Of(x).writing # <<>>
  /\ Written(x, Of(x).writing[1], Of(x).writing[2])
  /\ UNCHANGED plan

CloseCall(x) ==
  /\ Of(x).upgraded /\ plan.closes[x] # <<>>
  /\ Goes(x, sendClose(Of(x), Payload(<<Head(plan.closes[x]), 0>>), "app"), In(x), log)
  /\ plan' = [plan EXCEPT !.closes[x] = Tail(@)]

\* Dial refuses a URL at once, or goes on to connect.
Dial ==
  /\ client.net = "idle"
  /\ IF plan.url = "bad" THEN Goes("client", [client EXCEPT !.net = "failed", !.settled = TRUE], down,
                                   [log EXCEPT !.done = Append(@, "error")])
     ELSE Goes("client", [client EXCEPT !.net = "dialing"], down, log)
  /\ UNCHANGED plan

Connects ==
  /\ client.net = "dialing"
  /\ Goes("client", [client EXCEPT !.net = "open", !.open = TRUE, !.conn = TRUE, !.opening = TRUE], down, log)
  /\ UNCHANGED plan

ConnectFails ==
  /\ client.net = "dialing" /\ plan.refused
  /\ Goes("client", fail([client EXCEPT !.net = "failed"], "error"), down, log)
  /\ UNCHANGED plan

OnOpenMutant ==
  /\ client.opening
  /\ Goes("client", Send([client EXCEPT !.opening = FALSE], Request(plan.request)), down, log)
  /\ UNCHANGED plan

\* OnOpen looks at settled after it stored the connection; connected sends the request.
OnOpen ==
  /\ client.opening
  /\ LET c == IF client.settled THEN Close(client) ELSE client
     IN Goes("client", Send([c EXCEPT !.opening = FALSE], Request(plan.request)), down, log)
  /\ UNCHANGED plan

HandshakeTimeout ==
  /\ plan.timeout /\ client.net \in {"dialing", "open"} /\ ~client.settled
  /\ Goes("client", fail(client, "error"), down, log)
  /\ UNCHANGED plan

\* The rest of fail.
FailEnds ==
  /\ client.failing # ""
  /\ Goes("client", [(IF client.conn THEN Close(client) ELSE client) EXCEPT !.failing = ""], down,
          [log EXCEPT !.done = Append(@, client.failing)])
  /\ UNCHANGED plan

\* A foreign end reads everything, and a foreign server answers the request.
Foreign(x) ==
  /\ plan.foreign = x /\ Of(x).open /\ In(x) # <<>> /\ Head(In(x)).t # "FIN"
  /\ LET answers == x = "server" /\ headerEnd(up) = 1
     IN Goes(x, IF answers THEN Send(server, plan.answer) ELSE Of(x), Tail(In(x)), log)
  /\ UNCHANGED plan

Next ==
  \/ \E x \in Ends : \/ OnData(x) \/ OnClose(x) \/ Finish(x) \/ Foreign(x)
                     \/ WriteMessage(x) \/ WriteEnds(x) \/ CloseCall(x)
  \/ Dial \/ Connects \/ ConnectFails \/ OnOpen \/ HandshakeTimeout \/ FailEnds

Spec == Init /\ [][Next]_vars

\* Every thread goes on, the timer of a dial fires, and data that has arrived is read.
CanWork ==
  \/ client.net \in {"idle", "dialing"} \/ client.opening \/ client.failing # ""
  \/ plan.timeout /\ client.net = "open" /\ ~client.settled
  \/ \E x \in Ends :
       LET e == Of(x)
       IN \/ e.finishing # "" \/ e.writing # <<>>
          \/ e.open /\ (e.closing \/ e.fin \/ In(x) # <<>>)
          \/ e.upgraded /\ (plan.writes[x] # <<>> \/ plan.closes[x] # <<>>)

FairSpec == Spec /\ ([]<>~CanWork \/ []<><<TRUE>>_vars)

-----------------------------------------------------------------------------
(* Properties.                                                             *)

\* What the parser has of a text message, unmasked: its fragments and the start of a frame.
TextSoFar(p) ==
  LET h == Head(p.buffer)
      part == SubSeq(p.buffer, frameHeaderSize(p.buffer) + 1, Len(p.buffer))
      now == p.buffer # <<>> /\ h.t = "lead" /\ h.op \in Data \union {"continuation"}
      texts == p.fragment.op = "text" \/ (now /\ h.op = "text")
      compressed == p.fragment.comp \/ (now /\ h.comp)
  IN IF ~texts \/ compressed THEN <<>>
     ELSE Bytes(p.fragment.data) \o (IF ~now THEN <<>> ELSE Bytes(IF h.masked THEN applyMask(part) ELSE part))

\* However the bytes are cut into reads and the messages into frames, compressed or
\* not, with control frames among them, until it has sent a close the handler gets
\* the messages that were sent, in order, and text is refused as soon as nothing can make it valid (feedOne,
\* next, checkPartialText, inflate).
MessagesArrive ==
  /\ \A x \in Ends : IsPrefix(log.got[x], log.sent[Peer(x)])
  /\ \A x \in Ends : Of(x).open /\ ~Of(x).closeSent => CanBecomeValid(TextSoFar(Of(x).parser))

\* A request is accepted or refused for what it says, whichever way it was parsed.
\* Not so for one that repeats Upgrade or Version: validateHandshakeRequest looks at
\* the first, validateMinimalHandshake at the last, and how the request was cut into
\* reads decides which of the two sees it.
OneVerdict == (server.upgraded => plan.acceptable) /\ (server.fin /\ ~server.upgraded => ~plan.acceptable)
Repeated == \E name \in {"Upgrade", "Version"} : Len(values(plan.request, name)) > 1

\* An end is charged with an error only if it made that one, and both ends agree on
\* what the handshake settled, by the one verdict unless a header is repeated.  done is called
\* once, with a connection whose handshake completed or with an error, and a dial
\* that failed leaves no connection behind (closeParserError, validateHandshake,
\* validateMinimalHandshake, checkResponse, claim, fail, OnOpen).
EndsAgree ==
  /\ \A x \in Ends : Of(x).closeState \in {1002, 1007, 1009} => plan.fault = Of(x).closeState
  /\ Repeated \/ OneVerdict
  /\ client.upgraded /\ plan.foreign = "" =>
       /\ server.upgraded /\ server.sub = client.sub /\ server.deflate.on = client.deflate.on
       /\ ~server.deflate.peerContextTakeover /\ ~client.deflate.peerContextTakeover
  /\ Len(log.done) <= 1
  /\ client.upgraded <=> log.done = <<"ok">>
  /\ client.settled /\ ~client.upgraded /\ client.failing = "" /\ ~client.opening => ~Usable(client)
  /\ \A x \in Ends : Len(log.closed[x]) <= 1

\* Once an end has failed the connection, or echoed the close of the peer, its handler
\* gets no more messages (serveFrames, closeParserError).
ClosedIsClosed == \A x \in Ends : log.late[x] = <<>>

\* A dial is settled, and a connection that is being closed, or on which the peer made
\* an error, ends at both ends.
ConnectionEnds ==
  LET waits == \/ client.net # "idle" /\ log.done = <<>> /\ plan.foreign # "client"
               \/ (server.closeSent \/ client.closeSent \/ plan.fault # 0) /\ (server.open \/ client.open)
  IN waits ~> ~waits
=============================================================================
