------------------------------- MODULE Quic --------------------------------
(***************************************************************************)
(* One QUIC connection (http3/internal/quic): a client and a server shake  *)
(* hands and exchange streams over a network that loses, repeats and       *)
(* reorders datagrams.                                                     *)
(*                                                                         *)
(* A connection is a record, and what the code does to it under its mutex  *)
(* is a function from record to record that leaves the datagrams it sent   *)
(* in out and the calls to the handler in events.  Data is counted in      *)
(* units, Room of which fill a datagram; control frames take no room.      *)
(* Time is not modelled: a timer may fire when nothing is on its way any   *)
(* more, and plan.early times before that.                                 *)
(***************************************************************************)
EXTENDS Integers, Sequences, FiniteSets, SequencesExt, TLC, QuicNumbers

CONSTANTS Plans,           \* what the applications and the network do, one of these
          Room,            \* data in a datagram, maxDatagram
          StreamWindow,    \* Config.StreamReceiveWindow
          ConnWindow,      \* Config.ConnReceiveWindow
          MaxStreams,      \* Config.MaxIncomingStreams and MaxIncomingUniStreams
          MinCwnd, InitialCwnd,  \* minCongestionWindow, initialCongestionWindow, in datagrams
          MaxAckRanges     \* maxAckRanges

VARIABLES
  plan,      \* what the applications and the network may still do
  server,    \* the server's Conn
  client,    \* the client's Conn
  up, down,  \* datagrams on their way to the server, to the client
  log        \* what the handlers were told

vars == <<plan, server, client, up, down, log>>

Initial == 1
Handshake == 2
App == 3
Spaces == {Initial, Handshake, App}
packetThreshold == 3
maxProbes == 2
maxBufferedPackets == 16
NoThreshold == 1000

-----------------------------------------------------------------------------
(* Buffers (buffer.go).  The sorted ranges of the code are sets here.      *)

Run(S, from) == LET gaps == {i \in from..(from + Cardinality(S)) : i \notin S} IN Min(gaps)

sendBuffer == [base |-> 0, buf |-> <<>>, next |-> 0, lost |-> {}, acked |-> {}]
end(b) == b.base + Len(b.buf)
wanted(b) == {o \in b.lost : o >= b.base}
bytes(b, from, to) == SubSeq(b.buf, from - b.base + 1, to - b.base)

\* [off, data, b] of up to n bytes to send again, or never sent before.
popLost(b, n) ==
  LET off == Min(wanted(b))
      to == Min({Run(b.lost, off), off + n})
  IN [off |-> off, data |-> bytes(b, off, to), b |-> [b EXCEPT !.lost = wanted(b) \ (off..(to - 1))]]
popNew(b, n) ==
  LET to == Min({end(b), b.next + n})
  IN [off |-> b.next, data |-> bytes(b, b.next, to), b |-> [b EXCEPT !.next = to]]

onAck(b, off, n) ==
  LET acked == b.acked \union (off..(off + n - 1))
      base == Run(acked, b.base)
  IN [b EXCEPT !.acked = {o \in acked : o >= base}, !.base = base, !.buf = SubSeq(@, base - b.base + 1, Len(@))]
onLost(b, off, n) == [b EXCEPT !.lost = @ \union (Max({off, b.base})..(off + n - 1))]

recvBuffer == [offset |-> 0, segments |-> <<>>]
push(r, off, data) ==
  LET from == Max({off, r.offset})
      new == [off |-> from, data |-> SubSeq(data, from - off + 1, Len(data))]
      before(x) == x.off <= from
      behind(x) == x.off > from
  IN IF new.data = <<>> THEN r
     ELSE [r EXCEPT !.segments = SelectSeq(@, before) \o <<new>> \o SelectSeq(@, behind)]
\* What is left of the next segment in order, [data, r], or none before a gap.
pop(r) ==
  LET to(x) == x.off + Len(x.data)
      i == Min({Len(r.segments) + 1} \union {j \in 1..Len(r.segments) : to(r.segments[j]) > r.offset})
      rest == SubSeq(r.segments, i, Len(r.segments))
  IN IF rest = <<>> \/ Head(rest).off > r.offset THEN [data |-> <<>>, r |-> [r EXCEPT !.segments = rest]]
     ELSE [data |-> SubSeq(Head(rest).data, r.offset - Head(rest).off + 1, Len(Head(rest).data)),
           r |-> [offset |-> to(Head(rest)), segments |-> Tail(rest)]]

\* The packet numbers received: add says no to one that is there or too old to tell.
ranges(S) == {i \in S : i - 1 \notin S}
refuses(S, pn) == pn \in S \/ (S # {} /\ pn < Min(S) /\ Cardinality(ranges(S)) = MaxAckRanges)
add(S, pn) ==
  LET all == S \union {pn}
  IN IF Cardinality(ranges(all)) > MaxAckRanges THEN {i \in all : i >= Min(ranges(all) \ {Min(all)})} ELSE all

-----------------------------------------------------------------------------
(* A connection (conn.go).                                                 *)

pnSpace ==
  [tx |-> FALSE, rx |-> FALSE, discarded |-> FALSE, nextPN |-> 0, largestAcked |-> -1, sent |-> <<>>,
   ackElicitingInFlight |-> 0, lossTime |-> 0, lastSent |-> 0, probes |-> 0, recv |-> {},
   ackPending |-> FALSE, ackNow |-> FALSE, unacked |-> 0, cryptoSend |-> sendBuffer, cryptoRecv |-> recvBuffer]

Kinds == {"bidi", "uni"}
None == [i \in {} |-> 0]

newConn(side, flight) ==
  [side |-> side, flight |-> flight, alive |-> TRUE, heardPeer |-> FALSE, retried |-> FALSE,
   spaces |-> [s \in Spaces |-> IF s = Initial THEN [pnSpace EXCEPT !.tx = TRUE, !.rx = TRUE] ELSE pnSpace],
   handshakeComplete |-> FALSE, handshakeConfirmed |-> FALSE, addressValidated |-> FALSE,
   received |-> 0, sentOut |-> 0, peerParams |-> FALSE, clock |-> 1,
   cwnd |-> InitialCwnd, ssthresh |-> NoThreshold, bytesInFlight |-> 0, recoveryStart |-> 0,
   peerMaxData |-> 0, sentData |-> 0, recvMaxData |-> ConnWindow, recvData |-> 0, recvConsumed |-> 0,
   streams |-> None, opened |-> [k \in Kinds |-> 0], peerMax |-> [k \in Kinds |-> 0],
   peerOpened |-> [k \in Kinds |-> 0], peerDone |-> [k \in Kinds |-> 0], max |-> [k \in Kinds |-> MaxStreams],
   maxDataPending |-> FALSE, maxStreamsPending |-> {}, sendQueue |-> <<>>, handshakeDonePending |-> FALSE,
   pingPending |-> FALSE, closed |-> FALSE, closeErr |-> "", closeWhenDone |-> FALSE, err |-> "",
   buffered |-> <<>>, out |-> <<>>, events |-> <<>>]

isClient(c) == c.side = "client"
local(c, id) == id.by = c.side
Has(c, id) == id \in DOMAIN c.streams
tell(c, e, id, data) == [c EXCEPT !.events = Append(@, [e |-> e, id |-> id, data |-> data])]
NoStream == [n |-> 0, by |-> "", kind |-> ""]

terminateLocked(c, err) ==
  IF c.closed THEN c
  ELSE tell([c EXCEPT !.closed = TRUE, !.closeErr = err, !.streams = None, !.sendQueue = <<>>, !.buffered = <<>>],
            "close", NoStream, <<>>)

\* A sealed packet: only the number it was sealed under opens it.
Packet(space, s, frames) ==
  LET win == pnWindow(s.nextPN, s.largestAcked)
  IN [space |-> space, full |-> s.nextPN, pn |-> s.nextPN % win, win |-> win, frames |-> frames]

\* CONNECTION_CLOSE in every space that the peer may be able to read.
sendClose(c, err) ==
  LET in == {s \in Spaces : c.spaces[s].tx /\ ~c.spaces[s].discarded /\ (s = App => c.handshakeComplete)}
      pkt(s) == Packet(s, c.spaces[s], <<[f |-> "CONNECTION_CLOSE", err |-> err]>>)
  IN IF in = {} THEN c
     ELSE [c EXCEPT !.spaces = [s \in Spaces |-> IF s \in in THEN [@[s] EXCEPT !.nextPN = @ + 1] ELSE @[s]],
                    !.out = Append(@, [i \in 1..Cardinality(in) |-> pkt(SetToSortSeq(in, <)[i])])]

closeLocked(c, err) == IF c.closed THEN c ELSE terminateLocked(sendClose(c, err), err)

closeIfDoneLocked(c) ==
  IF c.closeWhenDone /\ \A id \in DOMAIN c.streams : id.kind # "bidi" THEN closeLocked(c, "app") ELSE c

discardSpaceMutant(c, space) ==
  IF c.spaces[space].discarded THEN c
  ELSE [c EXCEPT !.spaces[space] = [pnSpace EXCEPT !.discarded = TRUE, !.largestAcked = c.spaces[space].largestAcked]]

discardSpace(c, space) ==
  LET s == c.spaces[space]
      inFlight == Cardinality({i \in 1..Len(s.sent) : s.sent[i].inFlight})
  IN IF s.discarded THEN c
     ELSE [c EXCEPT !.bytesInFlight = @ - inFlight,
                    !.spaces[space] = [pnSpace EXCEPT !.discarded = TRUE, !.largestAcked = s.largestAcked]]

confirmHandshake(c) ==
  IF c.handshakeConfirmed \/ ~c.handshakeComplete THEN c
  ELSE discardSpace([c EXCEPT !.handshakeConfirmed = TRUE], Handshake)

-----------------------------------------------------------------------------
(* Streams (stream.go, conn.go).                                           *)

newStream(c, id) ==
  LET recv == id.kind = "bidi" \/ ~local(c, id)
  IN [c EXCEPT !.streams = (id :> [hasSend |-> id.kind = "bidi" \/ local(c, id), hasRecv |-> recv,
        send |-> sendBuffer, sendMax |-> IF c.peerParams THEN StreamWindow ELSE 0,
        finQueued |-> FALSE, finSent |-> FALSE, finAcked |-> FALSE, finalSize |-> 0,
        reset |-> FALSE, resetPending |-> FALSE, resetAcked |-> FALSE,
        recv |-> recvBuffer, recvMax |-> IF recv THEN StreamWindow ELSE 0, recvHigh |-> 0, recvRead |-> 0,
        recvFin |-> -1, recvDone |-> FALSE, peerReset |-> FALSE, stopSent |-> FALSE, stopPending |-> FALSE,
        maxDataPending |-> FALSE]) @@ @]

mayOpen(c, kind) == ~c.closed /\ c.handshakeComplete /\ c.opened[kind] < c.peerMax[kind]
openStream(c, kind) ==
  newStream([c EXCEPT !.opened[kind] = @ + 1], [n |-> c.opened[kind], by |-> c.side, kind |-> kind])

\* The stream a frame is about, opening the peer's up to it; err when the peer may not.
peerStream(c, id, recvSide) ==
  LET failed(why) == [c EXCEPT !.err = why]
      opening == {[id EXCEPT !.n = n] : n \in c.peerOpened[id.kind]..id.n}
      open[n \in (c.peerOpened[id.kind] - 1)..id.n] ==
        IF n < c.peerOpened[id.kind] THEN [c EXCEPT !.peerOpened[id.kind] = id.n + 1]
        ELSE newStream(open[n - 1], [id EXCEPT !.n = n])
  IN IF id.kind = "uni" /\ local(c, id) = recvSide THEN failed("stream_state")
     ELSE IF Has(c, id) THEN c
     ELSE IF local(c, id) THEN IF id.n >= c.opened[id.kind] THEN failed("stream_state") ELSE c
     ELSE IF opening = {} THEN c
     ELSE IF id.n >= c.max[id.kind] THEN failed("stream_limit")
     ELSE open[id.n]

queueStream(c, id) ==
  IF Has(c, id) /\ id \notin Range(c.sendQueue) THEN [c EXCEPT !.sendQueue = Append(@, id)] ELSE c

sendDone(s) ==
  ~s.hasSend \/ (IF s.reset THEN s.resetAcked ELSE s.finAcked /\ s.send.buf = <<>>)
recvFinished(s) == ~s.hasRecv \/ s.recvDone \/ s.peerReset

\* A stream of the peer that ends makes room for another.
moreStreams(c, kind) ==
  LET done == c.peerDone[kind] + 1
      more == c.max[kind] - done < MaxStreams \div 2 + 1
  IN [c EXCEPT !.peerDone[kind] = done,
               !.max[kind] = IF more THEN done + MaxStreams ELSE @,
               !.maxStreamsPending = IF more THEN @ \union {kind} ELSE @]

maybeFinish(c, id) ==
  IF ~Has(c, id) \/ ~sendDone(c.streams[id]) \/ ~recvFinished(c.streams[id]) THEN c
  ELSE LET room(forgot) == IF local(c, id) THEN forgot ELSE moreStreams(forgot, id.kind)
       IN room(closeIfDoneLocked([c EXCEPT !.streams = [i \in DOMAIN @ \ {id} |-> @[i]]]))

writes(c, id) == Has(c, id) /\ c.streams[id].hasSend /\ ~c.streams[id].finQueued /\ ~c.streams[id].reset
writeLocked(c, id, n, fin) ==
  LET s == c.streams[id]
      send == [s.send EXCEPT !.buf = @ \o [i \in 1..n |-> end(s.send) + i]]
  IN queueStream([c EXCEPT !.streams[id] = [s EXCEPT !.send = send, !.finQueued = fin,
                                                     !.finalSize = IF fin THEN end(send) ELSE @]], id)

resetLockedMutant(c, id) ==
  LET s == c.streams[id]
  IN IF ~s.hasSend \/ s.reset \/ s.finAcked THEN c
     ELSE queueStream([c EXCEPT !.streams[id] =
            [s EXCEPT !.reset = TRUE, !.resetPending = TRUE, !.finalSize = s.send.base,
                      !.send = [sendBuffer EXCEPT !.base = s.send.next, !.next = s.send.next]]], id)

resetLocked(c, id) ==
  LET s == c.streams[id]
  IN IF ~s.hasSend \/ s.reset \/ s.finAcked THEN c
     ELSE queueStream([c EXCEPT !.streams[id] =
            [s EXCEPT !.reset = TRUE, !.resetPending = TRUE, !.finalSize = s.send.next,
                      !.send = [sendBuffer EXCEPT !.base = s.send.next, !.next = s.send.next]]], id)

stopSendingLocked(c, id) ==
  LET s == c.streams[id]
  IN IF ~s.hasRecv \/ s.recvDone \/ s.stopSent THEN c
     ELSE queueStream([c EXCEPT !.streams[id] =
            [s EXCEPT !.stopSent = TRUE, !.stopPending = TRUE,
                      !.recv = [recvBuffer EXCEPT !.offset = s.recv.offset]]], id)

sendCredit(c, s) == Max({0, Min({s.sendMax - s.send.next, c.peerMaxData - c.sentData})})
sendable(c, s) ==
  \/ s.stopPending \/ s.maxDataPending \/ s.resetPending
  \/ /\ s.hasSend /\ ~s.reset
     /\ \/ wanted(s.send) # {}
        \/ IF s.send.next < end(s.send) THEN sendCredit(c, s) > 0 ELSE s.finQueued /\ ~s.finSent

-----------------------------------------------------------------------------
(* What arrives on a stream (stream.go).                                   *)

\* The stream has been read up to offset: the peer gets more room once half is used.
consumed(c, id, offset) ==
  LET s == c.streams[id]
      read == Max({0, offset - s.recvRead})
      more == s.recvFin < 0 /\ ~s.recvDone /\ s.recvMax - offset < StreamWindow \div 2
      used == c.recvConsumed + read
      moreData == c.recvMaxData - used < ConnWindow \div 2
      queued(c1) == IF more THEN queueStream(c1, id) ELSE c1
  IN queued([c EXCEPT !.recvConsumed = used,
               !.recvMaxData = IF moreData THEN used + ConnWindow ELSE @,
               !.maxDataPending = @ \/ moreData,
               !.streams[id] = [s EXCEPT !.recvRead = @ + read,
                                         !.recvMax = IF more THEN offset + StreamWindow ELSE @,
                                         !.maxDataPending = @ \/ more]])

\* High-water marks of a stream and its connection; err when either limit is passed.
counted(c, id, to) ==
  LET s == c.streams[id]
      data == c.recvData + Max({0, to - s.recvHigh})
  IN [c EXCEPT !.recvData = data, !.streams[id].recvHigh = Max({@, to}),
               !.err = IF to > s.recvMax \/ data > c.recvMaxData THEN "flow_control" ELSE @]

discards(c, id, to) ==
  LET s == c.streams[id]
      ended(c1) == IF s.stopSent /\ s.recvFin >= 0 /\ ~s.recvDone
                   THEN maybeFinish([c1 EXCEPT !.streams[id].recvDone = TRUE], id) ELSE c1
  IN ended(consumed(c, id, to))

deliverMutant(c, id, data) == tell(c, "data", id, data)
deliver(c, id, data) == tell(consumed(c, id, c.streams[id].recv.offset), "data", id, data)

\* Segment after segment is given to the application, up to the first gap.
RECURSIVE delivered(_, _, _)
delivered(c, id, p) ==
  LET c1 == [c EXCEPT !.streams[id].recv = p.r]
  IN IF p.data = <<>> THEN c1 ELSE delivered(deliver(c1, id, p.data), id, pop(p.r))

takesMutant(c, id, off, data) ==
  LET ended(c1) == maybeFinish(tell([c1 EXCEPT !.streams[id].recvDone = TRUE], "fin", id, <<>>), id)
      given(c1) == IF c1.streams[id].recvFin >= 0 /\ ~c1.streams[id].recvDone THEN ended(c1) ELSE c1
  IN given(delivered(c, id, pop(push(c.streams[id].recv, off, data))))

takes(c, id, off, data) ==
  LET ended(c1) == maybeFinish(tell([c1 EXCEPT !.streams[id].recvDone = TRUE], "fin", id, <<>>), id)
      given(c1, s) == IF s.recvFin = s.recv.offset /\ ~s.recvDone THEN ended(c1) ELSE c1
      read(c1) == given(c1, c1.streams[id])
  IN read(delivered(c, id, pop(push(c.streams[id].recv, off, data))))

\* Bytes within the limits: dropped when nobody wants them any more.
admits(c, id, off, data, s) ==
  IF c.err # "" THEN c
  ELSE IF s.recvDone \/ s.peerReset \/ s.stopSent THEN discards(c, id, off + Len(data))
  ELSE takes(c, id, off, data)

onStreamFrame(c, id, off, data, fin) ==
  LET s == c.streams[id]
      to == off + Len(data)
  IN IF (s.recvFin >= 0 /\ (to > s.recvFin \/ (fin /\ to # s.recvFin))) \/ (fin /\ to < s.recvHigh)
     THEN [c EXCEPT !.err = "final_size"]
     ELSE admits(counted(IF fin THEN [c EXCEPT !.streams[id].recvFin = to] ELSE c, id, to), id, off, data, s)

onResetStream(c, id, finalSize) ==
  LET s == c.streams[id]
      told(c1) == maybeFinish(IF s.stopSent THEN c1 ELSE tell(c1, "reset", id, <<>>), id)
      cut(c1) == IF s.recvDone \/ s.peerReset THEN c1
                 ELSE told([c1 EXCEPT !.streams[id].peerReset = TRUE, !.streams[id].maxDataPending = FALSE,
                                      !.streams[id].recv = [recvBuffer EXCEPT !.offset = s.recv.offset]])
      admitted(c1) == IF c1.err # "" THEN c1
                      ELSE cut(consumed([c1 EXCEPT !.streams[id].recvFin = finalSize], id, finalSize))
  IN IF (s.recvFin >= 0 /\ finalSize # s.recvFin) \/ finalSize < s.recvHigh THEN [c EXCEPT !.err = "final_size"]
     ELSE admitted(counted(c, id, finalSize))

onStopSending(c, id) ==
  IF c.streams[id].reset \/ c.streams[id].finAcked THEN c
  ELSE tell(resetLocked(c, id), "stop", id, <<>>)

-----------------------------------------------------------------------------
(* Loss detection and congestion control (recovery.go).  A packet counts   *)
(* as one datagram of the window; the order of sending stands for time.    *)

onStream(c, id, s) == [c EXCEPT !.streams[id] = s]

frameAcked(c, space, f) ==
  LET s == c.streams[f.id]
  IN CASE f.f = "CRYPTO" -> [c EXCEPT !.spaces[space].cryptoSend = onAck(@, f.off, Len(f.data))]
       [] f.f = "STREAM" /\ Has(c, f.id) ->
            IF s.reset THEN c
            ELSE maybeFinish(onStream(c, f.id, [s EXCEPT !.send = onAck(@, f.off, Len(f.data)),
                                                         !.finAcked = @ \/ f.fin]), f.id)
       [] f.f = "RESET_STREAM" /\ Has(c, f.id) -> maybeFinish(onStream(c, f.id, [s EXCEPT !.resetAcked = TRUE]), f.id)
       [] OTHER -> c

onDataLost(s, f) ==
  [s EXCEPT !.send = onLost(@, f.off, Len(f.data)), !.finSent = @ /\ ~(f.fin /\ ~s.finAcked)]

streamLost(s, f) ==
  CASE f.f = "STREAM" /\ ~s.reset -> onDataLost(s, f)
    [] f.f = "RESET_STREAM" /\ ~s.resetAcked -> [s EXCEPT !.resetPending = TRUE]
    [] f.f = "MAX_STREAM_DATA" /\ ~s.recvDone /\ s.recvFin < 0 -> [s EXCEPT !.maxDataPending = TRUE]
    [] f.f = "STOP_SENDING" /\ ~s.recvDone -> [s EXCEPT !.stopPending = TRUE]
    [] OTHER -> s

frameLost(c, space, f) ==
  CASE f.f = "CRYPTO" -> [c EXCEPT !.spaces[space].cryptoSend = onLost(@, f.off, Len(f.data))]
    [] f.f = "MAX_DATA" -> [c EXCEPT !.maxDataPending = TRUE]
    [] f.f = "MAX_STREAMS" -> [c EXCEPT !.maxStreamsPending = @ \union {f.kind}]
    [] f.f = "HANDSHAKE_DONE" -> [c EXCEPT !.handshakeDonePending = TRUE]
    [] f.f \in {"STREAM", "RESET_STREAM", "MAX_STREAM_DATA", "STOP_SENDING"} /\ Has(c, f.id) ->
         LET s == streamLost(c.streams[f.id], f)
         IN IF s = c.streams[f.id] /\ (f.f # "STREAM" \/ s.reset) THEN c ELSE queueStream(onStream(c, f.id, s), f.id)
    [] OTHER -> c

RECURSIVE framesLost(_, _, _)
framesLost(c, space, fs) ==
  IF fs = <<>> THEN c ELSE framesLost(frameLost(c, space, Head(fs)), space, Tail(fs))

Carried(ps) == FlattenSeq([i \in 1..Len(ps) |-> ps[i].frames])
Eliciting(p) == p.ackEliciting
InFlight(p) == p.inFlight
Asking(ps) == Len(SelectSeq(ps, Eliciting))
Flying(ps) == Len(SelectSeq(ps, InFlight))

onCongestion(c, sent) ==
  LET half == Max({c.cwnd \div 2, MinCwnd})
  IN IF sent <= c.recoveryStart THEN c
     ELSE [c EXCEPT !.recoveryStart = c.clock - 1, !.ssthresh = half, !.cwnd = half]

\* late: the packets before the largest acknowledged one are too old by now.
detectLost(c, space, late) ==
  LET s == c.spaces[space]
      old(p) == p.pn <= s.largestAcked
      gone(p) == old(p) /\ (late \/ s.largestAcked >= p.pn + packetThreshold)
      stays(p) == ~gone(p)
      lost == SelectSeq(s.sent, gone)
      kept == SelectSeq(s.sent, stays)
      flown == SelectSeq(lost, InFlight)
      slowed(c1) == IF flown = <<>> THEN c1 ELSE onCongestion(c1, flown[Len(flown)].t)
      without(k) == [s EXCEPT !.sent = k, !.lossTime = IF k # <<>> /\ old(k[1]) THEN k[1].t ELSE 0,
                              !.ackElicitingInFlight = @ - Asking(lost)]
  IN slowed(framesLost([c EXCEPT !.spaces[space] = without(kept), !.bytesInFlight = @ - Len(flown)],
                       space, Carried(lost)))

onAcked(c, p) ==
  [c EXCEPT !.bytesInFlight = @ - 1, !.cwnd = IF p.t > c.recoveryStart /\ c.cwnd < c.ssthresh THEN @ + 1 ELSE @]

RECURSIVE framesAcked(_, _, _)
framesAcked(c, space, fs) ==
  IF fs = <<>> THEN c ELSE framesAcked(frameAcked(c, space, Head(fs)), space, Tail(fs))
RECURSIVE packetsAcked(_, _, _)
packetsAcked(c, space, ps) ==
  IF ps = <<>> THEN c
  ELSE LET p == Head(ps)
           landed(c1) == IF p.inFlight THEN onAcked(c1, p) ELSE c1
           c1 == landed(IF p.ackEliciting THEN [c EXCEPT !.spaces[space].ackElicitingInFlight = @ - 1] ELSE c)
       IN packetsAcked(framesAcked(c1, space, p.frames), space, Tail(ps))

onAckReceived(c, space, pns) ==
  LET s == c.spaces[space]
      hit(p) == p.pn \in pns
      miss(p) == p.pn \notin pns
      acked == SelectSeq(s.sent, hit)
      confirmed(c1) == IF space = App /\ isClient(c) THEN confirmHandshake(c1) ELSE c1
      news(c1) == IF acked = <<>> THEN c1
                  ELSE confirmed(packetsAcked(detectLost(c1, space, FALSE), space, acked))
  IN IF Max(pns) >= s.nextPN THEN [c EXCEPT !.err = "protocol_violation"]
     ELSE news([c EXCEPT !.spaces[space].largestAcked = Max({@, Max(pns)}), !.spaces[space].sent = SelectSeq(@, miss)])

peerCompletedAddressValidation(c) == ~isClient(c) \/ c.handshakeConfirmed \/ c.spaces[Handshake].largestAcked >= 0
atAmplificationLimit(c) == ~isClient(c) /\ ~c.addressValidated /\ c.sentOut + 1 > 3 * c.received
Unacknowledged(c) == {s \in Spaces : c.spaces[s].ackElicitingInFlight > 0}
lossTimes(c) == {s \in Spaces : c.spaces[s].lossTime > 0}
lossTimeSpace(c) == CHOOSE s \in lossTimes(c) : \A o \in lossTimes(c) : c.spaces[s].lossTime <= c.spaces[o].lossTime

\* Whether setLossDetectionTimer leaves a deadline.
lossDeadline(c) ==
  \/ lossTimes(c) # {}
  \/ ~atAmplificationLimit(c) /\ (Unacknowledged(c) # {} \/ ~peerCompletedAddressValidation(c))

ptoTimeSpace(c) ==
  LET early == Unacknowledged(c) \ {App}
      from == IF c.handshakeConfirmed \/ early = {} THEN Unacknowledged(c) ELSE early
  IN CHOOSE s \in from : \A o \in from : c.spaces[s].lastSent <= c.spaces[o].lastSent

probe(c, space) ==
  LET waits(i) == i # space /\ i # App /\ c.spaces[i].tx /\ ~c.spaces[i].discarded
                  /\ (wanted(c.spaces[i].cryptoSend) # {} \/ c.spaces[i].cryptoSend.next < end(c.spaces[i].cryptoSend))
      asks == SelectSeq(c.spaces[space].sent, Eliciting)
      n == IF space = App THEN Min({Len(asks), maxProbes}) ELSE Len(asks)
      c1 == [c EXCEPT !.spaces = [i \in Spaces |->
               IF i = space THEN [@[i] EXCEPT !.probes = maxProbes]
               ELSE IF waits(i) THEN [@[i] EXCEPT !.probes = Max({@, 1})] ELSE @[i]]]
  IN framesLost(c1, space, Carried(SubSeq(asks, 1, n)))

promptsMutant(c) == c

\* Nothing is in flight: ask, since the server may be waiting for the client.
prompts(c) == [c EXCEPT !.spaces[IF c.spaces[Handshake].tx THEN Handshake ELSE Initial].probes = 1]

onLossDetectionTimeout(c) ==
  IF lossTimes(c) # {} THEN detectLost(c, lossTimeSpace(c), TRUE)
  ELSE IF Unacknowledged(c) = {} THEN prompts(c)
  ELSE probe(c, ptoTimeSpace(c))

-----------------------------------------------------------------------------
(* The handshake (conn.go).  TLS is external: in each space each side      *)
(* writes a flight of a known length and goes on once the other's has      *)
(* arrived whole.                                                          *)

Flight(c, side, space) ==
  CASE space = Handshake /\ side = "server" -> c.flight
    [] space = App -> IF side = "server" THEN 1 ELSE 0
    [] OTHER -> 1

keys(c, space) == [c EXCEPT !.spaces[space].tx = TRUE, !.spaces[space].rx = TRUE]
writeCrypto(c, space) ==
  IF c.spaces[space].discarded THEN c
  ELSE [c EXCEPT !.spaces[space].cryptoSend.buf = [i \in 1..Flight(c, c.side, space) |-> i]]

handlePeerParams(c) ==
  [c EXCEPT !.peerParams = TRUE, !.peerMaxData = ConnWindow, !.peerMax = [k \in Kinds |-> MaxStreams]]

onHandshakeComplete(c) ==
  LET done == [c EXCEPT !.handshakeComplete = TRUE]
      confirmed == writeCrypto(confirmHandshake([done EXCEPT !.handshakeDonePending = TRUE]), App)
  IN tell(IF isClient(c) THEN done ELSE confirmed, "handshake", NoStream, <<>>)

processTLSEvents(c, space) ==
  CASE space = Initial /\ isClient(c) -> keys(c, Handshake)
    [] space = Initial /\ ~isClient(c) ->
         LET c1 == keys(writeCrypto(handlePeerParams(c), Initial), Handshake)
         IN [writeCrypto(c1, Handshake) EXCEPT !.spaces[App].tx = TRUE]
    [] space = Handshake /\ isClient(c) -> onHandshakeComplete(keys(writeCrypto(handlePeerParams(c), Handshake), App))
    [] space = Handshake /\ ~isClient(c) -> onHandshakeComplete([c EXCEPT !.spaces[App].rx = TRUE])
    [] OTHER -> c

RECURSIVE handlesData(_, _, _)
handlesData(c, space, p) ==
  LET c1 == [c EXCEPT !.spaces[space].cryptoRecv = p.r]
      whole == p.r.offset = Flight(c, IF isClient(c) THEN "server" ELSE "client", space)
      next(c2) == IF c2.spaces[space].discarded THEN c2 ELSE handlesData(c2, space, pop(c2.spaces[space].cryptoRecv))
  IN IF p.data = <<>> THEN c1 ELSE next(IF whole THEN processTLSEvents(c1, space) ELSE c1)
handleCrypto(c, space, off, data) == handlesData(c, space, pop(push(c.spaces[space].cryptoRecv, off, data)))

-----------------------------------------------------------------------------
(* Datagrams coming in (conn.go, frames.go).                               *)

\* The frames that speak of a stream, unless it may not be there or is there no more.
streamFrame(c, f) ==
  LET s == c.streams[f.id]
  IN IF c.err # "" \/ ~Has(c, f.id) THEN c
     ELSE CASE f.f = "STREAM" -> onStreamFrame(c, f.id, f.off, f.data, f.fin)
            [] f.f = "RESET_STREAM" -> onResetStream(c, f.id, f.max)
            [] f.f = "STOP_SENDING" -> onStopSending(c, f.id)
            [] f.f = "MAX_STREAM_DATA" ->
                 IF f.max > s.sendMax THEN queueStream(onStream(c, f.id, [s EXCEPT !.sendMax = f.max]), f.id) ELSE c

\* Every stream that the connection's window held up is queued again.
RECURSIVE queueAll(_, _)
queueAll(c, ids) ==
  IF ids = {} THEN c
  ELSE LET id == CHOOSE i \in ids : TRUE IN queueAll(queueStream(c, id), ids \ {id})
wake(c) == queueAll(c, {id \in DOMAIN c.streams : sendable(c, c.streams[id])})

handleFrame(c, space, f) ==
  CASE f.f = "ACK" -> onAckReceived(c, space, f.pns)
    [] f.f = "CRYPTO" -> handleCrypto(c, space, f.off, f.data)
    [] f.f = "MAX_DATA" -> IF f.max > c.peerMaxData THEN wake([c EXCEPT !.peerMaxData = f.max]) ELSE c
    [] f.f = "MAX_STREAMS" ->
         IF f.max > c.peerMax[f.kind] THEN tell([c EXCEPT !.peerMax[f.kind] = f.max], "streams", NoStream, <<>>) ELSE c
    [] f.f = "HANDSHAKE_DONE" -> confirmHandshake(c)
    [] f.f = "CONNECTION_CLOSE" -> terminateLocked(c, f.err)
    [] f.f = "PING" -> c
    [] OTHER -> streamFrame(peerStream(c, f.id, f.f \in {"STREAM", "RESET_STREAM"}), f)

RECURSIVE handleFrames(_, _, _)
handleFrames(c, space, fs) ==
  IF fs = <<>> \/ c.closed \/ c.err # "" THEN c
  ELSE handleFrames(handleFrame(c, space, Head(fs)), space, Tail(fs))

asksAck(fs) == \E i \in 1..Len(fs) : fs[i].f \notin {"ACK", "CONNECTION_CLOSE"}

\* An acknowledgement is due at once, or after a while when the packet is the next one.
owesAck(c, space, pn, largest) ==
  [c EXCEPT !.spaces[space].ackPending = TRUE, !.spaces[space].unacked = @ + 1,
            !.spaces[space].ackNow = @ \/ space # App \/ c.spaces[space].unacked + 1 >= 2 \/ pn # largest + 1]

handlePacket(c, p) ==
  LET s == c.spaces[p.space]
      largest == IF s.recv = {} THEN -1 ELSE Max(s.recv)
      pn == decodePN(largest, p.pn, p.win)
      validated(c1) == IF ~isClient(c) /\ p.space = Handshake /\ ~c.addressValidated
                       THEN discardSpace([c1 EXCEPT !.addressValidated = TRUE], Initial) ELSE c1
      c1 == validated([c EXCEPT !.spaces[p.space].recv = add(@, pn), !.heardPeer = @ \/ p.space # App])
      handled(c2) == IF c2.err # "" THEN closeLocked(c2, c2.err)
                     ELSE IF c2.closed \/ c2.spaces[p.space].discarded \/ ~asksAck(p.frames) THEN c2
                     ELSE owesAck(c2, p.space, pn, largest)
  IN IF s.discarded THEN c
     ELSE IF ~s.rx
     THEN IF p.space # Initial /\ Len(c.buffered) < maxBufferedPackets THEN [c EXCEPT !.buffered = Append(@, p)] ELSE c
     ELSE IF pn # p.full \/ refuses(s.recv, pn) THEN c
     ELSE handled(handleFrames(c1, p.space, p.frames))

readable(c, p) == c.spaces[p.space].rx /\ ~c.spaces[p.space].discarded
\* The packets that the keys of this moment open, taken out of the waiting ones.
retryBuffered(c) ==
  LET ready(p) == readable(c, p)
      waits(p) == ~readable(c, p)
  IN [c |-> [c EXCEPT !.buffered = SelectSeq(@, waits)], now |-> SelectSeq(c.buffered, ready)]

\* The packets of a datagram, then the ones kept for the keys it brought.
RECURSIVE handlePackets(_, _)
handlePackets(c, ps) ==
  LET again == retryBuffered(c)
  IN IF c.closed THEN c
     ELSE IF ps # <<>> THEN handlePackets(handlePacket(c, Head(ps)), Tail(ps))
     ELSE IF again.now = <<>> THEN c ELSE handlePackets(again.c, again.now)

handleDatagramLocked(c, d) == handlePackets([c EXCEPT !.received = @ + 1], d)

\* A client starts again towards the address a Retry names.
handleRetry(c) ==
  LET s == c.spaces[Initial]
  IN IF ~isClient(c) \/ c.heardPeer \/ c.retried THEN c
     ELSE [c EXCEPT !.retried = TRUE, !.bytesInFlight = @ - Flying(s.sent),
                    !.spaces[Initial] = [s EXCEPT !.sent = <<>>, !.ackElicitingInFlight = @ - Asking(s.sent),
                                                  !.cryptoSend = onLost(@, 0, s.cryptoSend.next)]]

-----------------------------------------------------------------------------
(* Datagrams going out (send.go).  A packet in the making is               *)
(* [c, frames, room].                                                      *)

When(cond, f) == IF cond THEN <<f>> ELSE <<>>

appendControlFrames(w) ==
  LET c == w.c
      fs == When(c.handshakeDonePending, [f |-> "HANDSHAKE_DONE"])
            \o When(c.maxDataPending, [f |-> "MAX_DATA", max |-> c.recvMaxData])
            \o When("bidi" \in c.maxStreamsPending, [f |-> "MAX_STREAMS", kind |-> "bidi", max |-> c.max["bidi"]])
            \o When("uni" \in c.maxStreamsPending, [f |-> "MAX_STREAMS", kind |-> "uni", max |-> c.max["uni"]])
            \o When(c.pingPending, [f |-> "PING"])
  IN [w EXCEPT !.frames = @ \o fs, !.c.handshakeDonePending = FALSE, !.c.maxDataPending = FALSE,
               !.c.maxStreamsPending = {}, !.c.pingPending = FALSE]

RECURSIVE appendCrypto(_, _)
appendCrypto(w, space) ==
  LET b == w.c.spaces[space].cryptoSend
      with(p) == [w EXCEPT !.c.spaces[space].cryptoSend = p.b, !.room = @ - Len(p.data),
                           !.frames = Append(@, [f |-> "CRYPTO", off |-> p.off, data |-> p.data])]
  IN IF w.room = 0 \/ (wanted(b) = {} /\ b.next >= end(b)) THEN w
     ELSE appendCrypto(with(IF wanted(b) # {} THEN popLost(b, w.room) ELSE popNew(b, w.room)), space)

appendStreamFrame(w, id, off, data) ==
  LET s == w.c.streams[id]
      fin == s.finQueued /\ ~s.finSent /\ off + Len(data) = s.finalSize
  IN [w EXCEPT !.c.streams[id].finSent = @ \/ fin, !.room = @ - Len(data),
               !.frames = Append(@, [f |-> "STREAM", id |-> id, off |-> off, data |-> data, fin |-> fin])]

appendStreamControl(w, id) ==
  LET s == w.c.streams[id]
      fs == When(s.stopPending, [f |-> "STOP_SENDING", id |-> id])
            \o When(s.maxDataPending, [f |-> "MAX_STREAM_DATA", id |-> id, max |-> s.recvMax])
            \o When(s.resetPending, [f |-> "RESET_STREAM", id |-> id, max |-> s.finalSize])
  IN [w EXCEPT !.frames = @ \o fs,
               !.c.streams[id] = [s EXCEPT !.stopPending = FALSE, !.maxDataPending = FALSE, !.resetPending = FALSE]]

RECURSIVE appendData(_, _)
appendData(w, id) ==
  LET s == w.c.streams[id]
      with(p, new) == appendStreamFrame([w EXCEPT !.c.streams[id].send = p.b,
                                                  !.c.sentData = IF new THEN @ + Len(p.data) ELSE @],
                                        id, p.off, p.data)
  IN IF wanted(s.send) # {}
     THEN IF w.room = 0 THEN w ELSE appendData(with(popLost(s.send, w.room), FALSE), id)
     ELSE IF s.send.next < end(s.send)
     THEN IF w.room = 0 \/ sendCredit(w.c, s) = 0 THEN w
          ELSE appendData(with(popNew(s.send, Min({w.room, sendCredit(w.c, s)})), TRUE), id)
     ELSE IF s.finQueued /\ ~s.finSent THEN appendStreamFrame(w, id, s.send.next, <<>>) ELSE w

streamFrames(w, id) ==
  LET data(w1) == IF w.c.streams[id].reset \/ ~w.c.streams[id].hasSend THEN w1 ELSE appendData(w1, id)
  IN data(appendStreamControl(w, id))

\* The queue in turn from its i-th stream on.
RECURSIVE appendStreams(_, _)
appendStreams(w, i) ==
  LET q == w.c.sendQueue
      id == q[i]
      after(w1) == IF Has(w.c, id) /\ sendable(w1.c, w1.c.streams[id]) THEN appendStreams(w1, i + 1)
                   ELSE appendStreams([w1 EXCEPT !.c.sendQueue = RemoveAt(@, i)], i)
  IN IF i > Len(q) \/ w.room = 0
     THEN IF Len(q) > 1 /\ i > 1 THEN [w EXCEPT !.c.sendQueue = Append(Tail(q), q[1])] ELSE w
     ELSE after(IF Has(w.c, id) THEN streamFrames(w, id) ELSE w)

appendFrames(w, space) ==
  IF space = App THEN appendStreams(appendCrypto(appendControlFrames(w), App), 1) ELSE appendCrypto(w, space)

\* [ok, c, room, p, sp]: the packet of a space, or none when it has nothing to say.
buildPacket(c, space, room, mayElicit) ==
  LET s == c.spaces[space]
      withAck == s.ackPending /\ s.recv # {}
      ack == When(withAck, [f |-> "ACK", pns |-> s.recv])
      empty == [c |-> c, frames |-> <<>>, room |-> room]
      sent(s1, asks) ==
        [s1 EXCEPT !.nextPN = @ + 1, !.probes = IF asks # <<>> /\ @ > 0 THEN @ - 1 ELSE @,
                   !.ackPending = @ /\ ~withAck, !.ackNow = @ /\ ~withAck, !.unacked = IF withAck THEN 0 ELSE @]
      sealed(w, asks) ==
        IF asks = <<>> /\ ~(withAck /\ s.ackNow) THEN [ok |-> FALSE, c |-> w.c]
        ELSE [ok |-> TRUE, c |-> [w.c EXCEPT !.spaces[space] = sent(@, asks)], room |-> w.room,
              p |-> Packet(space, s, ack \o asks),
              sp |-> [pn |-> s.nextPN, t |-> c.clock, ackEliciting |-> asks # <<>>, inFlight |-> asks # <<>>, frames |-> asks]]
      filled(w) == sealed(w, IF w.frames = <<>> /\ s.probes > 0 THEN <<[f |-> "PING"]>> ELSE w.frames)
  IN IF room = 0 THEN [ok |-> FALSE, c |-> c]
     ELSE filled(IF mayElicit THEN appendFrames(empty, space) ELSE empty)

\* The packets of a datagram in the making, [c, room, ps, sps].
RECURSIVE buildPackets(_, _, _)
buildPackets(d, space, congestionOK) ==
  LET s == d.c.spaces[space]
      with(b) == IF ~b.ok THEN [d EXCEPT !.c = b.c]
                 ELSE [c |-> b.c, room |-> b.room, ps |-> Append(d.ps, b.p), sps |-> Append(d.sps, b.sp)]
  IN IF space > App THEN d
     ELSE IF ~s.tx \/ s.discarded THEN buildPackets(d, space + 1, congestionOK)
     ELSE buildPackets(with(buildPacket(d.c, space, d.room, congestionOK \/ s.probes > 0)), space + 1, congestionOK)

onPacketSent(c, space, sp) ==
  LET s == c.spaces[space]
      after(c1) == IF space = Handshake /\ isClient(c) THEN discardSpace(c1, Initial) ELSE c1
  IN after([c EXCEPT !.bytesInFlight = IF sp.inFlight THEN @ + 1 ELSE @,
               !.spaces[space] = [s EXCEPT !.sent = Append(@, sp),
                                           !.lastSent = IF sp.ackEliciting THEN sp.t ELSE @,
                                           !.ackElicitingInFlight = IF sp.ackEliciting THEN @ + 1 ELSE @]])

RECURSIVE packetsSent(_, _, _)
packetsSent(c, ps, sps) ==
  IF ps = <<>> THEN c ELSE packetsSent(onPacketSent(c, Head(ps).space, Head(sps)), Tail(ps), Tail(sps))

canSend(c) == c.bytesInFlight + 1 <= c.cwnd

buildDatagram(c) ==
  LET pads(d) == d.room > 0 /\ \E i \in 1..Len(d.ps) : d.ps[i].space = Initial /\ (isClient(c) \/ d.sps[i].ackEliciting)
      padded(d) == IF pads(d) THEN [d.sps EXCEPT ![Len(d.sps)].inFlight = TRUE] ELSE d.sps
      sends(d) == IF d.ps = <<>> THEN d.c
                  ELSE packetsSent([d.c EXCEPT !.clock = @ + 1, !.sentOut = @ + 1, !.out = Append(@, d.ps)], d.ps, padded(d))
  IN IF atAmplificationLimit(c) THEN c
     ELSE sends(buildPackets([c |-> c, room |-> Room, ps |-> <<>>, sps |-> <<>>], Initial, canSend(c)))

RECURSIVE flushLocked(_)
flushLocked(c) ==
  LET again(c1) == IF Len(c1.out) = Len(c.out) THEN c1 ELSE flushLocked(c1)
  IN IF c.closed THEN c ELSE again(buildDatagram(c))

-----------------------------------------------------------------------------
(* The connection as a whole.                                              *)

Sides == {"client", "server"}
Dial(flight) == flushLocked(writeCrypto(newConn("client", flight), Initial))
\* The server's connection before there is one.
Nobody(flight) == [newConn("server", flight) EXCEPT !.alive = FALSE]
Accept(c) == [c EXCEPT !.alive = TRUE]
\* The first datagram makes the server's connection and is handled by it at once.
HandleDatagram(c, d) == IF c.closed THEN c ELSE flushLocked(handleDatagramLocked(Accept(c), d))

\* Datagrams exchanged without a fault until both ends have nothing more to say.
RECURSIVE HandleAll(_, _)
HandleAll(c, ds) ==
  IF ds = <<>> THEN c ELSE HandleAll(HandleDatagram(c, Head(ds)), Tail(ds))
ackTimer(c) == flushLocked([c EXCEPT !.spaces[App].ackNow = TRUE])
Silent(c) == [c EXCEPT !.out = <<>>, !.events = <<>>]
RECURSIVE Exchanged(_)
Exchanged(p) ==
  LET c == p[1]
      s == p[2]
      still == c.out = <<>> /\ s.out = <<>>
      next(e) == IF still /\ e.spaces[App].ackPending THEN ackTimer(e) ELSE e
  IN IF still /\ ~c.spaces[App].ackPending /\ ~s.spaces[App].ackPending THEN p
     ELSE CHOOSE r \in {Exchanged(q) :
                           q \in {<<next(HandleAll(Silent(c), s.out)), next(HandleAll(Silent(s), c.out))>>}} : TRUE

Opened == Exchanged(<<Dial(2), Nobody(2)>>)

Told == [got |-> [x \in Sides |-> None], ended |-> [x \in Sides |-> {}], cut |-> [x \in Sides |-> {}],
         stopped |-> [x \in Sides |-> {}], stops |-> [x \in Sides |-> {}], closed |-> [x \in Sides |-> 0],
         wrote |-> [x \in Sides |-> None], late |-> FALSE, sent |-> 0]

Init ==
  /\ plan \in Plans
  /\ \E open \in {IF plan.from = "open" THEN Opened ELSE <<Dial(plan.flight), Nobody(plan.flight)>>} :
       /\ client = [open[1] EXCEPT !.out = <<>>]
       /\ server = open[2]
       /\ up = open[1].out
  /\ down = <<>>
  /\ log = Told

\* The handler is called with the events in their order, one at a time.
Hears(l, x, e) ==
  LET late == l.closed[x] > 0 \/ (e.id # NoStream /\ e.e # "stop" /\ e.id \in l.ended[x] \union l.cut[x])
      got == IF e.id \in DOMAIN l.got[x] THEN l.got[x][e.id] ELSE <<>>
      l1 == [l EXCEPT !.late = @ \/ late]
  IN CASE e.e = "data" -> [l1 EXCEPT !.got[x] = (e.id :> (got \o e.data)) @@ @]
       [] e.e = "fin" -> [l1 EXCEPT !.ended[x] = @ \union {e.id}]
       [] e.e = "reset" -> [l1 EXCEPT !.cut[x] = @ \union {e.id}]
       [] e.e = "stop" -> [l1 EXCEPT !.stopped[x] = @ \union {e.id}]
       [] e.e = "close" -> [l1 EXCEPT !.closed[x] = @ + 1]
       [] OTHER -> l1
RECURSIVE dispatch(_, _, _)
dispatch(l, x, es) == IF es = <<>> THEN l ELSE dispatch(Hears(l, x, Head(es)), x, Tail(es))

Conn(x) == IF x = "client" THEN client ELSE server
Wire(x) == IF x = "client" THEN down ELSE up
Peer(x) == IF x = "client" THEN "server" ELSE "client"

\* The datagrams that left the server while the client's address was not known.
Counted(l, x, c) ==
  IF x = "server" /\ ~c.addressValidated THEN [l EXCEPT !.sent = @ + Len(c.out)] ELSE l

\* x goes on as c; in is what is left on the way to it.
Becomes(x, conn, in, l) ==
  \E c \in {conn} :
    /\ IF x = "client" THEN client' = Silent(c) /\ server' = server /\ up' = up \o c.out /\ down' = in
                       ELSE server' = Silent(c) /\ client' = client /\ down' = down \o c.out /\ up' = in
    /\ log' = dispatch(Counted(l, x, c), x, c.events)

Spend(what) == plan[what] > 0 /\ plan' = [plan EXCEPT ![what] = @ - 1]

Deliver(x, i, in) == Becomes(x, HandleDatagram(Conn(x), Wire(x)[i]), in, log)

Arrive(x) == Wire(x) # <<>> /\ Deliver(x, 1, Tail(Wire(x))) /\ UNCHANGED plan
Overtake(x) == \E i \in 2..Len(Wire(x)) : Spend("overtakes") /\ Deliver(x, i, RemoveAt(Wire(x), i))
Repeat(x) == Wire(x) # <<>> /\ Spend("repeats") /\ Deliver(x, 1, Wire(x))
Lose(x) ==
  /\ Wire(x) # <<>> /\ Spend("losses")
  /\ IF x = "client" THEN down' = Tail(down) /\ up' = up ELSE up' = Tail(up) /\ down' = down
  /\ UNCHANGED <<client, server, log>>

\* A server on the way that wants the client's address proven first.
Retry == Spend("retries") /\ ~server.alive /\ Becomes("client", flushLocked(handleRetry(client)), down, log)

Quiet == up = <<>> /\ down = <<>>
Owes(x) == Conn(x).spaces[App].ackPending /\ ~Conn(x).spaces[App].ackNow /\ ~Conn(x).closed
Running(x) == Conn(x).alive /\ ~Conn(x).closed

\* onTimer: loss detection, a delayed acknowledgement, the keep-alive, and giving up.
LossDue(x) == Running(x) /\ ~Conn(Peer(x)).closed /\ lossDeadline(Conn(x))
afterLoss(c) == flushLocked(onLossDetectionTimeout(c))
LossTimer(x) == Becomes(x, afterLoss(Conn(x)), Wire(x), log)
AckTimer(x) == Becomes(x, ackTimer(Conn(x)), Wire(x), log)
KeepAlive(x) ==
  Running(x) /\ Conn(x).handshakeComplete /\ Spend("keepalives")
  /\ Becomes(x, flushLocked([Conn(x) EXCEPT !.pingPending = TRUE]), Wire(x), log)
GivesUp(x) == Becomes(x, terminateLocked(Conn(x), IF Conn(x).handshakeComplete THEN "idle" ELSE "handshake_timeout"), Wire(x), log)

\* ptoCount backs a timer off, so that the peer's fires before this one does again.
Turn(x) == plan.last # x \/ ~LossDue(Peer(x))
Timely(x) ==
  \/ Quiet /\ Owes(x) /\ AckTimer(x) /\ UNCHANGED plan
  \/ Quiet /\ ~Owes(Peer(x)) /\ LossDue(x) /\ Turn(x) /\ LossTimer(x) /\ plan' = [plan EXCEPT !.last = x]
  \/ Quiet /\ Running(x) /\ Conn(Peer(x)).closed /\ GivesUp(x) /\ UNCHANGED plan
Early(x) ==
  \/ Owes(x) /\ Spend("early") /\ AckTimer(x)
  \/ LossDue(x) /\ Spend("early") /\ LossTimer(x)
  \/ Running(x) /\ Spend("timeouts") /\ GivesUp(x)

\* What the application of x does next: op is [do, id, n, fin, after].
Known(c, id) == id.n < IF local(c, id) THEN c.opened[id.kind] ELSE c.peerOpened[id.kind]
Ready(x, op) ==
  /\ Running(x)
  /\ CASE op.do = "open" -> mayOpen(Conn(x), op.id.kind)
       [] op.do \in {"close", "closeWhenDone"} -> TRUE
       [] OTHER -> Known(Conn(x), op.id)
  /\ op.after => op.id \in log.ended[x]
Noted(l, x, op) ==
  LET was == IF op.id \in DOMAIN l.wrote[x] THEN l.wrote[x][op.id] ELSE [n |-> 0, fin |-> FALSE]
  IN IF op.do = "write" /\ writes(Conn(x), op.id)
     THEN [l EXCEPT !.wrote[x] = (op.id :> [n |-> was.n + op.n, fin |-> op.fin]) @@ @]
     ELSE IF op.do = "stop" THEN [l EXCEPT !.stops[x] = @ \union {op.id}] ELSE l
Called(c, op) ==
  CASE op.do = "open" -> openStream(c, op.id.kind)
    [] op.do = "write" -> IF writes(c, op.id) THEN flushLocked(writeLocked(c, op.id, op.n, op.fin)) ELSE c
    [] op.do = "reset" -> IF Has(c, op.id) THEN flushLocked(resetLocked(c, op.id)) ELSE c
    [] op.do = "stop" -> IF Has(c, op.id) THEN flushLocked(stopSendingLocked(c, op.id)) ELSE c
    [] op.do = "close" -> closeLocked(c, "app")
    [] op.do = "closeWhenDone" -> IF c.closeWhenDone THEN c ELSE closeIfDoneLocked([c EXCEPT !.closeWhenDone = TRUE])
Does(x) ==
  /\ plan.does[x] # <<>> /\ Ready(x, Head(plan.does[x]))
  /\ LET op == Head(plan.does[x]) IN Becomes(x, Called(Conn(x), op), Wire(x), Noted(log, x, op))
  /\ plan' = [plan EXCEPT !.does[x] = Tail(@)]

Working == \E x \in Sides : Arrive(x) \/ Does(x) \/ Timely(x)
Next ==
  \/ Working
  \/ Retry
  \/ \E x \in Sides : Overtake(x) \/ Repeat(x) \/ Lose(x) \/ Early(x) \/ KeepAlive(x)

Spec == Init /\ [][Next]_vars

\* Whether Working has something to do.
CanWork ==
  \/ ~Quiet
  \/ \E x \in Sides :
       \/ plan.does[x] # <<>> /\ Ready(x, Head(plan.does[x]))
       \/ Owes(x)
       \/ LossDue(x) /\ ~Owes(Peer(x)) /\ afterLoss(Conn(x)) # Conn(x)
       \/ Running(x) /\ Conn(Peer(x)).closed

(* Datagrams that are not lost arrive, timers fire, applications go on: what   *)
(* can be done is done.  The other steps are bounded by the plan.              *)
FairSpec == Spec /\ ([]<>~CanWork \/ []<><<TRUE>>_vars)

-----------------------------------------------------------------------------
(* The properties.                                                         *)

Streams(x) == DOMAIN Conn(x).streams
Between(x, id) == IF id \in DOMAIN log.wrote[x] THEN log.wrote[x][id] ELSE [n |-> 0, fin |-> FALSE]

(* What the handler is told of a stream is, byte for byte and in order, a     *)
(* beginning of what the peer wrote on it; the end is told only when all of   *)
(* it was, nothing after the end or after a reset, and OnClose comes last and *)
(* once (stream.go onStreamFrame and deliver, buffer.go, conn.go dispatch).   *)
StreamsIntact ==
  \A x \in Sides :
    /\ log.closed[x] <= 1
    /\ \A id \in DOMAIN log.got[x] :
         /\ log.got[x][id] = [i \in 1..Len(log.got[x][id]) |-> i]
         /\ Len(log.got[x][id]) <= Between(Peer(x), id).n
    /\ \A id \in log.ended[x] :
         /\ Between(Peer(x), id).fin
         /\ Between(Peer(x), id).n = IF id \in DOMAIN log.got[x] THEN Len(log.got[x][id]) ELSE 0
    /\ ~log.late

(* Neither end ever finds the other at fault: whatever is lost, repeated or   *)
(* reordered, no flow-control or stream limit is passed and no stream changes *)
(* its final size (stream.go sendCredit, resetLocked, conn.go openStream).    *)
QuicNeitherAtFault == \A x \in Sides : Conn(x).closeErr \in {"", "app", "idle", "handshake_timeout"}

Sum(f) == FoldFunction(+, 0, f)

(* What was received and not counted as read beyond what the streams that are *)
(* there have not read.                                                       *)
Unreturned(x) ==
  Conn(x).recvData - Conn(x).recvConsumed
    - Sum([id \in Streams(x) |-> Conn(x).streams[id].recvHigh - Conn(x).streams[id].recvRead])

(* What loss recovery and flow control count is what there is: the bytes in   *)
(* flight are those of the packets not yet acknowledged, lost or discarded;   *)
(* the windows of the two ends never cross; before the client's address is    *)
(* known the server has put at most three times what it received on the wire, *)
(* and once it has closed one datagram more, CONNECTION_CLOSE, which sendClose*)
(* sends whatever the limit (recovery.go, send.go buildDatagram, conn.go      *)
(* sendClose); and the connection's window is given back in full, but for     *)
(* streams that StopSending gave up and that ended with a gap, which keep at  *)
(* most what the peer wrote on them (stream.go consumed, onStreamFrame).      *)
QuicCounts ==
  /\ \A x \in Sides :
       LET c == Conn(x)
       IN /\ c.bytesInFlight = Sum([s \in Spaces |-> Flying(c.spaces[s].sent)])
          /\ \A s \in Spaces : c.spaces[s].ackElicitingInFlight = Asking(c.spaces[s].sent)
          /\ c.sentData <= c.peerMaxData /\ c.peerMaxData <= Conn(Peer(x)).recvMaxData
          /\ Conn(Peer(x)).recvData <= c.sentData
          /\ c.closed \/ Unreturned(x) \in 0..Sum([id \in log.stops[x] \ Streams(x) |-> Between(Peer(x), id).n])
          /\ c.peerMax["bidi"] <= Conn(Peer(x)).max["bidi"] /\ c.peerMax["uni"] <= Conn(Peer(x)).max["uni"]
  /\ server.addressValidated \/ log.sent <= 3 * server.received + (IF server.closed THEN 1 ELSE 0)

(* "Until the client's address is proven, a server sends at most three times  *)
(* what it received" (send.go:102), and "Nobody reads it, so it counts as read*)
(* at once" (stream.go:336), without the exceptions QuicCounts makes.         *)
SendsThrice == server.addressValidated \/ log.sent <= 3 * server.received
ReadAtOnce == \A x \in Sides : Conn(x).closed \/ Unreturned(x) = 0

\* Something the connection still owes its applications.
Owing ==
  /\ Running("client") /\ ~server.closed
  /\ \/ ~server.alive \/ ~client.handshakeConfirmed \/ ~server.handshakeConfirmed
     \/ \E x \in Sides :
          \/ Conn(x).closeWhenDone
          \/ plan.does[x] # <<>>
          \/ \E id \in DOMAIN log.wrote[x] :
               /\ log.wrote[x][id].fin
               /\ id \notin log.ended[Peer(x)] \union log.cut[Peer(x)] \union log.stops[Peer(x)]
          \/ \E id \in Streams(x) : sendDone(Conn(x).streams[id]) /\ recvFinished(Conn(x).streams[id])

(* Whatever a bounded number of losses, repetitions and reorderings does, the *)
(* handshake is confirmed, what was written and ended is delivered and ended, *)
(* streams that wait for the peer's limit are opened, and CloseWhenDone       *)
(* closes (recovery.go onLossDetectionTimeout, ptoTimeSpace and probe).       *)
QuicDelivers == Owing ~> ~Owing
=============================================================================
