------------------------------- MODULE Framing -------------------------------
(***************************************************************************)
(* One direction of a connection, byte by byte: how write_data,            *)
(* read_to_buffer and parse_buffer make a stream of messages out of a      *)
(* non-blocking TCP socket.  DeNetwork uses the result: a connection moves *)
(* whole messages, in order, on their channel, and loses none of them when *)
(* it is closed.                                                           *)
(*                                                                         *)
(* The socket holds at most SockLen bytes.  A write may take only a part   *)
(* of what it is given; a read returns at most TempLen bytes, and less     *)
(* than a message or several at once.  Readiness is edge-triggered (mio):  *)
(* poll reports a socket once for what has come since the last report, so  *)
(* a reader that stops short of WouldBlock would never be woken for the    *)
(* rest.                                                                   *)
(***************************************************************************)
EXTENDS Integers, Sequences, SequencesExt

CONSTANTS
  Messages,   \* the messages, [ch, body] with bytes in body
  MaxSent,    \* how many of them the writer sends
  LenBytes,   \* the bytes of a header that hold the length (8 in the code)
  Base,       \* the values of a byte (256 in the code)
  SockLen,    \* the capacity of the socket, in bytes
  TempLen,    \* the reader's temporary buffer (1024 bytes in the code)
  MayReset    \* whether the connection may be reset

Byte == 0..(Base - 1)

\* n shifted right by i bytes, for i up to the length of a header's number.
Shifted(n) ==
  LET shifted[i \in 0..LenBytes] == IF i = 0 THEN n ELSE shifted[i - 1] \div Base
  IN  shifted

ASSUME SizesAssumption ==
  /\ LenBytes \in Nat \ {0} /\ Base \in Nat \ {0, 1}
  /\ SockLen \in Nat \ {0} /\ TempLen \in Nat \ {0} /\ MaxSent \in Nat
\* The length of a body is a number of LenBytes bytes (u64).
ASSUME MessagesAssumption ==
  /\ Messages \subseteq [ch : Byte, body : Seq(Byte)]
  /\ \A m \in Messages : Shifted(Len(m.body))[LenBytes] = 0
ASSUME ResetAssumption == MayReset \in BOOLEAN

VARIABLES
  toSend,   \* the messages that the writer has not started on
  sent,     \* the messages it has started on (history)
  unwritten,\* actual_data[written..] of the current one
  writer,   \* "open", "shut" (Data::Shutdown) or "panicked"
  sock,     \* the bytes in the socket
  reset,    \* the connection has been reset
  event,    \* poll has something to report
  reader,   \* "poll", "read", "parse" or "returned"
  eof,      \* the read loop ended with Ok(0) or an error
  buf,      \* the bytes read and not parsed
  out       \* the messages passed to the closure, in order

wvars == <<toSend, sent, unwritten, writer>>
rvars == <<reader, eof, buf, out>>
vars  == <<wvars, sock, reset, event, rvars>>

-----------------------------------------------------------------------------
\* u64::to_le_bytes and from_le_bytes, LenBytes digits to the base Base.
ToLE(n)   == [i \in 1..LenBytes |-> Shifted(n)[i - 1] % Base]
FromLE(d) ==
  LET value[k \in 0..LenBytes] ==
        IF k = 0 THEN 0 ELSE d[LenBytes + 1 - k] + Base * value[k - 1]
  IN  value[LenBytes]

HeaderLen == 1 + LenBytes
Encode(m) == <<m.ch>> \o ToLE(Len(m.body)) \o m.body

\* What parse_buffer sees at the front of its buffer.
HeaderAt(b)  == [ch |-> b[1], len |-> FromLE(SubSeq(b, 2, HeaderLen))]
HasWhole(b)  == Len(b) >= HeaderLen /\ Len(b) >= HeaderLen + HeaderAt(b).len
FirstOf(b)   == [ch |-> HeaderAt(b).ch,
                 body |-> SubSeq(b, HeaderLen + 1, HeaderLen + HeaderAt(b).len)]
AfterFirst(b) == SubSeq(b, HeaderLen + HeaderAt(b).len + 1, Len(b))

-----------------------------------------------------------------------------
(* The writer: write_data for each message, then perhaps Data::Shutdown.   *)

NextMessage ==
  /\ writer = "open" /\ unwritten = <<>> /\ toSend # <<>>
  /\ unwritten' = Encode(Head(toSend))
  /\ sent' = Append(sent, Head(toSend))
  /\ toSend' = Tail(toSend)
  /\ UNCHANGED <<writer, sock, reset, event, rvars>>

\* Faulty variant: `written` is one short after a write.
WriteSome_OffByOne ==
  /\ writer = "open" /\ unwritten # <<>> /\ ~reset
  /\ \E n \in 1..Len(unwritten) :
       /\ Len(sock) + n =< SockLen
       /\ sock' = sock \o SubSeq(unwritten, 1, n)
       /\ unwritten' = SubSeq(unwritten, n + (IF n = Len(unwritten) THEN 1 ELSE 0),
                              Len(unwritten))
  /\ event' = TRUE
  /\ UNCHANGED <<toSend, sent, writer, reset, rvars>>

\* stream.write takes the first n bytes; with a full socket it would block
\* and write_data tries again later.
WriteSome ==
  /\ writer = "open" /\ unwritten # <<>> /\ ~reset
  /\ \E n \in 1..Len(unwritten) :
       /\ Len(sock) + n =< SockLen
       /\ sock' = sock \o SubSeq(unwritten, 1, n)
       /\ unwritten' = SubSeq(unwritten, n + 1, Len(unwritten))
  /\ event' = TRUE
  /\ UNCHANGED <<toSend, sent, writer, reset, rvars>>

\* Any other error, or a write of no bytes, panics.
WriteFails ==
  /\ writer = "open" /\ unwritten # <<>> /\ reset
  /\ writer' = "panicked"
  /\ UNCHANGED <<toSend, sent, unwritten, sock, reset, event, rvars>>

ShutDown ==
  /\ writer = "open" /\ unwritten = <<>> /\ toSend = <<>>
  /\ writer' = "shut"
  /\ event' = TRUE
  /\ UNCHANGED <<toSend, sent, unwritten, sock, reset, rvars>>

\* The writing process dies: the end of what is in the socket may be lost.
Reset ==
  /\ MayReset /\ ~reset /\ writer # "shut"
  /\ reset' = TRUE
  /\ \E n \in 0..Len(sock) : sock' = SubSeq(sock, 1, n)
  /\ event' = TRUE
  /\ UNCHANGED <<wvars, rvars>>

-----------------------------------------------------------------------------
(* The reader: poll, read_to_buffer, parse_buffer, and again.              *)

Ended == writer = "shut" \/ reset

PollReturns ==
  /\ reader = "poll" /\ event
  /\ event' = FALSE
  /\ reader' = "read"
  /\ UNCHANGED <<wvars, sock, reset, eof, buf, out>>

ReadSome ==
  /\ reader = "read" /\ sock # <<>>
  /\ \E n \in 1..TempLen :
       /\ n =< Len(sock)
       /\ buf' = buf \o SubSeq(sock, 1, n)
       /\ sock' = SubSeq(sock, n + 1, Len(sock))
  /\ UNCHANGED <<wvars, reset, event, reader, eof, out>>

\* Faulty variants: the read loop stops after one read; the end of the stream
\* is not noticed.
ReadStops_Once ==
  /\ reader = "read"
  /\ eof' = (Ended /\ sock = <<>>)
  /\ reader' = "parse"
  /\ UNCHANGED <<wvars, sock, reset, event, buf, out>>

ReadStops_NoEnd ==
  /\ reader = "read" /\ sock = <<>>
  /\ eof' = FALSE
  /\ reader' = "parse"
  /\ UNCHANGED <<wvars, sock, reset, event, buf, out>>

\* Ok(0) or an error when the stream has ended, WouldBlock otherwise: in all
\* the cases the caller goes on to parse what it has.
ReadStops ==
  /\ reader = "read" /\ sock = <<>>
  /\ eof' = Ended
  /\ reader' = "parse"
  /\ UNCHANGED <<wvars, sock, reset, event, buf, out>>

ParseOne ==
  /\ reader = "parse" /\ HasWhole(buf)
  /\ out' = Append(out, FirstOf(buf))
  /\ buf' = AfterFirst(buf)
  /\ UNCHANGED <<wvars, sock, reset, event, reader, eof>>

ParseStops ==
  /\ reader = "parse" /\ ~HasWhole(buf)
  /\ reader' = IF eof THEN "returned" ELSE "poll"
  /\ UNCHANGED <<wvars, sock, reset, event, eof, buf, out>>

-----------------------------------------------------------------------------
Init ==
  /\ toSend \in UNION {[1..n -> Messages] : n \in 0..MaxSent}
  /\ sent = <<>> /\ unwritten = <<>> /\ writer = "open"
  /\ sock = <<>> /\ reset = FALSE /\ event = FALSE
  /\ reader = "poll" /\ eof = FALSE /\ buf = <<>> /\ out = <<>>

Writer == NextMessage \/ WriteSome \/ WriteFails \/ ShutDown
Reader == PollReturns \/ ReadSome \/ ReadStops \/ ParseOne \/ ParseStops

Finished == reader = "returned" /\ (writer # "open" \/ reset) /\ UNCHANGED vars

Next == Writer \/ Reader \/ Reset \/ Finished

Spec     == Init /\ [][Next]_vars
FairSpec == Spec /\ WF_vars(Writer) /\ WF_vars(Reader)

-----------------------------------------------------------------------------
TypeOK ==
  /\ sent \in Seq(Messages) /\ toSend \in Seq(Messages)
  /\ unwritten \in Seq(Byte) /\ buf \in Seq(Byte)
  /\ sock \in Seq(Byte) /\ Len(sock) =< SockLen
  /\ writer \in {"open", "shut", "panicked"}
  /\ reader \in {"poll", "read", "parse", "returned"}
  /\ reset \in BOOLEAN /\ event \in BOOLEAN /\ eof \in BOOLEAN

\* The closure gets the messages that were sent, whole and in order, however
\* reads and writes cut the stream, and never a part of one: not even when
\* the connection is reset in the middle of it.  The messages parsed, then the
\* reader's buffer, the socket and the rest of the current write make up
\* exactly what was sent.
Bytes(ms) == FlattenSeq([i \in DOMAIN ms |-> Encode(ms[i])])
StreamExact ==
  /\ TypeOK
  /\ IsPrefix(out, sent)
  /\ ~reset => Bytes(out) \o buf \o sock \o unwritten = Bytes(sent)

\* A reader that polls without a pending event leaves nothing in the socket
\* and no whole message in its buffer: no wakeup is lost, and no message
\* waits for the next one to be noticed.
NoLostWakeup ==
  reader = "poll" /\ ~event => sock = <<>> /\ ~HasWhole(buf) /\ ~Ended

\* The reader learns in the end that the stream has ended, and after an orderly
\* shutdown it has then passed everything on, although the socket is smaller
\* than a message: the messages that come with the end are not dropped.
AllReceived ==
  <>(reader = "returned" /\ (~reset => out = sent /\ toSend = <<>>))
=============================================================================
