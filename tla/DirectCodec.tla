---------------------------- MODULE DirectCodec -----------------------------
(***************************************************************************)
(* The frames of the direct protocol, src/pkg/direct/proto.go.  As in      *)
(* Codec a cell is a byte or a whole uint32: what is 4 bytes in the code   *)
(* is UINT32_SIZE here.                                                    *)
(***************************************************************************)
EXTENDS Naturals, Sequences, Codec

FrameHeaderSize == 3 * UINT32_SIZE
ConnTypeDirectClient == 101
ConnTypeDirectServer == 102
DTCall == 1
DTReply == 2
DTHealth == 4

PackFrame(connType, dataType, content) == <<connType, dataType, Len(content)>> \o content

PackCall(service, payload) == <<Len(service)>> \o service \o <<Len(payload)>> \o payload

\* A Call, or an error when a length points behind the content.
UnpackCall(content) ==
  LET slen == Uint32(content, 0)
      off == UINT32_SIZE + slen
      plen == Uint32(content, off)
      start == off + UINT32_SIZE
  IN IF Len(content) < 2 * UINT32_SIZE \/ start > Len(content) \/ start + plen > Len(content)
     THEN [ok |-> FALSE]
     ELSE [ok |-> TRUE, Service |-> Slice(content, UINT32_SIZE, off),
           Payload |-> Slice(content, start, start + plen)]

PackReply(status, data) == <<status, Len(data)>> \o data

\* A Reply, or an error when its length points behind the content.
UnpackReply(content) ==
  LET start == 2 * UINT32_SIZE
      dlen == Uint32(content, UINT32_SIZE)
  IN IF Len(content) < start \/ start + dlen > Len(content) THEN [ok |-> FALSE]
     ELSE [ok |-> TRUE, Status |-> Uint32(content, 0), Data |-> Slice(content, start, start + dlen)]

\* A stream that holds a whole header; the fields of that header; what follows it.
HasHeader(stream) == Len(stream) >= FrameHeaderSize
ConnTypeOf(stream) == Uint32(stream, 0)
DataTypeOf(stream) == Uint32(stream, UINT32_SIZE)
ContentLenOf(stream) == Uint32(stream, 2 * UINT32_SIZE)
AfterHeader(stream) == Slice(stream, FrameHeaderSize, Len(stream))

\* io.ReadFull of n cells, and what it leaves.
Taken(stream, n) == Slice(stream, 0, n)
Rest(stream, n) == Slice(stream, n, Len(stream))
=============================================================================
