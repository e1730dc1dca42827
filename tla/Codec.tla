------------------------------- MODULE Codec --------------------------------
(***************************************************************************)
(* The frames of the RPC protocol: what client, server and worker write    *)
(* and how each reads what the others wrote.  A frame is a sequence of     *)
(* cells; a cell is a byte, or a whole uint32, so UINT32_SIZE is 1 here    *)
(* and MIN_DATA_SIZE, three uint32s, is 3.  The four layouts differ: a     *)
(* length stands before its field or all lengths stand first, and the      *)
(* order of the fields is not the same in any two of them.                 *)
(***************************************************************************)
EXTENDS Naturals, Sequences

UINT32_SIZE == 1
MIN_DATA_SIZE == 3

CONN_TYPE_SERVER == 1
CONN_TYPE_WORKER == 2
CONN_TYPE_CLIENT == 3

PDT_ERROR == 2
PDT_CANT_DO == 4
PDT_S_GET_DATA == 10
PDT_S_RETURN_DATA == 11
PDT_W_RETURN_DATA == 15
PDT_C_DO_JOB == 16
PDT_RATELIMIT == 18

\* The cells from start up to, not including, end: data[start:end].
Slice(data, start, end) == SubSeq(data, start + 1, end)

\* The uint32 at an offset.
Uint32(data, at) == data[at + 1]

\* A new buffer of n cells into which src is copied: what does not fit is lost,
\* what is not written is 0.
Buffer(n, src) == [i \in 1..n |-> IF i <= Len(src) THEN src[i] ELSE 0]

\* The head of every frame and the content behind it.
EncodePack(connType, dataType, dataLen, content) ==
  <<connType, dataType, dataLen>> \o Buffer(dataLen, content)

-----------------------------------------------------------------------------
(* Client to server: a call *)

ContentPack(c) ==
  <<c.ParamsType, c.ParamsHandleType, Len(c.Handle)>> \o c.Handle \o <<Len(c.Params)>> \o c.Params

ContentLen(c) ==
  UINT32_SIZE + UINT32_SIZE + UINT32_SIZE + Len(c.Handle) + UINT32_SIZE + Len(c.Params)

ClientEncodePack(c) == EncodePack(CONN_TYPE_CLIENT, PDT_C_DO_JOB, ContentLen(c), ContentPack(c))

\* Mutant of ReqDecodeDoJob: the length of the parameters is not skipped.
ReqDecodeDoJobShort(data) ==
  LET handleEnd == 3 * UINT32_SIZE + Uint32(data, 2 * UINT32_SIZE)
      paramsLen == Uint32(data, handleEnd)
  IN [ParamsType |-> Uint32(data, 0), ParamsHandleType |-> Uint32(data, UINT32_SIZE),
      Handle |-> Slice(data, 3 * UINT32_SIZE, handleEnd),
      Params |-> Buffer(paramsLen, Slice(data, handleEnd, Len(data)))]

\* ReqDecodePack of a PDT_C_DO_JOB.
ReqDecodeDoJob(data) ==
  LET handleEnd == 3 * UINT32_SIZE + Uint32(data, 2 * UINT32_SIZE)
      paramsLen == Uint32(data, handleEnd)
  IN [ParamsType |-> Uint32(data, 0), ParamsHandleType |-> Uint32(data, UINT32_SIZE),
      Handle |-> Slice(data, 3 * UINT32_SIZE, handleEnd),
      Params |-> Buffer(paramsLen, Slice(data, handleEnd + UINT32_SIZE, Len(data)))]

-----------------------------------------------------------------------------
(* Server to worker: a job *)

\* GetResContent of a PDT_S_GET_DATA.
GetDataContent(r) ==
  <<r.ParamsType, r.ParamsHandleType, Len(r.Handle), Len(r.Params), Len(r.JobId)>>
    \o r.Handle \o r.Params \o r.JobId

GetDataLen(r) ==
  UINT32_SIZE + UINT32_SIZE + UINT32_SIZE + Len(r.Handle) + UINT32_SIZE + Len(r.Params)
    + UINT32_SIZE + Len(r.JobId)

\* The worker's DecodePack of a PDT_S_GET_DATA; ParseParams keeps the cells.
WorkerDecodePack(data) ==
  LET at == MIN_DATA_SIZE
      fields == at + 5 * UINT32_SIZE
      handleEnd == fields + Uint32(data, at + 2 * UINT32_SIZE)
      paramsEnd == handleEnd + Uint32(data, at + 3 * UINT32_SIZE)
      jobIdEnd == paramsEnd + Uint32(data, at + 4 * UINT32_SIZE)
  IN [ParamsType |-> Uint32(data, at), ParamsHandleType |-> Uint32(data, at + UINT32_SIZE),
      Handle |-> Slice(data, fields, handleEnd), Params |-> Slice(data, handleEnd, paramsEnd),
      JobId |-> Slice(data, paramsEnd, jobIdEnd)]

-----------------------------------------------------------------------------
(* Worker to server: a result *)

RetPack(w, ret) ==
  <<Len(w.Handle)>> \o w.Handle \o <<Len(w.Params)>> \o w.Params \o <<Len(ret)>> \o ret
    \o <<Len(w.JobId)>> \o w.JobId

RetLen(w, ret) ==
  UINT32_SIZE + Len(w.Handle) + UINT32_SIZE + Len(w.Params) + UINT32_SIZE + Len(ret)
    + UINT32_SIZE + Len(w.JobId)

WorkerEncodePack(w, ret) ==
  EncodePack(CONN_TYPE_WORKER, PDT_W_RETURN_DATA, RetLen(w, ret), RetPack(w, ret))

\* ReqDecodePack of a PDT_W_RETURN_DATA.
ReqDecodeReturn(data) ==
  LET handleEnd == UINT32_SIZE + Uint32(data, 0)
      params == handleEnd + UINT32_SIZE
      paramsEnd == params + Uint32(data, handleEnd)
      ret == paramsEnd + UINT32_SIZE
      retEnd == ret + Uint32(data, paramsEnd)
      jobIdLen == Uint32(data, retEnd)
  IN [Handle |-> Slice(data, UINT32_SIZE, handleEnd), Params |-> Slice(data, params, paramsEnd),
      Ret |-> Slice(data, ret, retEnd),
      JobId |-> Buffer(jobIdLen, Slice(data, retEnd + UINT32_SIZE, Len(data)))]

-----------------------------------------------------------------------------
(* Server to client: the answer *)

\* GetResContent of a PDT_S_RETURN_DATA.
ReturnContent(r) == <<Len(r.Handle), Len(r.Params), Len(r.Ret)>> \o r.Handle \o r.Params \o r.Ret

ReturnLen(r) ==
  UINT32_SIZE + Len(r.Handle) + UINT32_SIZE + Len(r.Params) + UINT32_SIZE + Len(r.Ret)

\* ResEncodePack; every other data type has no content.
ResEncodePack(dataType, r) ==
  IF dataType = PDT_S_GET_DATA
  THEN EncodePack(CONN_TYPE_SERVER, dataType, GetDataLen(r), GetDataContent(r))
  ELSE IF dataType = PDT_S_RETURN_DATA
  THEN EncodePack(CONN_TYPE_SERVER, dataType, ReturnLen(r), ReturnContent(r))
  ELSE EncodePack(CONN_TYPE_SERVER, dataType, 0, <<>>)

\* The client's DecodePack; the fields stay empty unless there is a result.
ClientDecodePack(data) ==
  LET at == MIN_DATA_SIZE
      fields == at + 3 * UINT32_SIZE
      handleEnd == fields + Uint32(data, at)
      paramsEnd == handleEnd + Uint32(data, at + UINT32_SIZE)
      retEnd == paramsEnd + Uint32(data, at + 2 * UINT32_SIZE)
  IN IF Uint32(data, UINT32_SIZE) = PDT_S_RETURN_DATA
     THEN [DataType |-> PDT_S_RETURN_DATA, Handle |-> Slice(data, fields, handleEnd),
           Params |-> Slice(data, handleEnd, paramsEnd), Ret |-> Slice(data, paramsEnd, retEnd)]
     ELSE [DataType |-> Uint32(data, UINT32_SIZE), Handle |-> <<>>, Params |-> <<>>, Ret |-> <<>>]

-----------------------------------------------------------------------------
(* A frame on a stream, and the way of a call through server and worker *)

\* ReadFrame has a whole frame to read: a head, and as much content as it says.
FrameLen(stream) == MIN_DATA_SIZE + Uint32(stream, 2 * UINT32_SIZE)
HasFrame(stream) == Len(stream) >= MIN_DATA_SIZE /\ Len(stream) >= FrameLen(stream)

\* What the server's ReadFrame returns of a frame.
Payload(frame) == Slice(frame, MIN_DATA_SIZE, FrameLen(frame))

\* The job a call becomes: doJobAsync and NewJobData, sent by doWork.
JobOf(req, jobId) ==
  [ParamsType |-> req.ParamsType, ParamsHandleType |-> req.ParamsHandleType,
   Handle |-> req.Handle, Params |-> req.Params, JobId |-> jobId]

\* The job of a call's frame, as the worker decodes it.
AtWorker(frame, jobId) ==
  WorkerDecodePack(ResEncodePack(PDT_S_GET_DATA, JobOf(ReqDecodeDoJob(Payload(frame)), jobId)))

\* The answer to a call's frame when the worker's function returns ret; none when
\* the result does not fit the job.
Answer(frame, jobId, ret) ==
  LET job == JobOf(ReqDecodeDoJob(Payload(frame)), jobId)
      back == ReqDecodeReturn(Payload(WorkerEncodePack(AtWorker(frame, jobId), ret)))
  IN IF back.Handle = job.Handle /\ Len(back.Params) = Len(job.Params)
     THEN ResEncodePack(PDT_S_RETURN_DATA,
            [Handle |-> job.Handle, Params |-> job.Params, Ret |-> back.Ret])
     ELSE <<>>
=============================================================================
