---------------------------- MODULE ClientProofs ----------------------------
(***************************************************************************)
(* The RPC client, for any functions, parameters and results, any number   *)
(* of calls, connections and callers: what the frames carry (Codec), what  *)
(* the callbacks are given and what the users of a Client survive          *)
(* (RpcClient, Gateway), and the account of the pool of Clients            *)
(* (ClientPool).                                                           *)
(***************************************************************************)
EXTENDS Gateway, ClientPool, QueueLemmas, TLAPS

-----------------------------------------------------------------------------
(* Codec: sequences of cells *)

\* A slice within data: its length and its cells.
LEMMA SliceCells ==
  ASSUME NEW d \in Seq(Nat), NEW at \in Nat, NEW end \in Nat, at <= end, end <= Len(d)
  PROVE  /\ Slice(d, at, end) \in Seq(Nat) /\ Len(Slice(d, at, end)) = end - at
         /\ \A i \in 1..end - at : Slice(d, at, end)[i] = d[at + i]
  BY PartCells, Zenon DEF Slice

\* A slice from where a field stands to its end is the field.
LEMMA SliceStands ==
  \A d, at, x : Stands(d, at, x) => Slice(d, at, at + Len(x)) = x
  BY PartStands, Zenon DEF Slice

\* A field of one cell, read as an uint32.
LEMMA OneCell ==
  \A d, at, x : Stands(d, at, x) /\ Len(x) = 1 => Uint32(d, at) = x[1]
  BY DEF Stands, Uint32

\* Four fields packed one behind the other.
Fields(a, x, y, z) == a \o x \o y \o z

\* They are as long as all of them, ...
LEMMA FieldsLen ==
  \A a, x, y, z :
    a \in Seq(Nat) /\ x \in Seq(Nat) /\ y \in Seq(Nat) /\ z \in Seq(Nat) =>
      /\ Fields(a, x, y, z) \in Seq(Nat)
      /\ Len(Fields(a, x, y, z)) = Len(a) + Len(x) + Len(y) + Len(z)
<1>. SUFFICES ASSUME NEW a, NEW x, NEW y, NEW z,
                     a \in Seq(Nat), x \in Seq(Nat), y \in Seq(Nat), z \in Seq(Nat)
     PROVE  /\ Fields(a, x, y, z) \in Seq(Nat)
            /\ Len(Fields(a, x, y, z)) = Len(a) + Len(x) + Len(y) + Len(z)
  OBVIOUS
<1>1. a \o x \in Seq(Nat) /\ Len(a \o x) = Len(a) + Len(x)
  BY ConcatProperties
<1>2. a \o x \o y \in Seq(Nat) /\ Len(a \o x \o y) = Len(a) + Len(x) + Len(y)
  BY <1>1, ConcatProperties
<1>3. a \o x \o y \o z \in Seq(Nat) /\ Len(a \o x \o y \o z) = Len(a) + Len(x) + Len(y) + Len(z)
  BY <1>2, ConcatProperties
<1>. QED
  BY <1>3, Zenon DEF Fields

\* ... and stand one behind the other.
LEMMA FieldsStand ==
  \A d, at, a, x, y, z :
    a \in Seq(Nat) /\ x \in Seq(Nat) /\ y \in Seq(Nat) /\ z \in Seq(Nat) /\ Stands(d, at, Fields(a, x, y, z)) =>
      /\ Stands(d, at, a) /\ Stands(d, at + Len(a), x)
      /\ Stands(d, at + Len(a) + Len(x), y) /\ Stands(d, at + Len(a) + Len(x) + Len(y), z)
<1>. SUFFICES ASSUME NEW d, NEW at, NEW a, NEW x, NEW y, NEW z,
                     a \in Seq(Nat), x \in Seq(Nat), y \in Seq(Nat), z \in Seq(Nat),
                     Stands(d, at, Fields(a, x, y, z))
     PROVE  /\ Stands(d, at, a) /\ Stands(d, at + Len(a), x)
            /\ Stands(d, at + Len(a) + Len(x), y) /\ Stands(d, at + Len(a) + Len(x) + Len(y), z)
  OBVIOUS
<1>1. a \o x \in Seq(Nat) /\ Len(a \o x) = Len(a) + Len(x)
  BY ConcatProperties
<1>2. a \o x \o y \in Seq(Nat) /\ Len(a \o x \o y) = Len(a) + Len(x) + Len(y)
  BY <1>1, ConcatProperties
<1>3. Stands(d, at, a \o x \o y) /\ Stands(d, at + Len(a \o x \o y), z)
  BY <1>2, StandsConcat DEF Fields
<1>4. Stands(d, at, a \o x) /\ Stands(d, at + Len(a \o x), y)
  BY <1>1, <1>3, StandsConcat
<1>5. Stands(d, at, a) /\ Stands(d, at + Len(a), x)
  BY <1>4, StandsConcat
<1>6. at \in Nat
  BY DEF Stands
<1>7. at + Len(a \o x) = at + Len(a) + Len(x) /\ at + Len(a \o x \o y) = at + Len(a) + Len(x) + Len(y)
  BY <1>1, <1>2, <1>6, LenProperties
<1>. QED
  BY <1>3, <1>4, <1>5, <1>7

\* A buffer of the length of what is copied into it is a copy.
LEMMA BufferCopies ==
  \A x : x \in Seq(Nat) => Buffer(Len(x), x) = x
  BY LenProperties DEF Buffer

-----------------------------------------------------------------------------
(* Frames *)

\* A frame with a data type and a content: ReadFrame finds as much as there is.
Framed(f, t, c) ==
  /\ f \in Seq(Nat) /\ Len(f) = 3 + Len(c) /\ f[2] = t /\ f[3] = Len(c) /\ Stands(f, 3, c)

\* EncodePack makes a frame.
LEMMA EncodeFrames ==
  ASSUME NEW s \in Nat, NEW t \in Nat, NEW c \in Seq(Nat), NEW n, n = Len(c)
  PROVE  Framed(EncodePack(s, t, n, c), t, c)
<1>1. Len(c) \in Nat
  BY LenProperties
<1>2. PICK head : head = <<s, t, Len(c)>>
  OBVIOUS
<1>3. head \in Seq(Nat) /\ Len(head) = 3 /\ head[2] = t /\ head[3] = Len(c)
  BY <1>1, <1>2
<1>4. PICK f : f = head \o c
  OBVIOUS
<1>5. EncodePack(s, t, n, c) = f
  BY <1>2, <1>4, BufferCopies DEF EncodePack
<1>. HIDE <1>2
<1>6. f \in Seq(Nat) /\ Len(f) = Len(head) + Len(c)
  BY <1>3, <1>4, ConcatProperties
<1>7. Stands(f, 0, head) /\ Stands(f, 0 + Len(head), c)
  BY <1>3, <1>4, <1>6, StandsSelf, StandsConcat
<1>8. Stands(f, 3, c) /\ f[2] = t /\ f[3] = Len(c)
  BY <1>3, <1>7 DEF Stands
<1>. QED
  BY <1>3, <1>5, <1>6, <1>8 DEF Framed

\* ReadFrame takes a frame whole, and its content is the content.
LEMMA FramedPayload ==
  \A f, t, c : Framed(f, t, c) => FrameLen(f) = Len(f) /\ Payload(f) = c
<1>. SUFFICES ASSUME NEW f, NEW t, NEW c, Framed(f, t, c) PROVE FrameLen(f) = Len(f) /\ Payload(f) = c
  OBVIOUS
<1>1. FrameLen(f) = 3 + Len(c)
  BY DEF FrameLen, Framed, Uint32, MIN_DATA_SIZE, UINT32_SIZE
<1>2. Slice(f, 3, 3 + Len(c)) = c
  BY SliceStands DEF Framed
<1>. QED
  BY <1>1, <1>2 DEF Payload, Framed, MIN_DATA_SIZE

-----------------------------------------------------------------------------
(* The four hops *)

\* A request as the client packs it, a job as the server sends it, and a result as
\* the server sends it on.
CallRec == [ParamsType : Nat, ParamsHandleType : Nat, Handle : Seq(Nat), Params : Seq(Nat)]
JobRec == [ParamsType : Nat, ParamsHandleType : Nat, Handle : Seq(Nat), Params : Seq(Nat),
           JobId : Seq(Nat)]
RetRec == [Handle : Seq(Nat), Params : Seq(Nat), Ret : Seq(Nat)]

\* A call: the server finds in the frame what the client packed.
LEMMA CallArrives ==
  ASSUME NEW c \in CallRec
  PROVE  ReqDecodeDoJob(Payload(ClientEncodePack(c))) = c
<1>1. PICK h \in Seq(Nat), p \in Seq(Nat), s \in Nat, t \in Nat :
        c = [ParamsType |-> s, ParamsHandleType |-> t, Handle |-> h, Params |-> p]
  BY DEF CallRec
<1>2. PICK a, b : a = <<s, t, Len(h)>> /\ b = <<Len(p)>>
  OBVIOUS
<1>3. a \in Seq(Nat) /\ b \in Seq(Nat)
  BY <1>2, LenProperties
<1>4. Len(a) = 3 /\ Len(b) = 1 /\ a[1] = s /\ a[2] = t /\ a[3] = Len(h) /\ b[1] = Len(p)
  BY <1>2
<1>5. PICK d, o : d = Fields(a, h, b, p) /\ o = 0
  OBVIOUS
<1>6. ContentPack(c) = d
  BY <1>1, <1>2, <1>5 DEF ContentPack, Fields
<1>7. d \in Seq(Nat) /\ Len(d) = Len(a) + Len(h) + Len(b) + Len(p)
  BY <1>3, <1>5, FieldsLen
<1>8. Stands(d, o, Fields(a, h, b, p))
  BY <1>5, <1>7, StandsSelf
<1>9. /\ Stands(d, o, a) /\ Stands(d, o + Len(a), h)
      /\ Stands(d, o + Len(a) + Len(h), b) /\ Stands(d, o + Len(a) + Len(h) + Len(b), p)
  BY <1>3, <1>8, FieldsStand
<1>10. /\ Stands(d, 0, a) /\ Stands(d, 3, h)
       /\ Stands(d, 3 + Len(h), b) /\ Stands(d, 3 + Len(h) + 1, p)
  BY <1>4, <1>5, <1>9
<1>11. Len(d) = 3 + Len(h) + 1 + Len(p)
  BY <1>4, <1>7
<1>12. Uint32(d, 0) = s /\ Uint32(d, 1) = t /\ Uint32(d, 2) = Len(h)
  <2>1. \A i \in 1..3 : d[0 + i] = a[i]
    BY <1>4, <1>10 DEF Stands
  <2>2. d[1] = a[1] /\ d[2] = a[2] /\ d[3] = a[3]
    BY <2>1
  <2>. QED
    BY <1>4, <2>2 DEF Uint32
<1>13. Uint32(d, 3 + Len(h)) = Len(p)
  BY <1>4, <1>10, OneCell
<1>14. Slice(d, 3, 3 + Len(h)) = h
  BY <1>10, SliceStands
<1>15. Slice(d, 3 + Len(h) + 1, 3 + Len(h) + 1 + Len(p)) = p
  BY <1>10, SliceStands
<1>16. Buffer(Len(p), p) = p
  BY BufferCopies
<1>17. UINT32_SIZE = 1 /\ 2 * UINT32_SIZE = 2 /\ 3 * UINT32_SIZE = 3
  BY DEF UINT32_SIZE
<1>18. ReqDecodeDoJob(d) =
         [ParamsType |-> Uint32(d, 0), ParamsHandleType |-> Uint32(d, 1), Handle |-> Slice(d, 3, 3 + Len(h)),
          Params |-> Buffer(Uint32(d, 3 + Len(h)), Slice(d, 3 + Len(h) + 1, Len(d)))]
  BY <1>12, <1>17 DEF ReqDecodeDoJob
<1>19. ReqDecodeDoJob(d) = c
  BY <1>1, <1>11, <1>12, <1>13, <1>14, <1>15, <1>16, <1>18
<1>20. ContentLen(c) = Len(d)
  BY <1>1, <1>11, LenProperties DEF ContentLen, UINT32_SIZE
<1>21. Framed(ClientEncodePack(c), PDT_C_DO_JOB, d)
  BY <1>6, <1>7, <1>20, EncodeFrames DEF ClientEncodePack, CONN_TYPE_CLIENT, PDT_C_DO_JOB
<1>22. Payload(ClientEncodePack(c)) = d
  BY <1>21, FramedPayload
<1>. QED
  BY <1>19, <1>22

\* A job: the worker finds in the frame what the server sent.
LEMMA JobArrives ==
  ASSUME NEW r \in JobRec
  PROVE  WorkerDecodePack(ResEncodePack(PDT_S_GET_DATA, r)) = r
<1>1. PICK h \in Seq(Nat), p \in Seq(Nat), j \in Seq(Nat), s \in Nat, t \in Nat :
        r = [ParamsType |-> s, ParamsHandleType |-> t, Handle |-> h, Params |-> p, JobId |-> j]
  BY DEF JobRec
<1>2. PICK a : a = <<s, t, Len(h), Len(p), Len(j)>>
  OBVIOUS
<1>3. a \in Seq(Nat)
  BY <1>2, LenProperties
<1>4. Len(a) = 5 /\ a[1] = s /\ a[2] = t /\ a[3] = Len(h) /\ a[4] = Len(p) /\ a[5] = Len(j)
  BY <1>2
<1>5. PICK c, f, o : c = Fields(a, h, p, j) /\ f = ResEncodePack(PDT_S_GET_DATA, r) /\ o = 3
  OBVIOUS
<1>6. GetDataContent(r) = c
  BY <1>1, <1>2, <1>5 DEF GetDataContent, Fields
<1>7. c \in Seq(Nat) /\ Len(c) = Len(a) + Len(h) + Len(p) + Len(j)
  BY <1>3, <1>5, FieldsLen
<1>8. GetDataLen(r) = Len(c)
  BY <1>1, <1>4, <1>7, LenProperties DEF GetDataLen, UINT32_SIZE
<1>9. Framed(f, PDT_S_GET_DATA, c)
  BY <1>5, <1>6, <1>7, <1>8, EncodeFrames DEF ResEncodePack, CONN_TYPE_SERVER, PDT_S_GET_DATA
<1>10. Stands(f, o, Fields(a, h, p, j))
  BY <1>5, <1>9 DEF Framed
<1>11. /\ Stands(f, o, a) /\ Stands(f, o + Len(a), h)
       /\ Stands(f, o + Len(a) + Len(h), p) /\ Stands(f, o + Len(a) + Len(h) + Len(p), j)
  BY <1>3, <1>10, FieldsStand
<1>12. /\ Stands(f, 3, a) /\ Stands(f, 8, h)
       /\ Stands(f, 8 + Len(h), p) /\ Stands(f, 8 + Len(h) + Len(p), j)
  BY <1>4, <1>5, <1>11
<1>13. /\ Uint32(f, 3) = s /\ Uint32(f, 4) = t
       /\ Uint32(f, 5) = Len(h) /\ Uint32(f, 6) = Len(p) /\ Uint32(f, 7) = Len(j)
  <2>1. \A i \in 1..5 : f[3 + i] = a[i]
    BY <1>4, <1>12 DEF Stands
  <2>2. f[4] = a[1] /\ f[5] = a[2] /\ f[6] = a[3] /\ f[7] = a[4] /\ f[8] = a[5]
    BY <2>1
  <2>. QED
    BY <1>4, <2>2 DEF Uint32
<1>14. Slice(f, 8, 8 + Len(h)) = h /\ Slice(f, 8 + Len(h), 8 + Len(h) + Len(p)) = p
  BY <1>12, SliceStands
<1>15. Slice(f, 8 + Len(h) + Len(p), 8 + Len(h) + Len(p) + Len(j)) = j
  BY <1>12, SliceStands
<1>16. /\ MIN_DATA_SIZE = 3 /\ 3 + 5 * UINT32_SIZE = 8 /\ 3 + UINT32_SIZE = 4 /\ 3 + 2 * UINT32_SIZE = 5
       /\ 3 + 3 * UINT32_SIZE = 6 /\ 3 + 4 * UINT32_SIZE = 7
  BY DEF UINT32_SIZE, MIN_DATA_SIZE
<1>17. WorkerDecodePack(f) = r
  BY <1>1, <1>13, <1>14, <1>15, <1>16 DEF WorkerDecodePack
<1>. QED
  BY <1>5, <1>17

\* A result: the server finds in the frame what the worker sent.
LEMMA ResultArrives ==
  ASSUME NEW k \in JobRec, NEW r \in Seq(Nat)
  PROVE  ReqDecodeReturn(Payload(WorkerEncodePack(k, r))) =
           [Handle |-> k.Handle, Params |-> k.Params, Ret |-> r, JobId |-> k.JobId]
<1>1. PICK h \in Seq(Nat), p \in Seq(Nat), j \in Seq(Nat) :
        k.Handle = h /\ k.Params = p /\ k.JobId = j
  BY DEF JobRec
<1>2. PICK u, v, w, x : u = <<Len(h)>> /\ v = <<Len(p)>> /\ w = <<Len(r)>> /\ x = <<Len(j)>>
  OBVIOUS
<1>3. u \in Seq(Nat) /\ v \in Seq(Nat) /\ w \in Seq(Nat) /\ x \in Seq(Nat)
  BY <1>2, LenProperties
<1>4. /\ Len(u) = 1 /\ Len(v) = 1 /\ Len(w) = 1 /\ Len(x) = 1
      /\ u[1] = Len(h) /\ v[1] = Len(p) /\ w[1] = Len(r) /\ x[1] = Len(j)
  BY <1>2
<1>5. PICK e : e = Fields(u, h, v, p)
  OBVIOUS
<1>6. PICK f : f = e \o w
  OBVIOUS
<1>7. PICK d, o : d = Fields(f, r, x, j) /\ o = 0
  OBVIOUS
<1>8. RetPack(k, r) = d
  BY <1>1, <1>2, <1>5, <1>6, <1>7 DEF RetPack, Fields
<1>9. e \in Seq(Nat) /\ Len(e) = Len(u) + Len(h) + Len(v) + Len(p)
  BY <1>3, <1>5, FieldsLen
<1>10. f \in Seq(Nat) /\ Len(f) = Len(e) + Len(w)
  BY <1>3, <1>6, <1>9, ConcatProperties
<1>11. d \in Seq(Nat) /\ Len(d) = Len(f) + Len(r) + Len(x) + Len(j)
  BY <1>3, <1>7, <1>10, FieldsLen
<1>12. Stands(d, o, Fields(f, r, x, j))
  BY <1>7, <1>11, StandsSelf
<1>13. /\ Stands(d, o, f) /\ Stands(d, o + Len(f), r)
       /\ Stands(d, o + Len(f) + Len(r), x) /\ Stands(d, o + Len(f) + Len(r) + Len(x), j)
  <2>1. f \in Seq(Nat)
    BY <1>10
  <2>. QED
    BY <1>3, <1>12, <2>1, FieldsStand
<1>14. Stands(d, o, Fields(u, h, v, p)) /\ Stands(d, o + Len(e), w)
  BY <1>3, <1>5, <1>6, <1>9, <1>13, StandsConcat
<1>15. /\ Stands(d, o, u) /\ Stands(d, o + Len(u), h)
       /\ Stands(d, o + Len(u) + Len(h), v) /\ Stands(d, o + Len(u) + Len(h) + Len(v), p)
  BY <1>3, <1>14, FieldsStand
<1>16. Stands(d, 0, u) /\ Stands(d, 1, h) /\ Stands(d, 1 + Len(h), v) /\ Stands(d, 1 + Len(h) + 1, p)
  BY <1>4, <1>7, <1>15
<1>17. Stands(d, 1 + Len(h) + 1 + Len(p), w) /\ Stands(d, 1 + Len(h) + 1 + Len(p) + 1, r)
  BY <1>4, <1>7, <1>9, <1>10, <1>13, <1>14
<1>18. /\ Stands(d, 1 + Len(h) + 1 + Len(p) + 1 + Len(r), x)
       /\ Stands(d, 1 + Len(h) + 1 + Len(p) + 1 + Len(r) + 1, j)
       /\ Len(d) = 1 + Len(h) + 1 + Len(p) + 1 + Len(r) + 1 + Len(j)
  BY <1>4, <1>7, <1>9, <1>10, <1>11, <1>13
<1>19. Uint32(d, 0) = Len(h) /\ Uint32(d, 1 + Len(h)) = Len(p)
  BY <1>4, <1>16, OneCell
<1>20. Uint32(d, 1 + Len(h) + 1 + Len(p)) = Len(r)
  BY <1>4, <1>17, OneCell
<1>21. Uint32(d, 1 + Len(h) + 1 + Len(p) + 1 + Len(r)) = Len(j)
  BY <1>4, <1>18, OneCell
<1>22. Slice(d, 1, 1 + Len(h)) = h /\ Slice(d, 1 + Len(h) + 1, 1 + Len(h) + 1 + Len(p)) = p
  BY <1>16, SliceStands
<1>23. Slice(d, 1 + Len(h) + 1 + Len(p) + 1, 1 + Len(h) + 1 + Len(p) + 1 + Len(r)) = r
  BY <1>17, SliceStands
<1>24. Slice(d, 1 + Len(h) + 1 + Len(p) + 1 + Len(r) + 1, 1 + Len(h) + 1 + Len(p) + 1 + Len(r) + 1 + Len(j)) = j
  BY <1>18, SliceStands
<1>25. Buffer(Len(j), j) = j
  BY BufferCopies
<1>26. ReqDecodeReturn(d) =
         [Handle |-> Slice(d, 1, 1 + Len(h)), Params |-> Slice(d, 1 + Len(h) + 1, 1 + Len(h) + 1 + Len(p)),
          Ret |-> Slice(d, 1 + Len(h) + 1 + Len(p) + 1, 1 + Len(h) + 1 + Len(p) + 1 + Len(r)),
          JobId |-> Buffer(Len(j), Slice(d, 1 + Len(h) + 1 + Len(p) + 1 + Len(r) + 1, Len(d)))]
  BY <1>19, <1>20, <1>21 DEF ReqDecodeReturn, UINT32_SIZE
<1>27. ReqDecodeReturn(d) = [Handle |-> h, Params |-> p, Ret |-> r, JobId |-> j]
  BY <1>18, <1>22, <1>23, <1>24, <1>25, <1>26
<1>28. RetLen(k, r) = Len(d)
  BY <1>1, <1>18, LenProperties DEF RetLen, UINT32_SIZE
<1>29. Framed(WorkerEncodePack(k, r), PDT_W_RETURN_DATA, d)
  BY <1>8, <1>11, <1>28, EncodeFrames DEF WorkerEncodePack, CONN_TYPE_WORKER, PDT_W_RETURN_DATA
<1>30. Payload(WorkerEncodePack(k, r)) = d
  BY <1>29, FramedPayload
<1>. QED
  BY <1>1, <1>27, <1>30

\* An answer: one frame, in which the client finds what the server sent.
LEMMA AnswerArrives ==
  ASSUME NEW r \in RetRec
  PROVE  /\ \E c \in Seq(Nat) : Framed(ResEncodePack(PDT_S_RETURN_DATA, r), PDT_S_RETURN_DATA, c)
         /\ ClientDecodePack(ResEncodePack(PDT_S_RETURN_DATA, r)) =
              [DataType |-> PDT_S_RETURN_DATA, Handle |-> r.Handle, Params |-> r.Params, Ret |-> r.Ret]
<1>1. PICK h \in Seq(Nat), p \in Seq(Nat), v \in Seq(Nat) :
        r.Handle = h /\ r.Params = p /\ r.Ret = v
  BY DEF RetRec
<1>2. PICK a : a = <<Len(h), Len(p), Len(v)>>
  OBVIOUS
<1>3. a \in Seq(Nat)
  BY <1>2, LenProperties
<1>4. Len(a) = 3 /\ a[1] = Len(h) /\ a[2] = Len(p) /\ a[3] = Len(v)
  BY <1>2
<1>5. PICK c, f, o : c = Fields(a, h, p, v) /\ f = ResEncodePack(PDT_S_RETURN_DATA, r) /\ o = 3
  OBVIOUS
<1>6. ReturnContent(r) = c
  BY <1>1, <1>2, <1>5 DEF ReturnContent, Fields
<1>7. c \in Seq(Nat) /\ Len(c) = Len(a) + Len(h) + Len(p) + Len(v)
  BY <1>3, <1>5, FieldsLen
<1>8. ReturnLen(r) = Len(c)
  BY <1>1, <1>4, <1>7, LenProperties DEF ReturnLen, UINT32_SIZE
<1>9. Framed(f, PDT_S_RETURN_DATA, c)
  BY <1>5, <1>6, <1>7, <1>8, EncodeFrames
  DEF ResEncodePack, CONN_TYPE_SERVER, PDT_S_GET_DATA, PDT_S_RETURN_DATA
<1>10. Stands(f, o, Fields(a, h, p, v)) /\ f[2] = PDT_S_RETURN_DATA
  BY <1>5, <1>9 DEF Framed
<1>11. /\ Stands(f, o, a) /\ Stands(f, o + Len(a), h)
       /\ Stands(f, o + Len(a) + Len(h), p) /\ Stands(f, o + Len(a) + Len(h) + Len(p), v)
  BY <1>3, <1>10, FieldsStand
<1>12. /\ Stands(f, 3, a) /\ Stands(f, 6, h)
       /\ Stands(f, 6 + Len(h), p) /\ Stands(f, 6 + Len(h) + Len(p), v)
  BY <1>4, <1>5, <1>11
<1>13. Uint32(f, 3) = Len(h) /\ Uint32(f, 4) = Len(p) /\ Uint32(f, 5) = Len(v)
  <2>1. \A i \in 1..3 : f[3 + i] = a[i]
    BY <1>4, <1>12 DEF Stands
  <2>2. f[4] = a[1] /\ f[5] = a[2] /\ f[6] = a[3]
    BY <2>1
  <2>. QED
    BY <1>4, <2>2 DEF Uint32
<1>14. Slice(f, 6, 6 + Len(h)) = h /\ Slice(f, 6 + Len(h), 6 + Len(h) + Len(p)) = p
  BY <1>12, SliceStands
<1>15. Slice(f, 6 + Len(h) + Len(p), 6 + Len(h) + Len(p) + Len(v)) = v
  BY <1>12, SliceStands
<1>16. MIN_DATA_SIZE = 3 /\ 3 + 3 * UINT32_SIZE = 6 /\ 3 + UINT32_SIZE = 4 /\ 3 + 2 * UINT32_SIZE = 5 /\ UINT32_SIZE = 1
  BY DEF UINT32_SIZE, MIN_DATA_SIZE
<1>17. Uint32(f, 1) = PDT_S_RETURN_DATA
  BY <1>10 DEF Uint32
<1>18. ClientDecodePack(f) = [DataType |-> PDT_S_RETURN_DATA, Handle |-> h, Params |-> p, Ret |-> v]
  BY <1>13, <1>14, <1>15, <1>16, <1>17 DEF ClientDecodePack
<1>. QED
  BY <1>1, <1>5, <1>7, <1>9, <1>18

\* An error: one frame without a content.
LEMMA ErrorArrives ==
  LET f == ResEncodePack(PDT_CANT_DO, <<>>) IN
    /\ \E c \in Seq(Nat) : Framed(f, PDT_CANT_DO, c)
    /\ ClientDecodePack(f) = [DataType |-> PDT_CANT_DO, Handle |-> <<>>, Params |-> <<>>, Ret |-> <<>>]
<1>1. PICK f, c : f = ResEncodePack(PDT_CANT_DO, <<>>) /\ c = <<>>
  OBVIOUS
<1>2. f = EncodePack(CONN_TYPE_SERVER, PDT_CANT_DO, 0, c)
  BY <1>1 DEF ResEncodePack, PDT_CANT_DO, PDT_S_GET_DATA, PDT_S_RETURN_DATA
<1>3. c \in Seq(Nat) /\ 0 = Len(c) /\ CONN_TYPE_SERVER \in Nat /\ PDT_CANT_DO \in Nat
  BY <1>1 DEF CONN_TYPE_SERVER, PDT_CANT_DO
<1>4. Framed(f, PDT_CANT_DO, c)
  BY <1>2, <1>3, EncodeFrames
<1>5. f[2] = PDT_CANT_DO
  BY <1>4 DEF Framed
<1>6. ClientDecodePack(f) = [DataType |-> PDT_CANT_DO, Handle |-> <<>>, Params |-> <<>>, Ret |-> <<>>]
  BY <1>5 DEF ClientDecodePack, Uint32, UINT32_SIZE, PDT_CANT_DO, PDT_S_RETURN_DATA
<1>. QED
  BY <1>1, <1>3, <1>4, <1>6

\* The job that the worker is given is the call.
LEMMA WorkerGetsCall ==
  ASSUME NEW c \in CallRec, NEW id \in Seq(Nat)
  PROVE  AtWorker(ClientEncodePack(c), id) = JobOf(c, id) /\ JobOf(c, id) \in JobRec
<1>1. JobOf(c, id) \in JobRec
  BY DEF JobOf, JobRec, CallRec
<1>2. ReqDecodeDoJob(Payload(ClientEncodePack(c))) = c
  BY CallArrives
<1>. QED
  BY <1>1, <1>2, JobArrives DEF AtWorker

\* The four hops together: the answer to a call is one frame, in which the client
\* finds the call and what the function returned.
LEMMA AnswerIsIntact ==
  ASSUME NEW c \in CallRec, NEW id \in Seq(Nat), NEW ret \in Seq(Nat)
  PROVE  LET f == Answer(ClientEncodePack(c), id, ret) IN
           /\ \E d \in Seq(Nat) : Framed(f, PDT_S_RETURN_DATA, d)
           /\ ClientDecodePack(f) =
                [DataType |-> PDT_S_RETURN_DATA, Handle |-> c.Handle, Params |-> c.Params, Ret |-> ret]
<1>1. PICK k : k = JobOf(c, id)
  OBVIOUS
<1>2. k \in JobRec /\ k.Handle = c.Handle /\ k.Params = c.Params /\ AtWorker(ClientEncodePack(c), id) = k
  BY <1>1, WorkerGetsCall DEF JobOf
<1>3. ReqDecodeDoJob(Payload(ClientEncodePack(c))) = c
  BY CallArrives
<1>4. ReqDecodeReturn(Payload(WorkerEncodePack(k, ret))) =
        [Handle |-> k.Handle, Params |-> k.Params, Ret |-> ret, JobId |-> k.JobId]
  BY <1>2, ResultArrives
<1>5. PICK r : r = [Handle |-> k.Handle, Params |-> k.Params, Ret |-> ret]
  OBVIOUS
<1>6. Answer(ClientEncodePack(c), id, ret) = ResEncodePack(PDT_S_RETURN_DATA, r)
  BY <1>1, <1>2, <1>3, <1>4, <1>5 DEF Answer
<1>7. r \in RetRec /\ r.Handle = c.Handle /\ r.Params = c.Params /\ r.Ret = ret
  BY <1>2, <1>5 DEF RetRec, JobRec
<1>. QED
  BY <1>6, <1>7, AnswerArrives

-----------------------------------------------------------------------------
(* The inductive invariant *)

\* What ClientRead decodes: the answer to a call or the error it was answered with,
\* with the call it belongs to.
Answers == {[call |-> k, resp |-> Expected(k)] : k \in Calls}
Failures ==
  {[call |-> k, resp |-> [DataType |-> PDT_CANT_DO, Handle |-> <<>>, Params |-> <<>>, Ret |-> <<>>]] :
     k \in Calls}

\* The frames the server may answer a call with.
Replies(k) == {AnswerTo(ClientEncodePack(Request(k))), ResEncodePack(PDT_CANT_DO, <<>>)}

\* The cells s are a beginning of the frames fr at the offsets off, one behind the
\* other, which are replies to the calls ks.
Laid(s, ks, off, fr) ==
  /\ s \in Seq(Nat) /\ ks \in Seq(Calls)
  /\ off \in [0..Len(ks) -> Nat] /\ fr \in [1..Len(ks) -> Seq(Nat)]
  /\ off[0] = 0 /\ Len(s) <= off[Len(ks)]
  /\ \A i, j \in 0..Len(ks) : i <= j => off[i] <= off[j]
  /\ \A i \in 1..Len(ks) : fr[i] \in Replies(ks[i]) /\ off[i] = off[i - 1] + Len(fr[i])
  /\ \A i \in 1..Len(ks) : \A c \in 1..Len(fr[i]) :
       off[i - 1] + c <= Len(s) => s[off[i - 1] + c] = fr[i][c]

\* On a stream there are replies to the calls ks; all of them if it is whole.
OnWire(s, ks, whole) ==
  \E off, fr : Laid(s, ks, off, fr) /\ (whole => Len(s) = off[Len(ks)])

\* Every connection carries the replies that order lists.
Wire == \A n \in Conns : OnWire(stream[n], order[n], link[n] = "up")

\* ClientRead holds a reply that was decoded.
Held == rpc = "send" => held \in Answers \cup Failures

\* Connections are numbered as they are dialled; none ends before it is dialled.
Dials == conn <= dialled /\ \A n \in Conns : link[n] # "up" => n <= dialled

\* A callback under a name is that of a call of this name, which has not been called
\* back; a call that was called back has been put into the map.
Callbacks ==
  /\ calledBack \in [Calls -> Seq(Answers)]
  /\ \A f \in Funcs : handlers[f] # 0 =>
       /\ Fn[handlers[f]] = f /\ calledBack[handlers[f]] = <<>>
       /\ handlers[f] < call \/ (handlers[f] = call /\ cpc # "put")
  /\ \A k \in Calls : calledBack[k] # <<>> => k < call \/ (k = call /\ cpc # "put")
  /\ \A k \in Calls : Len(calledBack[k]) <= 1
  /\ \A k \in Calls : \A i \in DOMAIN calledBack[k] : Fn[calledBack[k][i].call] = Fn[k]

\* Where the current call stands.
Current ==
  /\ cpc # "idle" => call > 0 /\ outcome[call] = "none"
  /\ \A k \in Calls : k > call => outcome[k] = "none"
  /\ cpc \in {"write", "wait"} => handlers[Fn[call]] = call

NoTimeout == \A k \in Calls : outcome[k] # "timeout"

\* What is on its way: requests, responses and the response ClientRead holds.
Due(k) ==
  \/ \E n \in Conns : <<k, n>> \in atServer
  \/ \E n \in Conns : \E i \in DOMAIN order[n] : order[n][i] = k
  \/ rpc = "send" /\ held.call = k

\* Until a call times out, nothing is on its way but the one answer that Do waits for,
\* unless the client has lost its handlers.
Single ==
  NoTimeout =>
    /\ \A k \in Calls : Due(k) => (k = call /\ cpc = "wait") \/ (noMap /\ cpc \in {"idle", "put"})
    /\ \A p, q \in atServer : p = q
    /\ atServer # {} => rpc # "send" /\ \A n \in Conns : order[n] = <<>>
    /\ \A n, m \in Conns : order[n] # <<>> /\ order[m] # <<>> => n = m /\ Len(order[n]) = 1
    /\ rpc = "send" => \A n \in Conns : order[n] = <<>>

\* A call ends with its own response.
Own ==
  NoTimeout => \A k \in Calls :
    outcome[k] # "other" /\ \A i \in DOMAIN calledBack[k] : calledBack[k][i].call = k

Core == TypeOK /\ Wire /\ Held /\ Dials /\ Callbacks /\ Current /\ Single /\ Own

\* The handlers are lost when a connection has ended in an orderly way or was shut.
Ended ==
  /\ qClosed # {} => noMap
  /\ noMap \/ panicked \notin {"no", "nil client"} => \E n \in Conns : link[n] \in {"eof", "shut"}

\* The handler that makes one call.
Handler ==
  /\ user \in {"application", "gateway", "worker"}
  /\ hpc \in {"start", "begin", "do", "close", "done", "aborted"}
  /\ OneShot => /\ call <= 1 /\ (hpc \in {"start", "begin"} => call = 0)
                /\ (hpc # "do" => cpc = "idle")
                /\ noMap /\ hpc # "done" => \E n \in Conns : n # conn /\ link[n] = "eof"
                /\ panicked \in {"nil handlers", "send on closed queue"} =>
                      outcome[1] = "timeout" \/ \E n \in Conns : link[n] = "eof"

ClientInv == Core /\ Ended /\ Handler

-----------------------------------------------------------------------------
(* The stream *)

\* A request is a record of cells.
LEMMA RequestType ==
  ASSUME NEW k \in Calls
  PROVE  /\ Request(k) \in CallRec /\ Fn[k] \in Funcs /\ Fn[k] \in Seq(Nat)
         /\ Work(JobOf(Request(k), JobId)) \in Seq(Nat) /\ JobId \in Seq(Nat)
<1>1. Fn[k] \in Funcs /\ Fn[k] \in Seq(Nat) /\ Args[k] \in Seq(Nat)
  BY RpcClientAssumption DEF Calls
<1>2. Request(k) \in CallRec
  BY <1>1, RpcClientAssumption DEF Request, CallRec
<1>3. Work(JobOf(Request(k), JobId)) \in Seq(Nat) /\ JobId \in Seq(Nat)
  BY RpcClientAssumption DEF Calls
<1>. QED
  BY <1>1, <1>2, <1>3

\* What the server answers a call with is one frame, and ClientRead decodes it to the
\* answer that the call expects, or to the error.
LEMMA ReplyDecodes ==
  ASSUME NEW k \in Calls, NEW r \in Replies(k)
  PROVE  /\ r \in Seq(Nat) /\ Len(r) >= 3 /\ Len(r) = 3 + r[3]
         /\ [call |-> k, resp |-> ClientDecodePack(r)] \in Answers \cup Failures
<1>1. CASE r = AnswerTo(ClientEncodePack(Request(k)))
  <2>1. AtWorker(ClientEncodePack(Request(k)), JobId) = JobOf(Request(k), JobId)
    BY RequestType, WorkerGetsCall
  <2>2. PICK ret : ret = Work(JobOf(Request(k), JobId))
    OBVIOUS
  <2>3. ret \in Seq(Nat)
    BY <2>2, RequestType
  <2>4. r = Answer(ClientEncodePack(Request(k)), JobId, ret)
    BY <1>1, <2>1, <2>2 DEF AnswerTo
  <2>5. /\ \E d \in Seq(Nat) : Framed(r, PDT_S_RETURN_DATA, d)
        /\ ClientDecodePack(r) = [DataType |-> PDT_S_RETURN_DATA, Handle |-> Request(k).Handle,
                                  Params |-> Request(k).Params, Ret |-> ret]
    BY <2>3, <2>4, RequestType, AnswerIsIntact
  <2>6. ClientDecodePack(r) = Expected(k)
    BY <2>2, <2>5 DEF Expected, Request
  <2>7. r \in Seq(Nat) /\ Len(r) >= 3 /\ Len(r) = 3 + r[3]
    BY <2>5, LenProperties DEF Framed
  <2>. QED
    BY <2>6, <2>7 DEF Answers
<1>2. CASE r = ResEncodePack(PDT_CANT_DO, <<>>)
  <2>1. /\ \E d \in Seq(Nat) : Framed(r, PDT_CANT_DO, d)
        /\ ClientDecodePack(r) = [DataType |-> PDT_CANT_DO, Handle |-> <<>>, Params |-> <<>>, Ret |-> <<>>]
    BY <1>2, ErrorArrives
  <2>2. r \in Seq(Nat) /\ Len(r) >= 3 /\ Len(r) = 3 + r[3]
    BY <2>1, LenProperties DEF Framed
  <2>. QED
    BY <2>1, <2>2 DEF Failures
<1>. QED
  BY <1>1, <1>2 DEF Replies

\* Nothing on a new connection.
LEMMA WireEmpty ==
  OnWire(<<>>, <<>>, TRUE)
<1>. DEFINE off == [i \in 0..0 |-> 0]
            fr == [i \in 1..0 |-> <<>>]
<1>1. <<>> \in Seq(Nat) /\ <<>> \in Seq(Calls) /\ Len(<<>>) = 0
  OBVIOUS
<1>2. off \in [0..0 -> Nat] /\ fr \in [1..0 -> Seq(Nat)] /\ off[0] = 0
  OBVIOUS
<1>3. \A i, j \in 0..0 : i <= j => off[i] <= off[j]
  OBVIOUS
<1>4. \A i \in 1..0 : FALSE
  OBVIOUS
<1>. HIDE DEF off, fr
<1>5. Laid(<<>>, <<>>, off, fr)
  BY <1>1, <1>2, <1>3, <1>4 DEF Laid
<1>. QED
  BY <1>1, <1>2, <1>5 DEF OnWire

\* A connection that is up may end with all that is on its way.
LEMMA WireWeaken ==
  \A s, ks, w : OnWire(s, ks, w) => OnWire(s, ks, FALSE)
  BY Zenon DEF OnWire

\* A connection that ends in the middle of a frame.
LEMMA WireCut ==
  ASSUME NEW s, NEW ks, NEW w, OnWire(s, ks, w), NEW m \in 0..Len(s)
  PROVE  OnWire(Slice(s, 0, m), ks, FALSE)
<1>1. PICK off, fr : Laid(s, ks, off, fr)
  BY Zenon DEF OnWire
<1>2. s \in Seq(Nat) /\ ks \in Seq(Calls) /\ Len(s) \in Nat /\ Len(ks) \in Nat /\ Len(s) <= off[Len(ks)]
  BY <1>1, LenProperties DEF Laid
<1>3. PICK t : t = Slice(s, 0, m)
  OBVIOUS
<1>4. t \in Seq(Nat) /\ Len(t) = m /\ \A i \in 1..m : t[i] = s[i]
  <2>1. PICK o \in Nat : o = 0
    OBVIOUS
  <2>2. /\ Slice(s, o, m) \in Seq(Nat) /\ Len(Slice(s, o, m)) = m - o
        /\ \A i \in 1..m - o : Slice(s, o, m)[i] = s[o + i]
    <3>1. m \in Nat /\ o <= m /\ m <= Len(s)
      BY <1>2, <2>1
    <3>. HIDE <2>1
    <3>. QED
      BY <1>2, <3>1, SliceCells
  <2>. QED
    BY <1>2, <1>3, <2>1, <2>2
<1>5. ASSUME NEW i \in 1..Len(ks), NEW c \in 1..Len(fr[i]), off[i - 1] + c <= Len(t)
      PROVE  t[off[i - 1] + c] = fr[i][c]
  <2>1. i - 1 \in 0..Len(ks)
    BY <1>2
  <2>2. off[i - 1] \in Nat /\ Len(fr[i]) \in Nat
    BY <1>1, <2>1, LenProperties DEF Laid
  <2>3. off[i - 1] + c \in 1..m /\ off[i - 1] + c <= Len(s)
    <3>1. c \in Nat /\ c >= 1
      BY <2>2
    <3>2. off[i - 1] + c <= m /\ m \in Nat /\ m <= Len(s)
      BY <1>2, <1>4, <1>5
    <3>3. off[i - 1] + c \in Nat /\ off[i - 1] + c >= 1
      BY <2>2, <3>1
    <3>. QED
      BY <1>2, <3>2, <3>3
  <2>4. s[off[i - 1] + c] = fr[i][c]
    BY <1>1, <2>3 DEF Laid
  <2>. QED
    BY <1>4, <2>3, <2>4
<1>6. Len(t) <= off[Len(ks)]
  <2>1. off[Len(ks)] \in Nat
    BY <1>1, <1>2 DEF Laid
  <2>. QED
    BY <1>2, <1>4, <2>1
<1>7. Laid(t, ks, off, fr)
  BY <1>1, <1>4, <1>5, <1>6 DEF Laid
<1>. QED
  BY <1>3, <1>7, Zenon DEF OnWire

\* A reply behind those on their way.
LEMMA WireAppend ==
  ASSUME NEW s, NEW ks, OnWire(s, ks, TRUE), NEW k \in Calls, NEW r \in Replies(k)
  PROVE  OnWire(s \o r, Append(ks, k), TRUE)
<1>1. PICK off, fr : Laid(s, ks, off, fr) /\ Len(s) = off[Len(ks)]
  BY Zenon DEF OnWire
<1>2. PICK L \in Nat : L = Len(ks)
  BY <1>1, LenProperties DEF Laid
<1>3. /\ s \in Seq(Nat) /\ ks \in Seq(Calls) /\ Len(s) \in Nat /\ Len(s) = off[L]
      /\ off \in [0..L -> Nat] /\ fr \in [1..L -> Seq(Nat)] /\ off[0] = 0
  BY <1>1, <1>2, LenProperties DEF Laid
<1>4. r \in Seq(Nat) /\ Len(r) \in Nat
  BY ReplyDecodes, LenProperties
<1>5. PICK t, ls : t = s \o r /\ ls = Append(ks, k)
  OBVIOUS
<1>6. /\ t \in Seq(Nat) /\ Len(t) = Len(s) + Len(r)
      /\ \A i \in 1..Len(s) + Len(r) : t[i] = IF i <= Len(s) THEN s[i] ELSE r[i - Len(s)]
  BY <1>3, <1>4, <1>5, ConcatProperties
<1>7. ls \in Seq(Calls) /\ Len(ls) = L + 1 /\ (\A i \in 1..L : ls[i] = ks[i]) /\ ls[L + 1] = k
  BY <1>2, <1>3, <1>5, AppendProperties
<1>8. PICK g, e : g = [i \in 0..L + 1 |-> IF i <= L THEN off[i] ELSE off[L] + Len(r)]
                  /\ e = [i \in 1..L + 1 |-> IF i <= L THEN fr[i] ELSE r]
  OBVIOUS
<1>9. /\ g \in [0..L + 1 -> Nat] /\ e \in [1..L + 1 -> Seq(Nat)]
      /\ \A i \in 0..L : g[i] = off[i]
      /\ g[L + 1] = off[L] + Len(r)
      /\ \A i \in 1..L : e[i] = fr[i]
      /\ e[L + 1] = r
  <2>1. \A i \in 0..L + 1 : i <= L => i \in 0..L
    OBVIOUS
  <2>2. \A i \in 1..L + 1 : i <= L => i \in 1..L
    OBVIOUS
  <2>3. off[L] + Len(r) \in Nat
    BY <1>3, <1>4
  <2>. QED
    BY <1>3, <1>4, <1>8, <2>1, <2>2, <2>3
<1>. HIDE <1>8
<1>10. \A i, j \in 0..L + 1 : i <= j => g[i] <= g[j]
  <2>. SUFFICES ASSUME NEW i \in 0..L + 1, NEW j \in 0..L + 1, i <= j PROVE g[i] <= g[j]
    OBVIOUS
  <2>1. CASE j \in 0..L
    <3>1. i \in 0..L
      BY <2>1
    <3>2. off[i] <= off[j]
      BY <1>1, <1>2, <2>1, <3>1 DEF Laid
    <3>. QED
      BY <1>9, <2>1, <3>1, <3>2
  <2>2. CASE j = L + 1 /\ i \in 0..L
    <3>1. off[i] <= off[L] /\ off[i] \in Nat /\ off[L] \in Nat
      BY <1>1, <1>2, <1>3, <2>2 DEF Laid
    <3>. QED
      BY <1>4, <1>9, <2>2, <3>1
  <2>3. CASE j = L + 1 /\ i = L + 1
    BY <1>9, <2>3
  <2>. QED
    BY <2>1, <2>2, <2>3
<1>11. \A i \in 1..L + 1 : e[i] \in Replies(ls[i]) /\ g[i] = g[i - 1] + Len(e[i])
  <2>1. ASSUME NEW i \in 1..L PROVE e[i] \in Replies(ls[i]) /\ g[i] = g[i - 1] + Len(e[i])
    <3>1. i - 1 \in 0..L /\ i \in 0..L
      OBVIOUS
    <3>2. fr[i] \in Replies(ks[i]) /\ off[i] = off[i - 1] + Len(fr[i])
      BY <1>1, <1>2 DEF Laid
    <3>. QED
      BY <1>7, <1>9, <3>1, <3>2
  <2>2. e[L + 1] \in Replies(ls[L + 1]) /\ g[L + 1] = g[(L + 1) - 1] + Len(e[L + 1])
    BY <1>7, <1>9
  <2>. QED
    BY <2>1, <2>2
<1>12. ASSUME NEW i \in 1..L + 1, NEW c \in 1..Len(e[i]), g[i - 1] + c <= Len(t)
       PROVE  t[g[i - 1] + c] = e[i][c]
  <2>1. CASE i \in 1..L
    <3>1. i - 1 \in 0..L /\ i \in 0..L /\ L \in 0..L
      BY <2>1
    <3>2. g[i - 1] = off[i - 1] /\ e[i] = fr[i] /\ off[i - 1] \in Nat /\ off[i] \in Nat /\ Len(fr[i]) \in Nat
      BY <1>3, <1>9, <2>1, <3>1, LenProperties
    <3>3. off[i] = off[i - 1] + Len(fr[i]) /\ off[i] <= off[L]
      BY <1>1, <1>2, <2>1, <3>1 DEF Laid
    <3>4. c \in Nat /\ c >= 1 /\ c <= Len(fr[i])
      BY <1>12, <3>2
    <3>5. off[i - 1] + c \in 1..Len(s) /\ off[i - 1] + c <= Len(s)
      <4>1. off[i] <= Len(s) /\ Len(s) \in Nat
        BY <1>3, <3>3
      <4>2. ASSUME NEW x \in Nat, NEW y \in Nat, NEW z \in Nat, NEW u \in Nat, y = x + u, y <= z, c <= u
            PROVE  x + c \in 1..z /\ x + c <= z
        BY <3>4, <4>2
      <4>. QED
        BY <3>2, <3>3, <3>4, <4>1, <4>2
    <3>6. s[off[i - 1] + c] = fr[i][c]
      BY <1>1, <1>2, <1>12, <2>1, <3>2, <3>5 DEF Laid
    <3>7. t[off[i - 1] + c] = s[off[i - 1] + c]
      <4>1. \A x \in 1..Len(s) : x \in 1..Len(s) + Len(r) /\ x <= Len(s)
        BY <1>3, <1>4
      <4>2. \A x \in 1..Len(s) : t[x] = s[x]
        BY <1>6, <4>1
      <4>. QED
        BY <3>5, <4>2
    <3>. QED
      BY <3>2, <3>6, <3>7
  <2>2. CASE i = L + 1
    <3>1. g[i - 1] = Len(s) /\ e[i] = r
      BY <1>3, <1>9, <2>2
    <3>2. c \in Nat /\ c >= 1 /\ c <= Len(r)
      BY <1>4, <1>12, <3>1
    <3>3. PICK x : x = Len(s) + c
      OBVIOUS
    <3>4. x \in 1..Len(s) + Len(r) /\ ~(x <= Len(s)) /\ x - Len(s) = c
      <4>1. ASSUME NEW y \in Nat, NEW z \in Nat, c <= z
            PROVE  y + c \in 1..y + z /\ ~(y + c <= y) /\ (y + c) - y = c
        BY <3>2, <4>1
      <4>. QED
        BY <1>3, <1>4, <3>2, <3>3, <4>1
    <3>5. t[x] = r[c]
      BY <1>6, <3>4
    <3>. QED
      BY <3>1, <3>3, <3>5
  <2>. QED
    BY <2>1, <2>2
<1>13. g[0] = 0 /\ Len(t) = g[L + 1]
  BY <1>3, <1>6, <1>9
<1>14. Laid(t, ls, g, e)
  <2>1. Len(t) <= g[L + 1]
    BY <1>3, <1>4, <1>6, <1>13
  <2>. QED
    BY <1>6, <1>7, <1>9, <1>10, <1>11, <1>12, <1>13, <2>1 DEF Laid
<1>. QED
  BY <1>5, <1>7, <1>13, <1>14 DEF OnWire

\* ReadFrame: a whole frame at the beginning of the stream is the first reply.
LEMMA WireRead ==
  ASSUME NEW s, NEW ks, NEW w, OnWire(s, ks, w), HasFrame(s)
  PROVE  /\ ks # <<>> /\ FrameLen(s) \in Nat
         /\ [call |-> Head(ks), resp |-> ClientDecodePack(Slice(s, 0, FrameLen(s)))] \in Answers \cup Failures
         /\ OnWire(Slice(s, FrameLen(s), Len(s)), Tail(ks), w)
<1>1. PICK off, fr : Laid(s, ks, off, fr) /\ (w => Len(s) = off[Len(ks)])
  BY Zenon DEF OnWire
<1>2. PICK L \in Nat : L = Len(ks)
  BY <1>1, LenProperties DEF Laid
<1>3. /\ s \in Seq(Nat) /\ ks \in Seq(Calls) /\ Len(s) \in Nat /\ Len(s) <= off[L]
      /\ off \in [0..L -> Nat] /\ fr \in [1..L -> Seq(Nat)] /\ off[0] = 0
  BY <1>1, <1>2, LenProperties DEF Laid
<1>4. Len(s) >= 3 /\ FrameLen(s) = 3 + s[3] /\ Len(s) >= FrameLen(s)
  BY DEF HasFrame, FrameLen, Uint32, MIN_DATA_SIZE, UINT32_SIZE
<1>5. L >= 1
  BY <1>3, <1>4
<1>6. ks # <<>> /\ Head(ks) = ks[1] /\ ks[1] \in Calls
  BY <1>2, <1>3, <1>5, LenProperties
<1>7. 1 \in 1..L /\ 0 \in 0..L /\ 1 \in 0..L /\ L \in 0..L /\ 1 - 1 = 0
  BY <1>5
<1>8. PICK r : r = fr[1]
  OBVIOUS
<1>9. r \in Replies(ks[1]) /\ off[1] = off[0] + Len(r)
  BY <1>1, <1>2, <1>7, <1>8 DEF Laid
<1>10. /\ r \in Seq(Nat) /\ Len(r) \in Nat /\ Len(r) >= 3 /\ Len(r) = 3 + r[3]
       /\ [call |-> ks[1], resp |-> ClientDecodePack(r)] \in Answers \cup Failures
  BY <1>6, <1>9, ReplyDecodes, LenProperties
<1>11. off[1] = Len(r)
  BY <1>3, <1>9, <1>10
<1>12. \A c \in 1..Len(r) : c <= Len(s) => s[c] = r[c]
  <2>. SUFFICES ASSUME NEW c \in 1..Len(r), c <= Len(s) PROVE s[c] = r[c]
    OBVIOUS
  <2>1. off[1 - 1] + c = c
    BY <1>3, <1>7, <1>10
  <2>2. off[1 - 1] + c <= Len(s) => s[off[1 - 1] + c] = fr[1][c]
    BY <1>1, <1>2, <1>7, <1>8 DEF Laid
  <2>. QED
    BY <1>8, <2>1, <2>2
<1>13. FrameLen(s) = Len(r) /\ Len(r) <= Len(s)
  BY <1>3, <1>4, <1>10, <1>12
<1>14. Slice(s, 0, Len(r)) = r
  <2>1. Stands(s, 0, r)
    <3>1. \A c \in 1..Len(r) : c <= Len(s) /\ 0 + c = c
      BY <1>3, <1>10, <1>13
    <3>2. \A c \in 1..Len(r) : s[0 + c] = r[c]
      BY <1>12, <3>1
    <3>3. s \in Seq(Nat) /\ r \in Seq(Nat) /\ 0 + Len(r) <= Len(s)
      BY <1>3, <1>10, <1>13
    <3>. QED
      BY <3>2, <3>3 DEF Stands
  <2>2. Slice(s, 0, 0 + Len(r)) = r
    BY <2>1, SliceStands
  <2>. QED
    BY <1>10, <2>2
<1>15. PICK t, ls : t = Slice(s, Len(r), Len(s)) /\ ls = Tail(ks)
  OBVIOUS
<1>16. /\ t \in Seq(Nat) /\ Len(t) = Len(s) - Len(r)
       /\ \A i \in 1..Len(s) - Len(r) : t[i] = s[Len(r) + i]
  <2>1. PICK a \in Nat, b \in Nat : a = Len(r) /\ b = Len(s)
    BY <1>3, <1>10
  <2>2. /\ Slice(s, a, b) \in Seq(Nat) /\ Len(Slice(s, a, b)) = b - a
        /\ \A i \in 1..b - a : Slice(s, a, b)[i] = s[a + i]
    <3>1. a <= b /\ b <= Len(s)
      BY <1>3, <1>13, <2>1
    <3>. QED
      BY <1>3, <3>1, SliceCells
  <2>. QED
    BY <1>15, <2>1, <2>2
<1>17. PICK M \in Nat : M = L - 1
  BY <1>5
<1>18. ls \in Seq(Calls) /\ Len(ls) = M /\ \A i \in 1..M : ls[i] = ks[i + 1]
  BY <1>2, <1>3, <1>6, <1>15, <1>17, HeadTailProperties
<1>19. PICK g, e : g = [i \in 0..M |-> off[i + 1] - off[1]] /\ e = [i \in 1..M |-> fr[i + 1]]
  OBVIOUS
<1>20. \A i \in 0..M : i + 1 \in 0..L /\ i + 1 \in 1..L
  BY <1>17
<1>21. \A i \in 0..M : off[i + 1] \in Nat /\ off[1] \in Nat /\ off[1] <= off[i + 1]
  <2>1. \A i, j \in 0..L : i <= j => off[i] <= off[j]
    BY <1>1, <1>2 DEF Laid
  <2>. SUFFICES ASSUME NEW i \in 0..M
                PROVE  off[i + 1] \in Nat /\ off[1] \in Nat /\ off[1] <= off[i + 1]
    OBVIOUS
  <2>2. PICK j \in 0..L : j = i + 1
    BY <1>20
  <2>3. off[j] \in Nat /\ off[1] \in Nat
    BY <1>3, <1>7
  <2>4. 1 <= j
    BY <2>2
  <2>5. off[1] <= off[j]
    BY <1>7, <2>1, <2>4
  <2>. QED
    BY <2>2, <2>3, <2>5
<1>22. /\ g \in [0..M -> Nat] /\ e \in [1..M -> Seq(Nat)]
       /\ \A i \in 0..M : g[i] = off[i + 1] - off[1]
       /\ \A i \in 1..M : e[i] = fr[i + 1]
  <2>1. \A x, y \in Nat : x <= y => y - x \in Nat
    OBVIOUS
  <2>2. \A i \in 0..M : off[i + 1] - off[1] \in Nat
    BY <1>21, <2>1
  <2>3. \A i \in 1..M : fr[i + 1] \in Seq(Nat)
    <3>1. \A i \in 1..M : i \in 0..M
      OBVIOUS
    <3>. QED
      BY <1>3, <1>20, <3>1
  <2>. QED
    BY <1>19, <2>2, <2>3
<1>. HIDE <1>19
<1>23. g[0] = 0 /\ Len(t) <= g[M] /\ (w => Len(t) = g[M])
  <2>1. M + 1 = L /\ 0 + 1 = 1 /\ 0 \in 0..M /\ M \in 0..M
    BY <1>17
  <2>2. g[M] = off[L] - off[1] /\ off[L] \in Nat /\ off[1] \in Nat
    BY <1>21, <1>22, <2>1
  <2>3. g[0] = 0
    <3>1. g[0] = off[0 + 1] - off[1]
      BY <1>22, <2>1
    <3>2. \A x \in Nat : x - x = 0
      OBVIOUS
    <3>. QED
      BY <2>1, <2>2, <3>1, <3>2
  <2>4. Len(t) = Len(s) - off[1] /\ (w => Len(s) = off[L])
    BY <1>1, <1>2, <1>11, <1>16
  <2>. QED
    BY <1>3, <2>2, <2>3, <2>4
<1>24. \A i, j \in 0..M : i <= j => g[i] <= g[j]
  <2>. SUFFICES ASSUME NEW i \in 0..M, NEW j \in 0..M, i <= j PROVE g[i] <= g[j]
    OBVIOUS
  <2>1. off[i + 1] <= off[j + 1]
    BY <1>1, <1>2, <1>20 DEF Laid
  <2>2. /\ g[i] = off[i + 1] - off[1] /\ g[j] = off[j + 1] - off[1]
        /\ off[i + 1] \in Nat /\ off[j + 1] \in Nat /\ off[1] \in Nat
    BY <1>21, <1>22
  <2>3. \A x, y, z \in Nat : x <= y => x - z <= y - z
    OBVIOUS
  <2>. QED
    BY <2>1, <2>2, <2>3
<1>25. \A i \in 1..M : e[i] \in Replies(ls[i]) /\ g[i] = g[i - 1] + Len(e[i])
  <2>. SUFFICES ASSUME NEW i \in 1..M PROVE e[i] \in Replies(ls[i]) /\ g[i] = g[i - 1] + Len(e[i])
    OBVIOUS
  <2>1. i \in 0..M /\ i - 1 \in 0..M /\ (i - 1) + 1 = i /\ (i + 1) - 1 = i
    OBVIOUS
  <2>2. fr[i + 1] \in Replies(ks[i + 1]) /\ off[i + 1] = off[(i + 1) - 1] + Len(fr[i + 1])
    BY <1>1, <1>2, <1>20, <2>1 DEF Laid
  <2>3. /\ g[i - 1] = off[i] - off[1] /\ g[i] = off[i + 1] - off[1]
        /\ off[i] \in Nat /\ off[i + 1] \in Nat /\ off[1] \in Nat
    BY <1>21, <1>22, <2>1
  <2>4. Len(fr[i + 1]) \in Nat
    BY <1>3, <1>20, <2>1, LenProperties
  <2>. QED
    <3>1. \A x, y, z, u \in Nat : y = x + u => y - z = (x - z) + u
      OBVIOUS
    <3>2. e[i] = fr[i + 1] /\ ls[i] = ks[i + 1]
      BY <1>18, <1>22
    <3>3. off[i + 1] = off[i] + Len(fr[i + 1])
      BY <2>1, <2>2
    <3>. QED
      BY <2>2, <2>3, <2>4, <3>1, <3>2, <3>3
<1>26. ASSUME NEW i \in 1..M, NEW c \in 1..Len(e[i]), g[i - 1] + c <= Len(t)
       PROVE  t[g[i - 1] + c] = e[i][c]
  <2>1. i \in 0..M /\ i - 1 \in 0..M /\ (i - 1) + 1 = i /\ (i + 1) - 1 = i
    OBVIOUS
  <2>2. g[i - 1] = off[i] - off[1] /\ off[i] \in Nat /\ off[1] \in Nat /\ off[1] <= off[i]
    BY <1>21, <1>22, <2>1
  <2>3. e[i] = fr[i + 1] /\ Len(fr[i + 1]) \in Nat
    BY <1>3, <1>20, <1>22, <2>1, LenProperties
  <2>4. c \in Nat /\ c >= 1
    BY <1>26, <2>3
  <2>5. off[i] + c <= Len(s)
    <3>1. \A x, y, z, u \in Nat : (x - y) + u <= z - y => x + u <= z
      OBVIOUS
    <3>2. (off[i] - off[1]) + c <= Len(s) - off[1]
      BY <1>11, <1>16, <1>26, <2>2
    <3>. QED
      BY <1>3, <2>2, <2>4, <3>1, <3>2
  <2>6. s[off[i] + c] = fr[i + 1][c]
    <3>1. off[(i + 1) - 1] + c <= Len(s) => s[off[(i + 1) - 1] + c] = fr[i + 1][c]
      BY <1>1, <1>2, <1>20, <1>26, <2>1, <2>3 DEF Laid
    <3>. QED
      BY <2>1, <2>5, <3>1
  <2>7. PICK x : x = g[i - 1] + c
    OBVIOUS
  <2>8. x \in 1..Len(s) - Len(r) /\ Len(r) + x = off[i] + c
    <3>2. x = (off[i] - off[1]) + c
      BY <2>2, <2>7
    <3>3. /\ (off[i] - off[1]) + c \in 1..Len(s) - off[1]
          /\ off[1] + ((off[i] - off[1]) + c) = off[i] + c
      <4>1. PICK v \in Nat, y \in Nat, z \in Nat : v = off[i] /\ y = off[1] /\ z = Len(s)
        BY <1>3, <2>2
      <4>2. y <= v /\ v + c <= z
        BY <2>2, <2>5, <4>1
      <4>3. (v - y) + c \in 1..z - y /\ y + ((v - y) + c) = v + c
        BY <2>4, <4>2
      <4>. QED
        BY <4>1, <4>3
    <3>. QED
      BY <1>11, <3>2, <3>3
  <2>9. t[x] = s[off[i] + c]
    BY <1>16, <2>8
  <2>. QED
    BY <2>3, <2>6, <2>7, <2>9
<1>27. Laid(t, ls, g, e)
  BY <1>16, <1>18, <1>22, <1>23, <1>24, <1>25, <1>26 DEF Laid
<1>28. OnWire(t, ls, w)
  BY <1>18, <1>23, <1>27 DEF OnWire
<1>. QED
  BY <1>6, <1>10, <1>13, <1>14, <1>15, <1>28

-----------------------------------------------------------------------------
(* The steps *)

\* The calls are numbered, and Do is in one of them or in none.
LEMMA CallNumbers ==
  /\ Len(Fn) \in Nat /\ Calls = 1..Len(Fn)
  /\ \A k \in Calls : Fn[k] \in Funcs
  /\ MaxConns \in Nat /\ 1 \in Conns
<1>1. Fn \in Seq(Funcs) /\ MaxConns \in Nat \ {0}
  BY RpcClientAssumption
<1>2. Len(Fn) \in Nat /\ Calls = 1..Len(Fn)
  BY <1>1, LenProperties DEF Calls
<1>3. \A k \in Calls : Fn[k] \in Funcs
  BY RequestType
<1>. QED
  BY <1>1, <1>2, <1>3 DEF Conns

\* Calls and connections are numbered from 1.
LEMMA Numbered ==
  /\ \A c \in 0..MaxConns : c # 0 => c \in Conns
  /\ \A k \in 0..Len(Fn) : k > 0 => k \in Calls
  /\ \A k \in 0..Len(Fn) : k < Len(Fn) => k + 1 \in 0..Len(Fn) /\ k + 1 \in Calls
  /\ 0 \in 0..MaxConns /\ Conns \subseteq 0..MaxConns
  /\ \A c \in Conns : c < MaxConns => c + 1 \in Conns
  /\ Conns \subseteq Nat /\ 0..MaxConns \subseteq Nat
  /\ Calls \subseteq Nat /\ 0..Len(Fn) \subseteq Nat /\ 0 \notin Calls
  BY CallNumbers DEF Conns

\* A frame with a head is not empty.
LEMMA LongFrame ==
  \A r : Len(r) >= 3 => r # <<>>
  OBVIOUS

\* What a step does to the client, whoever uses it.
ClientStep ==
  \/ DoStart \/ DoPut \/ DoWrite \/ Receive \/ ReceiveNil \/ Timeout
  \/ ReadFrame \/ LoopTest \/ FrameTest \/ ReadEnds \/ ReadEof \/ Dial \/ MakeQueue \/ Close
  \/ \E n \in Conns : LinkBreaks(n)
  \/ \E k \in Calls, n \in Conns : ServerAnswers(k, n)
  \/ Open \/ DoPanics \/ DeferredClose
  \/ UNCHANGED vars

\* A step of the application or of a handler is one of these.
LEMMA StepKinds ==
  ASSUME TypeOK, [GatewayNext]_<<vars, handlerVars>>
  PROVE  ClientStep
<1>1. CASE UNCHANGED <<vars, handlerVars>>
  BY <1>1 DEF ClientStep
<1>2. CASE Next
  BY <1>2, Zenon DEF Next, DoStep, ReadStep, ClientStep
<1>3. CASE HandlerStep
  BY <1>3 DEF HandlerStep, Refuse, BeginDo, InDo, DoStep, ClientStep
<1>4. CASE Beside
  <2>1. ASSUME NEW n \in Conns, ServerAnswers(1, n) PROVE 1 \in Calls
    BY <2>1 DEF ServerAnswers, TypeOK
  <2>2. CASE ReadStep
    BY <2>2 DEF ReadStep, ClientStep
  <2>3. ASSUME NEW n \in Conns, LinkBreaks(n) \/ ServerAnswers(1, n) PROVE ClientStep
    BY <2>1, <2>3, Zenon DEF ClientStep
  <2>. QED
    BY <1>4, <2>2, <2>3, Zenon DEF Beside
<1>. QED
  BY <1>1, <1>2, <1>3, <1>4 DEF GatewayNext

\* The stream of every connection holds replies to the calls it should.
LEMMA WireNext ==
  ASSUME TypeOK, Wire, ClientStep
  PROVE  /\ Wire'
         /\ stream' \in [Conns -> Seq(Nat)] /\ order' \in [Conns -> Seq(Calls)]
<1>. USE DEF TypeOK
<1>1. \A n \in Conns : OnWire(stream[n], order[n], link[n] = "up")
  BY DEF Wire
<1>2. CASE UNCHANGED <<stream, order>> /\ \A n \in Conns : link'[n] = link[n] \/ link'[n] # "up"
  BY <1>1, <1>2, WireWeaken DEF Wire
<1>3. ASSUME NEW n \in Conns, NEW s, NEW ks, stream' = [stream EXCEPT ![n] = s],
             order' = [order EXCEPT ![n] = ks], \A m \in Conns : m # n => link'[m] = link[m],
             OnWire(s, ks, link'[n] = "up")
      PROVE  /\ Wire'
             /\ stream' \in [Conns -> Seq(Nat)] /\ order' \in [Conns -> Seq(Calls)]
  <2>1. s \in Seq(Nat) /\ ks \in Seq(Calls)
    <3>1. PICK off, fr : Laid(s, ks, off, fr)
      BY <1>3, Zenon DEF OnWire
    <3>. QED
      BY <3>1 DEF Laid
  <2>2. stream' \in [Conns -> Seq(Nat)] /\ order' \in [Conns -> Seq(Calls)]
    BY <1>3, <2>1
  <2>3. stream'[n] = s /\ order'[n] = ks
    BY <1>3
  <2>4. ASSUME NEW m \in Conns, m # n
        PROVE  stream'[m] = stream[m] /\ order'[m] = order[m] /\ (link'[m] = "up") = (link[m] = "up")
    BY <1>3, <2>4
  <2>5. ASSUME NEW m \in Conns PROVE OnWire(stream'[m], order'[m], link'[m] = "up")
    BY <1>1, <1>3, <2>3, <2>4
  <2>. QED
    BY <2>2, <2>5 DEF Wire
<1>4. CASE ReadFrame
  <2>1. PICK n \in Conns : n = conn
    BY <1>4, Numbered DEF ReadFrame
  <2>2. HasFrame(stream[n]) /\ link' = link
    BY <1>4, <2>1 DEF ReadFrame
  <2>3. OnWire(Slice(stream[n], FrameLen(stream[n]), Len(stream[n])), Tail(order[n]), link[n] = "up")
    BY <1>1, <2>2, WireRead
  <2>4. /\ stream' = [stream EXCEPT ![n] = Slice(stream[n], FrameLen(stream[n]), Len(stream[n]))]
        /\ order' = [order EXCEPT ![n] = Tail(order[n])]
    BY <1>4, <2>1 DEF ReadFrame
  <2>. QED
    BY <1>3, <2>2, <2>3, <2>4
<1>5. ASSUME NEW k \in Calls, NEW n \in Conns, ServerAnswers(k, n)
      PROVE  /\ Wire'
             /\ stream' \in [Conns -> Seq(Nat)] /\ order' \in [Conns -> Seq(Calls)]
  <2>1. PICK r \in Replies(k) :
          /\ stream' = [stream EXCEPT ![n] = stream[n] \o r]
          /\ order' = IF r = <<>> THEN order ELSE [order EXCEPT ![n] = Append(order[n], k)]
    BY <1>5 DEF ServerAnswers, Replies
  <2>2. r # <<>>
    BY ReplyDecodes, LongFrame
  <2>3. link' = link /\ link[n] = "up"
    BY <1>5 DEF ServerAnswers
  <2>4. OnWire(stream[n], order[n], TRUE)
    BY <1>1, <2>3
  <2>5. OnWire(stream[n] \o r, Append(order[n], k), TRUE)
    BY <2>4, WireAppend
  <2>. QED
    BY <1>3, <2>1, <2>2, <2>3, <2>5
<1>6. ASSUME NEW n \in Conns, LinkBreaks(n)
      PROVE  /\ Wire'
             /\ stream' \in [Conns -> Seq(Nat)] /\ order' \in [Conns -> Seq(Calls)]
  <2>1. PICK how \in Breaks, m \in 0..Len(stream[n]) :
          link' = [link EXCEPT ![n] = how] /\ stream' = [stream EXCEPT ![n] = Slice(stream[n], 0, m)]
    BY <1>6 DEF LinkBreaks
  <2>2. order' = [order EXCEPT ![n] = order[n]]
    BY <1>6 DEF LinkBreaks
  <2>3. (link'[n] = "up") = FALSE /\ \A j \in Conns : j # n => link'[j] = link[j]
    BY <2>1, RpcClientAssumption
  <2>4. OnWire(Slice(stream[n], 0, m), order[n], FALSE)
    BY <1>1, WireCut
  <2>. QED
    BY <1>3, <2>1, <2>2, <2>3, <2>4
<1>7. CASE Close \/ DeferredClose
  <2>1. UNCHANGED <<stream, order>> /\ (link' = link \/ link' = [link EXCEPT ![conn] = "shut"])
    BY <1>7 DEF Close, DeferredClose
  <2>. QED
    BY <1>2, <2>1
<1>8. CASE \/ DoStart \/ DoPut \/ DoWrite \/ Receive \/ ReceiveNil \/ Timeout
           \/ LoopTest \/ FrameTest \/ ReadEnds \/ ReadEof \/ Dial \/ MakeQueue \/ Open \/ DoPanics
           \/ UNCHANGED vars
  <2>1. UNCHANGED <<stream, order, link>>
    BY <1>8 DEF DoStart, DoPut, DoWrite, Receive, ReceiveNil, Timeout, LoopTest, FrameTest, ReadEnds,
                ReadEof, Dial, MakeQueue, Open, DoPanics, vars, netVars
  <2>. QED
    BY <1>2, <2>1
<1>. QED
  BY <1>4, <1>5, <1>6, <1>7, <1>8 DEF ClientStep

\* The response that is delivered is an answer, and so names a function.
LEMMA Delivered ==
  ASSUME Held, rpc = "send", held.resp.DataType = PDT_S_RETURN_DATA
  PROVE  /\ held \in Answers /\ held.call \in Calls
         /\ held.resp.Handle = Fn[held.call] /\ Fn[held.call] \in Funcs
<1>1. held \notin Failures
  BY DEF Failures, PDT_S_RETURN_DATA, PDT_CANT_DO
<1>2. PICK k \in Calls : held = [call |-> k, resp |-> Expected(k)]
  BY <1>1 DEF Held, Answers
<1>. QED
  BY <1>2, RequestType DEF Expected, Answers

\* Deliver: the callback of a call of the same function, once.
LEMMA DeliverSays ==
  ASSUME TypeOK, Held, rpc = "send", held.resp.DataType = PDT_S_RETURN_DATA, Deliver
  PROVE  LET f == Fn[held.call] IN
         /\ f \in Funcs /\ cpc' = "idle"
         /\ \/ handlers[f] = 0 /\ UNCHANGED <<handlers, calledBack>>
               /\ outcome' = [outcome EXCEPT ![call] = "nothing"]
            \/ /\ handlers[f] \in Calls /\ handlers' = [handlers EXCEPT ![f] = 0]
               /\ calledBack' = [calledBack EXCEPT ![handlers[f]] = Append(@, held)]
               /\ outcome' = [outcome EXCEPT ![call] = IF held.call = call THEN "data" ELSE "other"]
<1>1. held.resp.Handle = Fn[held.call] /\ Fn[held.call] \in Funcs
  BY Delivered
<1>2. handlers[Fn[held.call]] \in {0} \cup Calls
  BY <1>1 DEF TypeOK
<1>. QED
  BY <1>1, <1>2 DEF Deliver, End

\* The types.
LEMMA TypeNext ==
  ASSUME TypeOK, Wire, Held, Current, ClientStep
  PROVE  TypeOK'
<1>. USE DEF TypeOK
<1>1. stream' \in [Conns -> Seq(Nat)] /\ order' \in [Conns -> Seq(Calls)]
  BY WireNext
<1>2. cpc # "idle" => call \in Calls /\ Fn[call] \in Funcs
  BY Numbered, CallNumbers DEF Current
<1>3. CASE DoStart
  <2>1. call' \in 0..Len(Fn) /\ call' \in Calls
    BY <1>3, Numbered DEF DoStart
  <2>. QED
    BY <1>1, <1>3, <2>1 DEF DoStart, ownVars, netVars
<1>4. CASE DoPut
  BY <1>1, <1>2, <1>4 DEF DoPut, ownVars, netVars
<1>5. CASE DoWrite
  <2>1. queue \in 0..MaxConns
    BY Numbered
  <2>2. conn # 0 => conn \in Conns
    BY Numbered
  <2>. QED
    <3>1. atServer' \subseteq Calls \X Conns
      <4>1. atServer' = atServer \/ (conn # 0 /\ atServer' = atServer \cup {<<call, conn>>})
        BY <1>5 DEF DoWrite
      <4>2. cpc = "write"
        BY <1>5 DEF DoWrite
      <4>3. conn # 0 => <<call, conn>> \in Calls \X Conns
        BY <1>2, <2>2, <4>2
      <4>4. atServer \subseteq Calls \X Conns
        OBVIOUS
      <4>. HIDE DEF TypeOK
      <4>. QED
        BY <4>1, <4>3, <4>4
    <3>2. waitQ' \in 0..MaxConns /\ cpc' \in {"idle", "put", "write", "wait"}
      BY <1>5, <2>1 DEF DoWrite, End
    <3>3. outcome' \in [Calls -> {"none", "data", "other", "err", "timeout", "refused", "nothing"}]
      BY <1>2, <1>5 DEF DoWrite, End
    <3>. QED
      BY <1>1, <1>5, <3>1, <3>2, <3>3 DEF DoWrite, ownVars
<1>6. CASE Receive
  <2>1. NoFrame.call = 0
    BY DEF NoFrame
  <2>2. UNCHANGED <<call, waitQ, conn, dialled, queue, qClosed, noMap, link, atServer>>
        /\ rpc' = "loop" /\ held'.call = 0
    BY <1>6, <2>1 DEF Receive, ownVars, netVars
  <2>3. /\ cpc' \in {"idle", "wait"} /\ handlers' \in [Funcs -> {0} \cup Calls]
        /\ DOMAIN calledBack' = Calls
        /\ outcome' \in [Calls -> {"none", "data", "other", "err", "timeout", "refused", "nothing"}]
        /\ panicked' \in {"no", "nil handlers", "send on closed queue", "nil client"}
    <3>0. cpc = "wait" /\ rpc = "send" /\ call \in Calls
      BY <1>2, <1>6 DEF Receive
    <3>1. CASE Deliver /\ held.resp.DataType = PDT_S_RETURN_DATA /\ panicked' = panicked
      BY <3>0, <3>1, DeliverSays
    <3>2. CASE UNCHANGED <<handlers, calledBack, panicked>> /\ \E how \in {"err", "other"} : End(how)
      <4>1. PICK how \in {"err", "other"} : cpc' = "idle" /\ outcome' = [outcome EXCEPT ![call] = how]
        BY <3>2 DEF End
      <4>2. outcome' \in [Calls -> {"none", "data", "other", "err", "timeout", "refused", "nothing"}]
        BY <3>0, <4>1
      <4>. QED
        BY <3>2, <4>1, <4>2
    <3>3. CASE UNCHANGED <<handlers, calledBack, cpc, outcome>> /\ panicked' = "nil handlers"
      BY <3>0, <3>3
    <3>. QED
      BY <1>6, <3>1, <3>2, <3>3 DEF Receive
  <2>. QED
    BY <1>1, <2>2, <2>3
<1>7. CASE ReceiveNil \/ Timeout
  BY <1>1, <1>2, <1>7 DEF ReceiveNil, Timeout, End, ownVars, netVars
<1>8. CASE ReadFrame
  <2>1. PICK n \in Conns : n = conn
    BY <1>8, Numbered DEF ReadFrame
  <2>2. held'.call = Head(order[n]) /\ rpc' = "send"
    BY <1>8, <2>1 DEF ReadFrame
  <2>3. Head(order[n]) \in Calls
    <3>1. HasFrame(stream[n]) /\ OnWire(stream[n], order[n], link[n] = "up")
      BY <1>8, <2>1 DEF ReadFrame, Wire
    <3>2. order[n] # <<>> /\ order[n] \in Seq(Calls)
      BY <3>1, WireRead
    <3>. QED
      BY <3>2, HeadTailProperties
  <2>. QED
    BY <1>1, <1>8, <2>2, <2>3 DEF ReadFrame, callVars, ownVars
<1>9. CASE LoopTest \/ FrameTest \/ ReadEnds \/ Open \/ UNCHANGED vars
  <2>1. UNCHANGED <<cpc, call, waitQ, conn, dialled, link, queue, qClosed, handlers, noMap, held, atServer,
                    outcome, calledBack>>
        /\ rpc' \in {rpc, "ended", "frame", "dial", "read"} /\ panicked' \in {panicked, "nil client"}
    BY <1>9 DEF LoopTest, FrameTest, ReadEnds, Open, vars, callVars, ownVars, netVars
  <2>. QED
    BY <1>1, <2>1
<1>10. CASE ReadEof
  BY <1>1, <1>10, Numbered DEF ReadEof, CloseClient, callVars, netVars
<1>11. CASE Dial
  <2>2. dialled < MaxConns => dialled + 1 \in 0..MaxConns /\ dialled + 1 \in Conns
    BY Numbered
  <2>. QED
    BY <1>1, <1>11, <2>2 DEF Dial, callVars, netVars
<1>12. CASE MakeQueue
  BY <1>1, <1>12 DEF MakeQueue, callVars, netVars
<1>13. CASE Close \/ DeferredClose
  <2>1. 0 \in 0..MaxConns
    BY Numbered
  <2>. QED
    <3>1. UNCHANGED <<cpc, call, waitQ, dialled, queue, handlers, rpc, held, atServer, outcome, calledBack>>
      BY <1>13 DEF Close, DeferredClose, callVars
    <3>2. /\ conn' \in {0, conn} /\ link' \in {link, [link EXCEPT ![conn] = "shut"]}
          /\ qClosed' \in {qClosed, qClosed \cup {queue}} /\ noMap' \in BOOLEAN
          /\ panicked' \in {"no", "nil handlers", "send on closed queue", "nil client"}
      BY <1>13 DEF Close, DeferredClose, CloseClient
    <3>. QED
      BY <1>1, <2>1, <3>1, <3>2
<1>14. ASSUME NEW n \in Conns, LinkBreaks(n) PROVE TypeOK'
  <2>1. PICK how \in Breaks : link' = [link EXCEPT ![n] = how]
    BY <1>14 DEF LinkBreaks
  <2>2. link' \in [Conns -> {"up", "eof", "reset", "shut"}]
    BY <2>1, RpcClientAssumption
  <2>3. atServer' \subseteq atServer
    BY <1>14 DEF LinkBreaks
  <2>. QED
    BY <1>1, <1>14, <2>2, <2>3 DEF LinkBreaks, callVars, ownVars
<1>15. ASSUME NEW k \in Calls, NEW n \in Conns, ServerAnswers(k, n) PROVE TypeOK'
  BY <1>1, <1>15 DEF ServerAnswers, callVars, ownVars
<1>16. CASE DoPanics
  <2>1. held'.call \in {0} \cup Calls /\ rpc' \in {"loop", "frame", "read", "send", "dial", "make", "ended"}
    <3>1. NoFrame.call = 0
      BY DEF NoFrame
    <3>. QED
      BY <1>16, <3>1 DEF DoPanics
  <2>. QED
    BY <1>1, <1>16, <2>1 DEF DoPanics, ownVars, netVars
<1>. QED
  BY <1>3, <1>4, <1>5, <1>6, <1>7, <1>8, <1>9, <1>10, <1>11, <1>12, <1>13, <1>14, <1>15, <1>16
     DEF ClientStep

\* What ClientRead holds is what WireRead says.
LEMMA HeldNext ==
  ASSUME TypeOK, Wire, Held, ClientStep
  PROVE  Held'
<1>1. CASE ReadFrame
  <2>1. PICK n \in Conns : n = conn
    BY <1>1, Numbered DEF ReadFrame, TypeOK
  <2>2. HasFrame(stream[n]) /\ OnWire(stream[n], order[n], link[n] = "up")
    BY <1>1, <2>1 DEF ReadFrame, Wire
  <2>3. held' = [call |-> Head(order[n]), resp |-> ClientDecodePack(Slice(stream[n], 0, FrameLen(stream[n])))]
    BY <1>1, <2>1 DEF ReadFrame
  <2>4. held' \in Answers \cup Failures
    BY <2>2, <2>3, WireRead
  <2>. QED
    BY <2>4 DEF Held, Answers, Failures
<1>2. CASE rpc' # "send" \/ UNCHANGED <<rpc, held>>
  BY <1>2 DEF Held, Answers, Failures
<1>3. CASE Receive \/ LoopTest \/ FrameTest \/ ReadEnds \/ ReadEof \/ Dial \/ MakeQueue \/ DoPanics
  <2>1. rpc' # "send" \/ UNCHANGED <<rpc, held>>
    BY <1>3 DEF Receive, LoopTest, FrameTest, ReadEnds, ReadEof, Dial, MakeQueue, DoPanics
  <2>. QED
    BY <1>2, <2>1
<1>4. CASE \/ DoStart \/ DoPut \/ DoWrite \/ ReceiveNil \/ Timeout \/ Close \/ Open \/ DeferredClose
           \/ (\E n \in Conns : LinkBreaks(n)) \/ (\E k \in Calls, n \in Conns : ServerAnswers(k, n))
           \/ UNCHANGED vars
  <2>1. UNCHANGED <<rpc, held>>
    BY <1>4 DEF DoStart, DoPut, DoWrite, ReceiveNil, Timeout, Close, Open, DeferredClose, LinkBreaks,
                ServerAnswers, vars
  <2>. QED
    BY <1>2, <2>1
<1>. QED
  BY <1>1, <1>3, <1>4 DEF ClientStep

\* Connections are dialled in order.
LEMMA DialsNext ==
  ASSUME TypeOK, Dials, ClientStep
  PROVE  Dials'
<1>0. dialled \in Nat /\ conn \in Nat /\ \A n \in Conns : n \in Nat
  BY Numbered DEF TypeOK
<1>1. CASE conn' \in {0, conn} /\ dialled' = dialled /\ \A n \in Conns : link'[n] # "up" => n <= dialled
  BY <1>0, <1>1 DEF Dials
<1>2. CASE Dial
  <2>1. link' = link /\ \/ dialled' = dialled + 1 /\ conn' = dialled + 1
                        \/ UNCHANGED <<dialled, conn>>
    BY <1>2 DEF Dial, netVars
  <2>. QED
    BY <1>0, <2>1 DEF Dials
<1>3. CASE Close \/ DeferredClose
  <2>1. conn' \in {0, conn} /\ dialled' = dialled /\ (link' = link \/ link' = [link EXCEPT ![conn] = "shut"])
    BY <1>3 DEF Close, DeferredClose, CloseClient
  <2>. QED
    BY <1>1, <2>1 DEF Dials, TypeOK
<1>4. ASSUME NEW n \in Conns, LinkBreaks(n) PROVE Dials'
  <2>1. n <= dialled /\ UNCHANGED <<conn, dialled>> /\ \E how : link' = [link EXCEPT ![n] = how]
    BY <1>4 DEF LinkBreaks, ownVars
  <2>. QED
    BY <1>1, <2>1 DEF Dials, TypeOK
<1>5. CASE \/ DoStart \/ DoPut \/ DoWrite \/ Receive \/ ReceiveNil \/ Timeout
           \/ ReadFrame \/ LoopTest \/ FrameTest \/ ReadEnds \/ ReadEof \/ MakeQueue \/ Open \/ DoPanics
           \/ (\E k \in Calls, n \in Conns : ServerAnswers(k, n)) \/ UNCHANGED vars
  <2>1. conn' \in {0, conn} /\ dialled' = dialled /\ link' = link
    BY <1>5 DEF DoStart, DoPut, DoWrite, Receive, ReceiveNil, Timeout, ReadFrame, LoopTest, FrameTest,
                ReadEnds, ReadEof, CloseClient, MakeQueue, Open, DoPanics, ServerAnswers, vars,
                ownVars, netVars
  <2>. QED
    BY <1>1, <2>1 DEF Dials
<1>. QED
  BY <1>2, <1>3, <1>4, <1>5 DEF ClientStep

\* What most steps do to the calls: nothing, or the call ends without a callback.
LEMMA CallsStep ==
  ASSUME ClientStep
  PROVE  \/ DoStart \/ DoPut \/ Receive
         \/ cpc = "write" /\ cpc' = "wait" /\ UNCHANGED <<call, handlers, outcome, calledBack>>
         \/ /\ cpc \in {"write", "wait"} /\ UNCHANGED <<call, handlers, calledBack>>
            /\ \E how \in {"refused", "nothing", "timeout"} : End(how)
         \/ UNCHANGED <<call, handlers, outcome, calledBack>> /\ cpc' \in {"idle", cpc}
<1>1. CASE DoWrite
  BY <1>1 DEF DoWrite
<1>2. CASE ReceiveNil \/ Timeout
  BY <1>2 DEF ReceiveNil, Timeout
<1>3. CASE \/ ReadFrame \/ LoopTest \/ FrameTest \/ ReadEnds \/ ReadEof \/ Dial \/ MakeQueue \/ Close
           \/ Open \/ DeferredClose
           \/ (\E n \in Conns : LinkBreaks(n)) \/ (\E k \in Calls, n \in Conns : ServerAnswers(k, n))
           \/ UNCHANGED vars
  BY <1>3 DEF ReadFrame, LoopTest, FrameTest, ReadEnds, ReadEof, Dial, MakeQueue, Close, Open,
              DeferredClose, LinkBreaks, ServerAnswers, vars, callVars
<1>4. CASE DoPanics
  BY <1>4 DEF DoPanics
<1>. QED
  BY <1>1, <1>2, <1>3, <1>4 DEF ClientStep

\* Where the current call stands.
LEMMA CurrentNext ==
  ASSUME TypeOK, Held, Current, ClientStep
  PROVE  Current'
<1>0. /\ cpc # "idle" => call \in Calls /\ call > 0 /\ outcome[call] = "none"
      /\ \A k \in Calls : k > call => outcome[k] = "none"
      /\ cpc \in {"write", "wait"} => handlers[Fn[call]] = call
  BY Numbered DEF Current, TypeOK
<1>1. call \in Nat /\ \A k \in Calls : k \in Nat
  BY Numbered DEF TypeOK
<1>2. DOMAIN outcome = Calls
  BY DEF TypeOK
<1>3. ASSUME NEW how, End(how), cpc # "idle", call' = call PROVE Current'
  BY <1>0, <1>1, <1>2, <1>3 DEF End, Current
<1>4. CASE DoStart
  <2>1. call' = call + 1 /\ call + 1 \in Calls
    BY <1>4, Numbered DEF DoStart, TypeOK
  <2>2. \A k \in Calls : k > call + 1 => k > call
    BY <1>1
  <2>3. ~(call + 1 > call + 1) /\ call + 1 > call /\ call + 1 > 0
    BY <1>1
  <2>4. CASE cpc' = "put" /\ outcome' = outcome
    BY <1>0, <2>1, <2>2, <2>3, <2>4 DEF Current
  <2>5. CASE cpc' = "idle" /\ outcome' = [outcome EXCEPT ![call'] = "refused"]
    BY <1>0, <1>2, <2>1, <2>2, <2>3, <2>5 DEF Current
  <2>. QED
    BY <1>4, <2>4, <2>5 DEF DoStart
<1>5. CASE DoPut
  <2>1. cpc = "put" /\ UNCHANGED <<call, outcome>> /\ \/ cpc' = cpc /\ UNCHANGED handlers
                                                      \/ handlers' = [handlers EXCEPT ![Fn[call]] = call]
    BY <1>5 DEF DoPut
  <2>2. Fn[call] \in DOMAIN handlers
    BY <1>0, <2>1, RequestType DEF TypeOK
  <2>. QED
    BY <1>0, <2>1, <2>2 DEF Current
<1>6. CASE Receive
  <2>1. cpc = "wait" /\ call' = call
    BY <1>6 DEF Receive
  <2>2. CASE UNCHANGED <<handlers, cpc, outcome>>
    BY <1>0, <2>1, <2>2 DEF Current
  <2>3. CASE \E how : End(how)
    BY <1>3, <2>1, <2>3
  <2>. QED
    BY <1>6, <2>2, <2>3 DEF Receive, Deliver
<1>7. CASE cpc = "write" /\ cpc' = "wait" /\ UNCHANGED <<call, handlers, outcome, calledBack>>
  BY <1>0, <1>7 DEF Current
<1>8. CASE /\ cpc \in {"write", "wait"} /\ UNCHANGED <<call, handlers, calledBack>>
           /\ \E how \in {"refused", "nothing", "timeout"} : End(how)
  BY <1>3, <1>8
<1>9. CASE UNCHANGED <<call, handlers, outcome, calledBack>> /\ cpc' \in {"idle", cpc}
  BY <1>0, <1>9 DEF Current
<1>. QED
  BY <1>4, <1>5, <1>6, <1>7, <1>8, <1>9, CallsStep

\* Once a call has timed out, one has.
LEMMA StillNoTimeout ==
  ASSUME TypeOK, Current, ClientStep, NoTimeout'
  PROVE  NoTimeout
<1>0. /\ cpc # "idle" => outcome[call] = "none"
      /\ \A k \in Calls : k > call => outcome[k] = "none"
      /\ DOMAIN outcome = Calls
  BY DEF Current, TypeOK
<1>1. ASSUME NEW how, End(how), cpc # "idle" PROVE NoTimeout
  BY <1>0, <1>1 DEF End, NoTimeout
<1>2. CASE UNCHANGED outcome
  BY <1>2 DEF NoTimeout
<1>3. CASE DoStart
  <2>1. outcome' = outcome \/ outcome' = [outcome EXCEPT ![call + 1] = "refused"]
    BY <1>3 DEF DoStart
  <2>2. call + 1 > call
    <3>1. call \in Nat
      BY Numbered DEF TypeOK
    <3>. QED
      BY <3>1
  <2>. QED
    BY <1>0, <1>2, <2>1, <2>2 DEF NoTimeout
<1>4. CASE Receive
  BY <1>1, <1>2, <1>4 DEF Receive, Deliver
<1>. QED
  BY <1>1, <1>2, <1>3, <1>4, CallsStep DEF DoPut

\* Callbacks are registered under the name of their call, and called once.
LEMMA CallbacksNext ==
  ASSUME TypeOK, Held, Current, Callbacks, ClientStep
  PROVE  Callbacks'
<1>0. /\ cpc # "idle" => call \in Calls /\ Fn[call] \in Funcs
      /\ handlers \in [Funcs -> {0} \cup Calls]
      /\ call \in Nat /\ \A k \in Calls : k \in Nat
  BY Numbered, CallNumbers DEF Current, TypeOK
<1>1. CASE UNCHANGED <<call, handlers, calledBack>> /\ (cpc' = "put" => cpc = "put")
  BY <1>1 DEF Callbacks, Answers, Expected
<1>2. CASE DoStart
  <2>1. call' = call + 1 /\ UNCHANGED <<handlers, calledBack>>
    BY <1>2 DEF DoStart
  <2>2. \A k \in Calls : k < call \/ k = call => k < call + 1
    BY <1>0
  <2>3. \A f \in Funcs : handlers[f] # 0 => handlers[f] \in Calls
    BY <1>0
  <2>. QED
    BY <2>1, <2>2, <2>3 DEF Callbacks, Answers, Expected
<1>3. CASE DoPut
  <2>1. cpc = "put" /\ UNCHANGED <<call, calledBack>>
    BY <1>3 DEF DoPut
  <2>2. CASE UNCHANGED <<handlers, cpc>>
    BY <1>1, <2>1, <2>2
  <2>3. CASE cpc' = "write" /\ handlers' = [handlers EXCEPT ![Fn[call]] = call]
    <3>1. calledBack[call] = <<>>
      BY <1>0, <2>1 DEF Callbacks
    <3>2. ASSUME NEW f \in Funcs, handlers'[f] # 0
          PROVE  /\ Fn[handlers'[f]] = f /\ calledBack[handlers'[f]] = <<>>
                 /\ handlers'[f] < call \/ handlers'[f] = call
      <4>1. CASE f = Fn[call]
        BY <1>0, <2>1, <2>3, <3>1, <4>1
      <4>2. CASE f # Fn[call]
        <5>1. handlers'[f] = handlers[f]
          BY <1>0, <2>3, <4>2
        <5>. QED
          BY <3>2, <5>1 DEF Callbacks
      <4>. QED
        BY <4>1, <4>2
    <3>. QED
      BY <2>1, <2>3, <3>2 DEF Callbacks, Answers, Expected
  <2>. QED
    BY <1>3, <2>2, <2>3 DEF DoPut
<1>4. CASE Receive
  <2>1. cpc = "wait" /\ rpc = "send" /\ call' = call
    BY <1>4 DEF Receive
  <2>2. CASE UNCHANGED <<handlers, calledBack>> /\ cpc' \in {"idle", cpc}
    BY <1>1, <2>1, <2>2
  <2>3. CASE Deliver /\ held.resp.DataType = PDT_S_RETURN_DATA
    <3>1. PICK f : f = Fn[held.call]
      OBVIOUS
    <3>2. PICK k : k = handlers[f]
      OBVIOUS
    <3>3. /\ f \in Funcs /\ cpc' = "idle"
          /\ \/ UNCHANGED <<handlers, calledBack>>
             \/ /\ k \in Calls /\ handlers' = [handlers EXCEPT ![f] = 0]
                /\ calledBack' = [calledBack EXCEPT ![k] = Append(@, held)]
      BY <2>1, <2>3, <3>1, <3>2, DeliverSays
    <3>4. held \in Answers
      BY <2>1, <2>3, Delivered
    <3>5. CASE k \in Calls /\ handlers' = [handlers EXCEPT ![f] = 0]
                /\ calledBack' = [calledBack EXCEPT ![k] = Append(@, held)]
      <4>1. k # 0
        BY <3>5, Numbered
      <4>2. /\ Fn[k] = f /\ calledBack[k] = <<>> /\ (k < call \/ (k = call /\ cpc # "put"))
        BY <3>2, <3>3, <4>1 DEF Callbacks
      <4>3. calledBack \in [Calls -> Seq(Answers)]
        BY DEF Callbacks
      <4>4. /\ Append(<<>>, held) = <<held>> /\ <<held>> \in Seq(Answers) /\ Len(<<held>>) = 1
            /\ DOMAIN <<held>> = {1} /\ <<held>>[1] = held
        BY <3>4
      <4>5. calledBack'[k] = <<held>> /\ \A j \in Calls : j # k => calledBack'[j] = calledBack[j]
        BY <3>5, <4>2, <4>3, <4>4
      <4>6. calledBack' \in [Calls -> Seq(Answers)]
        BY <3>5, <4>2, <4>3, <4>4
      <4>7. ASSUME NEW g \in Funcs, handlers'[g] # 0
            PROVE  /\ Fn[handlers'[g]] = g /\ calledBack'[handlers'[g]] = <<>>
                   /\ handlers'[g] < call \/ handlers'[g] = call
        <5>1. g # f /\ handlers'[g] = handlers[g] /\ handlers[g] \in Calls
          BY <1>0, <3>5, <4>7
        <5>2. Fn[handlers[g]] = g /\ calledBack[handlers[g]] = <<>>
              /\ (handlers[g] < call \/ handlers[g] = call)
          BY <4>7, <5>1 DEF Callbacks
        <5>. QED
          BY <4>2, <4>5, <5>1, <5>2
      <4>8. ASSUME NEW j \in Calls
            PROVE  /\ calledBack'[j] # <<>> => j < call \/ j = call
                   /\ Len(calledBack'[j]) <= 1
                   /\ \A i \in DOMAIN calledBack'[j] : Fn[calledBack'[j][i].call] = Fn[j]
        <5>1. CASE j = k
          <6>1. calledBack'[j] # <<>> => j < call \/ j = call
            BY <4>2, <5>1
          <6>2. Len(calledBack'[j]) <= 1
            <7>1. calledBack'[j] = <<held>>
              BY <4>5, <5>1
            <7>2. Len(<<held>>) <= 1
              OBVIOUS
            <7>. QED
              BY <7>1, <7>2
          <6>3. \A i \in DOMAIN calledBack'[j] : calledBack'[j][i] = held
            BY <4>4, <4>5, <5>1
          <6>4. Fn[held.call] = Fn[j]
            BY <3>1, <4>2, <5>1
          <6>. QED
            BY <6>1, <6>2, <6>3, <6>4
        <5>2. CASE j # k
          BY <4>5, <5>2 DEF Callbacks
        <5>. QED
          BY <5>1, <5>2
      <4>9. cpc' # "put" /\ call' = call
        BY <2>1, <3>3
      <4>10. Answers' = Answers
        BY DEF Answers, Expected
      <4>. QED
        BY <4>6, <4>7, <4>8, <4>9, <4>10 DEF Callbacks
    <3>. QED
      BY <2>2, <3>3, <3>5
  <2>. QED
    BY <1>4, <2>2, <2>3 DEF Receive, End
<1>. QED
  BY <1>1, <1>2, <1>3, <1>4, CallsStep DEF End

\* What Single says until a call times out.
Alone ==
  /\ \A k \in Calls : Due(k) => (k = call /\ cpc = "wait") \/ (noMap /\ cpc \in {"idle", "put"})
  /\ \A p, q \in atServer : p = q
  /\ atServer # {} => rpc # "send" /\ \A n \in Conns : order[n] = <<>>
  /\ \A n, m \in Conns : order[n] # <<>> /\ order[m] # <<>> => n = m /\ Len(order[n]) = 1
  /\ rpc = "send" => \A n \in Conns : order[n] = <<>>

\* A step that sends nothing: what is on its way is still what it was, or less.
LEMMA AloneKept ==
  ASSUME Alone, atServer' \subseteq atServer, order' = order,
         rpc' = "send" => rpc = "send" /\ held' = held,
         \A k \in Calls : (k = call /\ cpc = "wait") \/ (noMap /\ cpc \in {"idle", "put"}) =>
                          (k = call' /\ cpc' = "wait") \/ (noMap' /\ cpc' \in {"idle", "put"})
  PROVE  Alone'
<1>1. ASSUME NEW k \in Calls, Due(k)' PROVE Due(k)
  BY <1>1 DEF Due
<1>. QED
  BY <1>1 DEF Alone

\* Nothing is on its way.
Quiet == atServer = {} /\ rpc # "send" /\ \A n \in Conns : order[n] = <<>>

\* When Do is about to write, or is given a response, nothing else is on its way.
LEMMA QuietWhen ==
  ASSUME TypeOK, Held, Alone
  PROVE  /\ cpc = "write" \/ (cpc = "put" /\ ~noMap) => Quiet
         /\ rpc = "send" => atServer = {} /\ \A n \in Conns : order[n] = <<>>
<1>1. rpc = "send" => held.call \in Calls
  BY DEF Held, Answers, Failures
<1>2. \A p \in atServer : \E k \in Calls, n \in Conns : p = <<k, n>>
  <2>1. atServer \subseteq Calls \X Conns
    BY DEF TypeOK
  <2>2. \A p \in Calls \X Conns : \E k \in Calls, n \in Conns : p = <<k, n>>
    OBVIOUS
  <2>. QED
    BY <2>1, <2>2
<1>3. ASSUME NEW n \in Conns, order[n] # <<>> PROVE order[n][1] \in Calls /\ 1 \in DOMAIN order[n]
  <2>1. order[n] \in Seq(Calls)
    BY DEF TypeOK
  <2>. QED
    BY <1>3, <2>1
<1>4. CASE \A k \in Calls : ~Due(k)
  <2>1. atServer = {}
    BY <1>2, <1>4 DEF Due
  <2>2. rpc # "send"
    BY <1>1, <1>4 DEF Due
  <2>3. \A n \in Conns : order[n] = <<>>
    BY <1>3, <1>4 DEF Due
  <2>. QED
    BY <2>1, <2>2, <2>3 DEF Quiet
<1>5. cpc = "write" \/ (cpc = "put" /\ ~noMap) => \A k \in Calls : ~Due(k)
  BY DEF Alone
<1>. QED
  BY <1>4, <1>5 DEF Alone

\* Nothing on its way is never too much.
LEMMA QuietAlone ==
  ASSUME Quiet'
  PROVE  Alone'
<1>1. \A n \in Conns : DOMAIN order'[n] = {}
  BY DEF Quiet
<1>. QED
  BY <1>1 DEF Quiet, Alone, Due

\* Until a call times out, nothing but the one answer is on its way.
LEMMA AloneNext ==
  ASSUME TypeOK, Wire, Held, Current, ClientStep, qClosed # {} => noMap, Alone, NoTimeout'
  PROVE  Alone'
<1>1. CASE \/ LoopTest \/ FrameTest \/ ReadEnds \/ ReadEof \/ Dial \/ MakeQueue \/ Close \/ Open
           \/ DeferredClose
           \/ (\E n \in Conns : LinkBreaks(n)) \/ UNCHANGED vars
  <2>1. /\ atServer' \subseteq atServer /\ order' = order /\ UNCHANGED <<call, cpc>>
        /\ noMap' = noMap \/ noMap'
        /\ rpc' = "send" => rpc = "send" /\ held' = held
    BY <1>1 DEF LoopTest, FrameTest, ReadEnds, ReadEof, CloseClient, Dial, MakeQueue, Close, Open,
                DeferredClose, LinkBreaks, vars, callVars, ownVars, netVars
  <2>. QED
    BY <2>1, AloneKept
<1>2. CASE DoStart
  <2>1. /\ UNCHANGED <<atServer, order, rpc, held, noMap>> /\ cpc = "idle" /\ cpc' \in {"idle", "put"}
    BY <1>2 DEF DoStart, ownVars, netVars
  <2>. QED
    BY <2>1, AloneKept
<1>3. CASE DoPut
  <2>1. UNCHANGED <<atServer, order, rpc, held, noMap, call>>
    BY <1>3 DEF DoPut, ownVars, netVars
  <2>2. CASE cpc' = cpc
    BY <2>1, <2>2, AloneKept
  <2>3. CASE ~noMap
    <3>1. Quiet
      BY <1>3, <2>3, QuietWhen DEF DoPut
    <3>2. Quiet'
      BY <2>1, <3>1 DEF Quiet
    <3>. QED
      BY <3>2, QuietAlone
  <2>. QED
    BY <1>3, <2>2, <2>3 DEF DoPut
<1>4. CASE DoWrite
  <2>1. Quiet /\ UNCHANGED <<order, rpc, held, noMap, call>>
    BY <1>4, QuietWhen DEF DoWrite, ownVars
  <2>2. CASE atServer' = atServer
    <3>1. Quiet'
      BY <2>1, <2>2 DEF Quiet
    <3>. QED
      BY <3>1, QuietAlone
  <2>3. CASE cpc' = "wait" /\ atServer' = atServer \cup {<<call, conn>>}
    <3>1. atServer' = {<<call, conn>>} /\ rpc' # "send" /\ \A n \in Conns : order'[n] = <<>>
      BY <2>1, <2>3 DEF Quiet
    <3>2. \A n \in Conns : DOMAIN order'[n] = {}
      BY <3>1
    <3>3. ASSUME NEW k \in Calls, Due(k)' PROVE k = call
      BY <3>1, <3>2, <3>3 DEF Due
    <3>4. \A k \in Calls : Due(k)' => k = call' /\ cpc' = "wait"
      BY <2>1, <2>3, <3>3
    <3>. QED
      BY <3>1, <3>4 DEF Alone
  <2>. QED
    BY <1>4, <2>2, <2>3 DEF DoWrite
<1>5. CASE Receive
  <2>1. rpc = "send" /\ rpc' = "loop" /\ UNCHANGED <<atServer, order>>
    BY <1>5 DEF Receive, netVars
  <2>2. Quiet'
    BY <2>1, QuietWhen DEF Quiet
  <2>. QED
    BY <2>2, QuietAlone
<1>6. CASE ReceiveNil
  <2>1. noMap /\ UNCHANGED <<atServer, order, rpc, held, noMap>> /\ cpc' = "idle"
    BY <1>6 DEF ReceiveNil, End, ownVars, netVars
  <2>. QED
    BY <2>1, AloneKept
<1>7. CASE Timeout
  <2>1. call \in Calls
    BY <1>7, Numbered DEF Timeout, Current, TypeOK
  <2>2. outcome'[call] = "timeout"
    BY <1>7, <2>1 DEF Timeout, End, TypeOK
  <2>. QED
    BY <2>1, <2>2 DEF NoTimeout
<1>8. CASE DoPanics
  <2>1. /\ UNCHANGED <<atServer, order, noMap>> /\ noMap /\ cpc' = "idle"
        /\ rpc' = "send" => rpc = "send" /\ held' = held
    BY <1>8 DEF DoPanics, ownVars, netVars
  <2>. QED
    BY <2>1, AloneKept
<1>9. CASE ReadFrame
  <2>1. PICK n \in Conns : n = conn
    BY <1>9, Numbered DEF ReadFrame, TypeOK
  <2>2. /\ HasFrame(stream[n]) /\ order' = [order EXCEPT ![n] = Tail(order[n])] /\ rpc' = "send"
        /\ held'.call = Head(order[n]) /\ UNCHANGED <<atServer, call, cpc, noMap>>
    BY <1>9, <2>1 DEF ReadFrame, callVars, ownVars
  <2>3. order[n] # <<>> /\ order[n] \in Seq(Calls) /\ DOMAIN order = Conns
    BY <2>2, WireRead DEF Wire, TypeOK
  <2>4. Len(order[n]) = 1 /\ atServer = {} /\ \A m \in Conns : m # n => order[m] = <<>>
    BY <2>3 DEF Alone
  <2>5. Head(order[n]) = order[n][1] /\ 1 \in DOMAIN order[n] /\ Tail(order[n]) = <<>>
    BY <2>3, <2>4
  <2>6. \A m \in Conns : order'[m] = <<>>
    BY <2>2, <2>3, <2>4, <2>5
  <2>7. \A m \in Conns : DOMAIN order'[m] = {}
    BY <2>6
  <2>8. ASSUME NEW k \in Calls, Due(k)' PROVE Due(k)
    <3>1. k = Head(order[n])
      BY <2>2, <2>4, <2>7, <2>8 DEF Due
    <3>. QED
      BY <2>5, <3>1 DEF Due
  <2>. QED
    BY <2>2, <2>4, <2>6, <2>8 DEF Alone
<1>10. ASSUME NEW k \in Calls, NEW n \in Conns, ServerAnswers(k, n) PROVE Alone'
  <2>1. PICK r \in Replies(k) : order' = IF r = <<>> THEN order ELSE [order EXCEPT ![n] = Append(order[n], k)]
    BY <1>10 DEF ServerAnswers, Replies
  <2>2. order' = [order EXCEPT ![n] = Append(order[n], k)]
    BY <2>1, ReplyDecodes, LongFrame
  <2>3. /\ <<k, n>> \in atServer /\ atServer' = atServer \ {<<k, n>>}
        /\ UNCHANGED <<call, cpc, noMap, rpc, held>>
    BY <1>10 DEF ServerAnswers, callVars, ownVars
  <2>4. atServer' = {} /\ rpc # "send" /\ \A m \in Conns : order[m] = <<>>
    BY <2>3 DEF Alone
  <2>5. /\ order'[n] = <<k>> /\ \A m \in Conns : m # n => order'[m] = <<>>
    <3>1. Append(<<>>, k) = <<k>>
      OBVIOUS
    <3>2. DOMAIN order = Conns
      BY DEF TypeOK
    <3>. QED
      BY <2>2, <2>4, <3>1, <3>2
  <2>6. ASSUME NEW j \in Calls, Due(j)' PROVE Due(j)
    <3>1. PICK m \in Conns : \E i \in DOMAIN order'[m] : order'[m][i] = j
      BY <2>3, <2>4, <2>6 DEF Due
    <3>2. m = n /\ j = k
      BY <2>5, <3>1
    <3>. QED
      BY <2>3, <3>2 DEF Due
  <2>7. Len(<<k>>) = 1
    OBVIOUS
  <2>8. \A m, q \in Conns : order'[m] # <<>> /\ order'[q] # <<>> => m = q /\ Len(order'[m]) = 1
    BY <2>5, <2>7
  <2>. QED
    BY <2>3, <2>4, <2>6, <2>8 DEF Alone
<1>. QED
  BY <1>1, <1>2, <1>3, <1>4, <1>5, <1>6, <1>7, <1>8, <1>9, <1>10 DEF ClientStep

\* A call ends with its own response, and its callback is given that.
LEMMA OwnNext ==
  ASSUME TypeOK, Held, Current, Callbacks, Alone, Own, ClientStep, NoTimeout, NoTimeout'
  PROVE  Own'
<1>1. \A k \in Calls : outcome[k] # "other" /\ \A i \in DOMAIN calledBack[k] : calledBack[k][i].call = k
  BY DEF Own
<1>2. CASE /\ calledBack' = calledBack
           /\ \/ outcome' = outcome
              \/ \E j, how : how # "other" /\ outcome' = [outcome EXCEPT ![j] = how]
  BY <1>1, <1>2 DEF Own, TypeOK
<1>3. CASE Receive
  <2>1. cpc = "wait" /\ rpc = "send" /\ call \in Calls /\ call # 0 /\ handlers[Fn[call]] = call
    BY <1>3, Numbered DEF Receive, Current, TypeOK
  <2>2. held.call \in Calls
    BY <2>1 DEF Held, Answers, Failures
  <2>3. held.call = call
    BY <2>1, <2>2 DEF Alone, Due
  <2>4. CASE UNCHANGED calledBack
    BY <1>2, <1>3, <2>3, <2>4 DEF Receive, End, Deliver
  <2>5. CASE Deliver /\ held.resp.DataType = PDT_S_RETURN_DATA
    <3>1. /\ calledBack' = [calledBack EXCEPT ![call] = Append(@, held)]
          /\ outcome' = [outcome EXCEPT ![call] = "data"]
      BY <2>1, <2>3, <2>5, DeliverSays
    <3>2. calledBack[call] = <<>> /\ DOMAIN calledBack = Calls
      BY <2>1, RequestType DEF Callbacks, TypeOK
    <3>3. /\ Append(<<>>, held) = <<held>> /\ DOMAIN <<held>> = {1} /\ <<held>>[1] = held
      OBVIOUS
    <3>4. calledBack'[call] = <<held>> /\ \A k \in Calls : k # call => calledBack'[k] = calledBack[k]
      BY <2>1, <3>1, <3>2, <3>3
    <3>5. \A k \in Calls : \A i \in DOMAIN calledBack'[k] : calledBack'[k][i].call = k
      BY <1>1, <2>3, <3>3, <3>4
    <3>6. \A k \in Calls : outcome'[k] # "other"
      BY <1>1, <3>1 DEF TypeOK
    <3>. QED
      BY <3>5, <3>6 DEF Own
  <2>. QED
    BY <1>3, <2>4, <2>5 DEF Receive
<1>. QED
  BY <1>2, <1>3, CallsStep DEF DoStart, DoPut, End

\* The handlers are lost, and the process dies, by an orderly end or a Close only.
LEMMA EndedNext ==
  ASSUME TypeOK, Ended, ClientStep
  PROVE  Ended'
<1>0. /\ qClosed # {} => noMap
      /\ noMap \/ panicked \notin {"no", "nil client"} => \E n \in Conns : link[n] \in {"eof", "shut"}
      /\ DOMAIN link = Conns
  BY DEF Ended, TypeOK
<1>1. CASE /\ UNCHANGED <<qClosed, noMap>> /\ (noMap \/ panicked' \in {panicked, "nil client"})
           /\ \A n \in Conns : link[n] \in {"eof", "shut"} => link'[n] = link[n]
  BY <1>0, <1>1 DEF Ended
<1>2. CASE noMap' /\ \E n \in Conns : link'[n] \in {"eof", "shut"}
  BY <1>2 DEF Ended
<1>3. CASE ReadEof
  BY <1>2, <1>3, Numbered DEF ReadEof, CloseClient, netVars, TypeOK
<1>4. CASE Close
  <2>1. noMap' /\ conn \in Conns /\ link' = [link EXCEPT ![conn] = "shut"]
    BY <1>4, Numbered DEF Close, CloseClient, TypeOK
  <2>2. link'[conn] = "shut"
    BY <1>0, <2>1
  <2>. QED
    BY <1>2, <2>1, <2>2
<1>5. CASE DeferredClose
  <2>1. CASE noMap' /\ conn # 0 /\ link' = [link EXCEPT ![conn] = "shut"]
    <3>1. conn \in Conns
      BY <2>1, Numbered DEF TypeOK
    <3>2. link'[conn] = "shut"
      BY <1>0, <2>1, <3>1
    <3>. QED
      BY <1>2, <2>1, <3>1, <3>2
  <2>. QED
    BY <1>1, <1>5, <2>1 DEF DeferredClose
<1>6. ASSUME NEW n \in Conns, LinkBreaks(n) PROVE Ended'
  <2>1. /\ UNCHANGED <<qClosed, noMap, panicked>> /\ link[n] = "up"
        /\ \E how : link' = [link EXCEPT ![n] = how]
    BY <1>6 DEF LinkBreaks, ownVars
  <2>. QED
    BY <1>0, <1>1, <2>1
<1>7. CASE DoPut \/ Receive
  <2>1. UNCHANGED <<qClosed, noMap, link>> /\ (noMap \/ panicked' = panicked)
    BY <1>7 DEF DoPut, Receive, ownVars, netVars
  <2>. QED
    BY <1>1, <2>1
<1>8. CASE \/ DoStart \/ DoWrite \/ ReceiveNil \/ Timeout \/ ReadFrame \/ LoopTest \/ FrameTest
           \/ ReadEnds \/ Dial \/ MakeQueue
           \/ Open \/ DoPanics \/ (\E k \in Calls, n \in Conns : ServerAnswers(k, n)) \/ UNCHANGED vars
  <2>1. UNCHANGED <<qClosed, noMap, link>> /\ panicked' \in {panicked, "nil client"}
    BY <1>8 DEF DoStart, DoWrite, ReceiveNil, Timeout, ReadFrame, LoopTest, FrameTest, ReadEnds, Dial,
                MakeQueue, Open, DoPanics, ServerAnswers, vars, ownVars, netVars
  <2>. QED
    BY <1>1, <2>1
<1>. QED
  BY <1>3, <1>4, <1>5, <1>6, <1>7, <1>8 DEF ClientStep

\* What Handler says of a handler that makes one call.
OneCall ==
  /\ call <= 1 /\ (hpc \in {"start", "begin"} => call = 0)
  /\ hpc # "do" => cpc = "idle"
  /\ noMap /\ hpc # "done" => \E n \in Conns : n # conn /\ link[n] = "eof"
  /\ panicked \in {"nil handlers", "send on closed queue"} =>
       outcome[1] = "timeout" \/ \E n \in Conns : link[n] = "eof"

\* A response that comes when the call is over: the call has timed out.
LEMMA LateResponse ==
  ASSUME TypeOK, Held, Current, Single, OneCall, cpc = "idle", ~noMap, rpc = "send"
  PROVE  outcome[1] = "timeout"
<1>1. held.call \in Calls /\ Due(held.call)
  BY DEF Held, Answers, Failures, Due
<1>2. ~NoTimeout
  BY <1>1 DEF Single
<1>3. PICK k \in Calls : outcome[k] = "timeout"
  BY <1>2 DEF NoTimeout
<1>4. ~(k > call)
  BY <1>3 DEF Current
<1>5. call \in Nat /\ k \in Nat /\ k # 0
  BY Numbered DEF TypeOK
<1>6. k = 1
  <2>1. call <= 1
    BY DEF OneCall
  <2>. QED
    BY <1>4, <1>5, <2>1
<1>. QED
  BY <1>3, <1>6

\* The steps of the handler itself.
LEMMA HandlerSteps ==
  ASSUME Core, OneCall, OneShot, HandlerStep
  PROVE  OneCall'
<1>0. call \in Nat
  BY Numbered DEF Core, TypeOK
<1>1. CASE Open
  BY <1>1 DEF Open, OneCall, callVars, ownVars, netVars
<1>2. CASE Refuse
  BY <1>2 DEF Refuse, OneCall, vars, callVars, ownVars, netVars
<1>3. CASE BeginDo
  <2>1. /\ call = 0 /\ call' = 1 /\ UNCHANGED <<noMap, conn, link, panicked>> /\ panicked = "no"
        /\ hpc = "begin" /\ hpc' = (IF cpc' = "idle" THEN "close" ELSE "do")
    BY <1>3 DEF BeginDo, DoStart, Alive, OneCall, ownVars, netVars
  <2>. QED
    BY <2>1 DEF OneCall
<1>4. CASE InDo
  <2>1. /\ UNCHANGED <<call, noMap, conn, link>> /\ (panicked' = panicked \/ noMap) /\ panicked = "no"
        /\ hpc = "do" /\ hpc' = (IF cpc' = "idle" THEN "close" ELSE "do")
    BY <1>4 DEF InDo, DoStep, DoPut, DoWrite, Receive, ReceiveNil, Timeout, Alive, ownVars, netVars
  <2>. QED
    BY <2>1 DEF OneCall
<1>5. CASE DoPanics
  <2>1. /\ UNCHANGED <<call, noMap, conn, link, panicked, outcome>>
        /\ hpc = "do" /\ hpc' = "close" /\ cpc' = "idle"
    BY <1>5 DEF DoPanics, ownVars, netVars
  <2>. QED
    BY <2>1 DEF OneCall
<1>6. CASE DeferredClose
  <2>1. /\ UNCHANGED <<call, cpc, outcome>>
        /\ hpc = "close" /\ hpc' = "done" /\ cpc = "idle" /\ panicked = "no"
    BY <1>6 DEF DeferredClose, Alive, OneCall, callVars
  <2>2. \/ UNCHANGED panicked
        \/ noMap /\ (link' = link \/ link' = [link EXCEPT ![conn] = "shut"])
        \/ ~noMap /\ rpc = "send"
    BY <1>6 DEF DeferredClose
  <2>3. CASE UNCHANGED panicked
    BY <2>1, <2>3 DEF OneCall
  <2>4. CASE noMap /\ (link' = link \/ link' = [link EXCEPT ![conn] = "shut"])
    <3>1. PICK n \in Conns : n # conn /\ link[n] = "eof"
      BY <2>1, <2>4 DEF OneCall
    <3>2. link'[n] = "eof"
      BY <2>4, <3>1 DEF Core, TypeOK
    <3>. QED
      BY <2>1, <3>2 DEF OneCall
  <2>5. CASE ~noMap /\ rpc = "send"
    <3>1. outcome[1] = "timeout"
      BY <2>1, <2>5, LateResponse DEF Core
    <3>. QED
      BY <2>1, <3>1 DEF OneCall
  <2>. QED
    BY <2>2, <2>3, <2>4, <2>5
<1>. QED
  BY <1>1, <1>2, <1>3, <1>4, <1>5, <1>6 DEF HandlerStep

\* What goes on beside it.
LEMMA BesideSteps ==
  ASSUME Core, OneCall, Beside
  PROVE  OneCall'
<1>0. /\ UNCHANGED <<hpc, user>> /\ dialled \in Nat /\ conn \in Nat /\ DOMAIN link = Conns
  BY Numbered DEF Beside, handlerVars, Core, TypeOK
<1>1. CASE \/ ReadFrame \/ LoopTest \/ FrameTest \/ ReadEnds \/ MakeQueue
           \/ (\E n \in Conns : ServerAnswers(1, n))
  <2>1. UNCHANGED <<call, cpc, noMap, conn, link, panicked, outcome>>
    BY <1>1 DEF ReadFrame, LoopTest, FrameTest, ReadEnds, MakeQueue, ServerAnswers, callVars, ownVars,
                netVars
  <2>. QED
    BY <1>0, <2>1 DEF OneCall
<1>2. CASE ReadEof
  <2>1. /\ conn \in Conns /\ link[conn] = "eof" /\ conn' = 0 /\ conn # 0
        /\ UNCHANGED <<link, call, cpc, outcome>>
    BY <1>2, Numbered DEF ReadEof, CloseClient, callVars, netVars, Core, TypeOK
  <2>. QED
    BY <1>0, <2>1 DEF OneCall
<1>3. CASE Dial
  <2>1. /\ UNCHANGED <<link, call, cpc, outcome, noMap, panicked>>
        /\ conn' = conn \/ conn' = dialled + 1
    BY <1>3 DEF Dial, callVars, netVars
  <2>2. ASSUME NEW n \in Conns, link[n] = "eof" PROVE n # dialled + 1
    <3>1. n <= dialled /\ n \in Nat
      BY <2>2, Numbered DEF Core, Dials
    <3>. QED
      BY <1>0, <3>1
  <2>. QED
    BY <1>0, <2>1, <2>2 DEF OneCall
<1>4. ASSUME NEW n \in Conns, LinkBreaks(n) PROVE OneCall'
  <2>1. /\ UNCHANGED <<call, cpc, noMap, conn, panicked, outcome>> /\ link[n] = "up"
        /\ \E how : link' = [link EXCEPT ![n] = how]
    BY <1>4 DEF LinkBreaks, callVars, ownVars
  <2>2. \A m \in Conns : link[m] = "eof" => link'[m] = "eof"
    BY <1>0, <2>1
  <2>. QED
    BY <1>0, <2>1, <2>2 DEF OneCall
<1>. QED
  BY <1>1, <1>2, <1>3, <1>4 DEF Beside, ReadStep

-----------------------------------------------------------------------------
(* The invariant *)

\* A client that was just started satisfies the invariant.
LEMMA InitClient ==
  ASSUME GatewayInit
  PROVE  ClientInv
<1>. USE DEF GatewayInit, Init
<1>1. TypeOK
  <2>1. NoFrame.call = 0
    BY DEF NoFrame
  <2>2. /\ call \in 0..Len(Fn) /\ waitQ \in 0..MaxConns /\ conn \in 0..MaxConns
        /\ dialled \in Conns /\ queue \in Conns
    BY CallNumbers, Numbered
  <2>3. stream \in [Conns -> Seq(Nat)] /\ order \in [Conns -> Seq(Calls)]
    OBVIOUS
  <2>. QED
    BY <2>1, <2>2, <2>3 DEF TypeOK
<1>2. Wire
  BY WireEmpty DEF Wire
<1>3. Held /\ Dials
  BY CallNumbers DEF Held, Dials
<1>4. Callbacks /\ Own
  <2>1. calledBack \in [Calls -> Seq(Answers)]
    OBVIOUS
  <2>2. \A k \in Calls : Len(calledBack[k]) <= 1 /\ DOMAIN calledBack[k] = {}
    OBVIOUS
  <2>. QED
    BY <2>1, <2>2 DEF Callbacks, Own
<1>5. Current
  BY DEF Current
<1>6. Single
  <2>1. \A n \in Conns : DOMAIN order[n] = {}
    OBVIOUS
  <2>. QED
    BY <2>1 DEF Single, Due
<1>7. Ended
  BY DEF Ended
<1>8. Handler
  BY DEF Handler, OneShot
<1>. QED
  BY <1>1, <1>2, <1>3, <1>4, <1>5, <1>6, <1>7, <1>8 DEF ClientInv, Core

\* Every step preserves it.
LEMMA NextClient ==
  ASSUME ClientInv, [GatewayNext]_<<vars, handlerVars>>
  PROVE  ClientInv'
<1>1. /\ TypeOK /\ Wire /\ Held /\ Dials /\ Callbacks /\ Current /\ Single /\ Own /\ Core
      /\ Ended /\ Handler /\ (qClosed # {} => noMap)
  BY DEF ClientInv, Core, Ended
<1>2. ClientStep
  BY <1>1, StepKinds
<1>3. TypeOK' /\ Wire' /\ Held' /\ Dials' /\ Callbacks' /\ Current' /\ Ended'
  BY <1>1, <1>2, TypeNext, WireNext, HeldNext, DialsNext, CallbacksNext, CurrentNext, EndedNext
<1>4. ASSUME NoTimeout' PROVE Alone' /\ Own'
  <2>1. NoTimeout
    BY <1>1, <1>2, <1>4, StillNoTimeout
  <2>2. Alone
    BY <1>1, <2>1 DEF Single, Alone
  <2>. QED
    BY <1>1, <1>2, <1>4, <2>1, <2>2, AloneNext, OwnNext
<1>5. Single' /\ Own'
  <2>1. Single'
    BY <1>4 DEF Single, Alone
  <2>2. Own'
    BY <1>4 DEF Own
  <2>. QED
    BY <2>1, <2>2
<1>6. Handler'
  <2>1. /\ user \in {"application", "gateway", "worker"} /\ (OneShot => OneCall)
        /\ hpc \in {"start", "begin", "do", "close", "done", "aborted"}
    BY <1>1 DEF Handler, OneCall
  <2>2. user' = user /\ hpc' \in {"start", "begin", "do", "close", "done", "aborted"}
    BY <2>1 DEF GatewayNext, HandlerStep, Open, Refuse, BeginDo, InDo, DoPanics, DeferredClose, Beside,
                handlerVars
  <2>3. OneShot' => OneCall'
    <3>1. CASE UNCHANGED <<vars, handlerVars>>
      BY <2>1, <3>1 DEF OneShot, OneCall, vars, callVars, ownVars, netVars, handlerVars
    <3>2. CASE user = "application"
      BY <2>2, <3>2 DEF OneShot
    <3>3. CASE OneShot /\ HandlerStep
      BY <1>1, <2>1, <3>3, HandlerSteps
    <3>4. CASE OneShot /\ Beside
      BY <1>1, <2>1, <3>4, BesideSteps
    <3>. QED
      BY <2>1, <3>1, <3>2, <3>3, <3>4 DEF GatewayNext, OneShot
  <2>. QED
    BY <2>1, <2>2, <2>3 DEF Handler, OneShot, OneCall
<1>. QED
  BY <1>3, <1>5, <1>6 DEF ClientInv, Core

\* The invariant holds in every reachable state.
LEMMA ClientInvariance == GatewaySpec => []ClientInv
  BY InitClient, NextClient, PTL DEF GatewaySpec

\* A callback runs at most once, however late or reordered the responses are.
THEOREM CalledBackOnce == GatewaySpec => []CallbackOnce
<1>1. ClientInv => CallbackOnce
  BY DEF ClientInv, Core, Callbacks, CallbackOnce
<1>. QED
  BY <1>1, ClientInvariance, PTL

\* A callback is given all of what its function returned for the parameters of a call
\* of it, through four hops, and nothing else, wherever a connection ends.
THEOREM AnswersIntact == GatewaySpec => []IntactAnswer
<1>1. ASSUME ClientInv, NEW k \in Calls, NEW i \in DOMAIN calledBack[k]
      PROVE  /\ Fn[calledBack[k][i].call] = Fn[k]
             /\ calledBack[k][i].resp = Expected(calledBack[k][i].call)
  <2>1. calledBack[k] \in Seq(Answers) /\ Fn[calledBack[k][i].call] = Fn[k]
    BY <1>1 DEF ClientInv, Core, Callbacks
  <2>2. calledBack[k][i] \in Answers
    BY <1>1, <2>1, LenProperties
  <2>. QED
    BY <2>1, <2>2 DEF Answers
<1>2. ClientInv => IntactAnswer
  BY <1>1 DEF IntactAnswer
<1>. QED
  BY <1>2, ClientInvariance, PTL

\* Until a call times out, calls end with the response to that very call.
THEOREM ResponseIsOwn == GatewaySpec => []OwnResponse
<1>1. ClientInv => OwnResponse
  BY DEF ClientInv, Core, Own, NoTimeout, OwnResponse
<1>. QED
  BY <1>1, ClientInvariance, PTL

\* Neither a reset nor a late response takes the process down, nor, but for a call that
\* timed out or a connection that ended in an orderly way, the deferred Close.
THEOREM SurvivesResets == GatewaySpec => []NoPanic
<1>1. ClientInv => NoPanic
  BY DEF ClientInv, Ended, Handler, NoPanic, Core, TypeOK
<1>. QED
  BY <1>1, ClientInvariance, PTL

-----------------------------------------------------------------------------
(* ClientPool: created counts exactly the clients in the channel, in a      *)
(* caller's hands and being dialled, and each client is in one place        *)

\* The callers that have a place of the pool.
Counted == {x \in Callers : pc[x] = "dial" \/ has[x] # NoClient}

\* Where a caller has a client, and where it has none.
Hands ==
  \A x \in Callers :
    /\ pc[x] \in {"use", "put", "send", "drop"} => has[x] # NoClient
    /\ pc[x] \in {"idle", "get", "dial", "recv"} => has[x] = NoClient
    /\ pc[x] = "dead" /\ ~closed => has[x] # NoClient

\* The account, until Close, which empties the channel for good.
Account ==
  /\ closed => idle = <<>>
  /\ ~closed => created = Len(idle) + Cardinality(Counted) /\ created <= PoolSize

\* A client is in the channel once, or in one caller's hands.
Distinct ==
  /\ \A x, y \in Callers : has[x] = has[y] /\ has[x] # NoClient => x = y
  /\ \A x \in Callers : has[x] \notin Range(idle)
  /\ IsInjective(idle)

PoolInv == PoolTypeOK /\ Hands /\ Account /\ Distinct

\* The set of entries of the channel, as the two libraries name it.
LEMMA ToSetIsRange == ToSet(idle) = Range(idle)
  BY DEF ToSet, Range

\* No caller without a client is taken for one whose client is in the channel.
LEMMA NilNotIdle ==
  ASSUME PoolTypeOK
  PROVE  Range(idle) \subseteq Clients /\ NoClient \notin Range(idle)
  BY ClientPoolAssumption, RangeOfSeq DEF PoolTypeOK

\* What is counted is finite.
LEMMA CountedFinite ==
  /\ IsFiniteSet(Counted) /\ Cardinality(Counted) \in Nat
  /\ \A x \in Counted : Cardinality(Counted) >= 1
<1>1. Counted \in SUBSET Callers /\ IsFiniteSet(Callers)
  BY ClientPoolAssumption DEF Counted
<1>2. IsFiniteSet(Counted)
  BY <1>1, FS_Subset
<1>. QED
  BY <1>2, FS_CardinalityType, FS_EmptySet

\* A caller that gets a place, and one that gives its place back.
LEMMA PlaceTaken ==
  ASSUME NEW x, x \notin Counted, Counted' = Counted \cup {x}
  PROVE  Cardinality(Counted)' = Cardinality(Counted) + 1
  BY CountedFinite, FS_AddElement

\* A place given back is one client fewer.
LEMMA PlaceGivenBack ==
  ASSUME NEW x \in Counted, Counted' = Counted \ {x}
  PROVE  Cardinality(Counted)' = Cardinality(Counted) - 1
  BY CountedFinite, FS_RemoveElement

\* The empty pool satisfies the inductive invariant.
LEMMA InitPool ==
  ASSUME PoolInit
  PROVE  PoolInv
<1>. USE PoolInit, ClientPoolAssumption DEF PoolInit
<1>1. PoolTypeOK
  <2>1. created \in Int /\ calls \in 0..MaxCalls /\ idle \in Seq(Clients)
    OBVIOUS
  <2>. QED
    BY <2>1, Zenon DEF PoolTypeOK
<1>2. Hands
  BY DEF Hands
<1>3. Account
  <2>1. Counted = {}
    BY DEF Counted
  <2>. QED
    BY <2>1, FS_EmptySet DEF Account
<1>4. Distinct
  BY EmptyQueue DEF Distinct
<1>. QED
  BY <1>1, <1>2, <1>3, <1>4 DEF PoolInv

\* There is a Client to dial: the pool has fewer than it may have.
LEMMA FreshClient ==
  ASSUME PoolInv, NEW x \in Callers, pc[x] = "dial"
  PROVE  \E c \in Clients : c \notin Pooled
<1>. USE ClientPoolAssumption, PoolInv DEF PoolInv
<1>1. IsFiniteSet(Range(idle)) /\ Cardinality(Range(idle)) = Len(idle) /\ Len(idle) \in Nat
  BY QueueCount, LenProperties DEF PoolTypeOK, Distinct
<1>2. Len(idle) < PoolSize
  <2>1. CASE closed
    BY <2>1 DEF Account
  <2>2. CASE ~closed
    BY <1>1, <2>2, CountedFinite DEF Account, Counted
  <2>. QED
    BY <2>1, <2>2
<1>3. IsFiniteSet(Borrowed) /\ Cardinality(Borrowed) <= Cardinality(Callers)
  <2>. DEFINE H == {y \in Callers : has[y] # NoClient}
              f == [y \in H |-> has[y]]
  <2>1. f \in Surjection(H, Borrowed)
    BY DEF Surjection, Borrowed
  <2>2. IsFiniteSet(H) /\ Cardinality(H) <= Cardinality(Callers)
    BY FS_Subset
  <2>3. IsFiniteSet(Borrowed) /\ Cardinality(Borrowed) <= Cardinality(H)
    BY <2>1, <2>2, FS_Surjection
  <2>4. Cardinality(H) \in Nat /\ Cardinality(Borrowed) \in Nat /\ Cardinality(Callers) \in Nat
    BY <2>2, <2>3, FS_CardinalityType
  <2>. QED
    BY <2>2, <2>3, <2>4
<1>4. IsFiniteSet(Pooled) /\ Cardinality(Pooled) <= Len(idle) + Cardinality(Borrowed)
  <2>1. Pooled = Range(idle) \cup Borrowed
    BY ToSetIsRange DEF Pooled
  <2>2. Cardinality(Range(idle) \cap Borrowed) \in Nat
    BY <1>1, FS_Intersection, FS_CardinalityType
  <2>3. Cardinality(Borrowed) \in Nat
    BY <1>3, FS_CardinalityType
  <2>4. /\ IsFiniteSet(Range(idle) \cup Borrowed)
        /\ Cardinality(Range(idle) \cup Borrowed) =
             Cardinality(Range(idle)) + Cardinality(Borrowed) - Cardinality(Range(idle) \cap Borrowed)
    BY <1>1, <1>3, FS_Union
  <2>. QED
    BY <1>1, <2>1, <2>2, <2>3, <2>4
<1>5. SUFFICES ASSUME Clients \subseteq Pooled PROVE FALSE
  OBVIOUS
<1>6. Cardinality(Clients) <= Cardinality(Pooled)
  BY <1>4, <1>5, FS_Subset
<1>7. /\ Cardinality(Clients) \in Nat /\ Cardinality(Pooled) \in Nat
      /\ Cardinality(Borrowed) \in Nat /\ Cardinality(Callers) \in Nat
  BY <1>3, <1>4, FS_CardinalityType
<1>. QED
  BY <1>1, <1>2, <1>3, <1>4, <1>6, <1>7

\* A call begins.
LEMMA DoBegins ==
  ASSUME PoolInv, NEW x \in Callers, Do(x)
  PROVE  PoolInv'
<1>. USE ClientPoolAssumption, PoolInv DEF PoolInv, At, Goto, Do
<1>1. PoolTypeOK'
  BY DEF PoolTypeOK
<1>2. Hands'
  BY DEF PoolTypeOK, Hands
<1>3. Account'
  <2>1. Counted' = Counted
    BY DEF PoolTypeOK, Hands, Counted
  <2>. QED
    BY <2>1 DEF Account
<1>4. Distinct'
  BY DEF PoolTypeOK, Distinct
<1>. QED
  BY <1>1, <1>2, <1>3, <1>4

\* Phase 1 of getOrCreate: a place is taken, or the pool is at capacity.
LEMMA ReserveStep ==
  ASSUME PoolInv, NEW x \in Callers, Reserve(x)
  PROVE  PoolInv'
<1>. USE ClientPoolAssumption, PoolInv DEF PoolInv, At, Goto, Reserve
<1>1. PoolTypeOK'
  BY DEF PoolTypeOK
<1>2. Hands'
  BY DEF PoolTypeOK, Hands
<1>3. Account'
  <2>1. CASE created < PoolSize
    <3>1. x \notin Counted /\ Counted' = Counted \cup {x} /\ created' = created + 1
      BY <2>1 DEF PoolTypeOK, Hands, Counted
    <3>2. Cardinality(Counted)' = Cardinality(Counted) + 1
      BY <3>1, PlaceTaken
    <3>. QED
      BY <2>1, <3>1, <3>2, CountedFinite, LenProperties DEF PoolTypeOK, Account
  <2>2. CASE created >= PoolSize
    <3>1. Counted' = Counted /\ created' = created
      BY <2>2 DEF PoolTypeOK, Hands, Counted
    <3>. QED
      BY <3>1 DEF Account
  <2>. QED
    BY <2>1, <2>2 DEF PoolTypeOK
<1>4. Distinct'
  BY DEF PoolTypeOK, Distinct
<1>. QED
  BY <1>1, <1>2, <1>3, <1>4

\* A dial succeeds: the caller's place is now that of a client nobody has.
LEMMA DialOkStep ==
  ASSUME PoolInv, NEW x \in Callers, DialOk(x)
  PROVE  PoolInv'
<1>. USE ClientPoolAssumption, PoolInv DEF PoolInv, At, Goto, DialOk
<1>. DEFINE c == CHOOSE c \in Clients : c \notin Pooled
<1>a. c \in Clients /\ c \notin Range(idle) /\ \A y \in Callers : has[y] # c
  <2>1. c \in Clients /\ c \notin Pooled
    BY FreshClient, Zenon
  <2>. QED
    BY <2>1, ToSetIsRange DEF Pooled, Borrowed
<1>b. has' = [has EXCEPT ![x] = c] /\ alive' = alive \cup {c}
  BY Zenon
<1>. HIDE DEF c
<1>1. PoolTypeOK'
  BY <1>a, <1>b DEF PoolTypeOK
<1>2. Hands'
  BY <1>a, <1>b DEF PoolTypeOK, Hands
<1>3. Account'
  <2>1. Counted' = Counted
    BY <1>a, <1>b DEF PoolTypeOK, Hands, Counted
  <2>. QED
    BY <2>1 DEF Account
<1>4. Distinct'
  BY <1>a, <1>b DEF PoolTypeOK, Distinct
<1>. QED
  BY <1>1, <1>2, <1>3, <1>4

\* A dial fails: the place is given back.
LEMMA DialFailsStep ==
  ASSUME PoolInv, NEW x \in Callers, DialFails(x)
  PROVE  PoolInv'
<1>. USE ClientPoolAssumption, PoolInv DEF PoolInv, At, Goto, DialFails
<1>1. PoolTypeOK'
  BY DEF PoolTypeOK
<1>2. Hands'
  BY DEF PoolTypeOK, Hands
<1>3. Account'
  <2>1. x \in Counted /\ Counted' = Counted \ {x}
    BY DEF PoolTypeOK, Hands, Counted
  <2>2. Cardinality(Counted)' = Cardinality(Counted) - 1
    BY <2>1, PlaceGivenBack
  <2>. QED
    BY <2>1, <2>2, CountedFinite, LenProperties, SMTT(30) DEF PoolTypeOK, Account
<1>4. Distinct'
  BY DEF PoolTypeOK, Distinct
<1>. QED
  BY <1>1, <1>2, <1>3, <1>4

\* Phase 2: the head of the channel passes into the caller's hands.
LEMMA RecvStep ==
  ASSUME PoolInv, NEW x \in Callers, Recv(x)
  PROVE  PoolInv'
<1>. USE ClientPoolAssumption, PoolInv DEF PoolInv, At, Goto, Recv
<1>a. idle # <<>> =>
        /\ Head(idle) \in Clients /\ Tail(idle) \in Seq(Clients) /\ Len(Tail(idle)) = Len(idle) - 1
        /\ Head(idle) \in Range(idle) /\ Range(Tail(idle)) \subseteq Range(idle)
        /\ IsInjective(Tail(idle)) /\ Head(idle) \notin Range(Tail(idle))
  BY TailQueue, HeadTailProperties DEF PoolTypeOK, Distinct
<1>1. PoolTypeOK'
  <2>1. idle' \in Seq(Clients) /\ has' \in [Callers -> Clients \cup {NoClient}]
    <3>1. CASE idle # <<>>
      <4>1. idle' = Tail(idle) /\ has' = [has EXCEPT ![x] = Head(idle)]
        BY <3>1
      <4>. QED
        BY <1>a, <3>1, <4>1, Zenon DEF PoolTypeOK
    <3>2. CASE idle = <<>>
      BY <3>2 DEF PoolTypeOK
    <3>. QED
      BY <3>1, <3>2
  <2>2. pc' \in [Callers -> {"idle", "get", "dial", "recv", "dead", "use", "put", "send", "drop"}]
    BY DEF PoolTypeOK
  <2>3. UNCHANGED <<created, alive, calls, closed, crashed>>
    OBVIOUS
  <2>. QED
    BY <2>1, <2>2, <2>3 DEF PoolTypeOK
<1>2. Hands'
  BY <1>a DEF PoolTypeOK, Hands, Account
<1>3. Account'
  <2>1. CASE idle # <<>>
    <3>1. x \notin Counted /\ Counted' = Counted \cup {x}
      BY <1>a, <2>1 DEF PoolTypeOK, Hands, Counted
    <3>2. Cardinality(Counted)' = Cardinality(Counted) + 1
      BY <3>1, PlaceTaken
    <3>3. ~closed /\ idle' = Tail(idle)
      BY <2>1 DEF Account
    <3>. QED
      BY <1>a, <2>1, <3>2, <3>3, CountedFinite, LenProperties DEF PoolTypeOK, Account
  <2>2. CASE idle = <<>>
    <3>1. closed /\ closed' /\ idle' = idle
      BY <2>2
    <3>. QED
      BY <2>2, <3>1 DEF Account
  <2>. QED
    BY <2>1, <2>2
<1>4. Distinct'
  <2>1. CASE idle # <<>>
    <3>1. has' = [has EXCEPT ![x] = Head(idle)] /\ idle' = Tail(idle)
      BY <2>1
    <3>2. \A y \in Callers : has[y] # Head(idle) /\ has[y] \notin Range(Tail(idle))
      BY <1>a, <2>1 DEF Distinct
    <3>. QED
      BY <1>a, <2>1, <3>1, <3>2 DEF PoolTypeOK, Distinct
  <2>2. CASE idle = <<>>
    BY <2>2 DEF Distinct
  <2>. QED
    BY <2>1, <2>2
<1>. QED
  BY <1>1, <1>2, <1>3, <1>4

\* A dead client is dropped and its place given back.
LEMMA DeadStep ==
  ASSUME PoolInv, NEW x \in Callers, Dead(x)
  PROVE  PoolInv'
<1>. USE ClientPoolAssumption, PoolInv DEF PoolInv, At, Goto, Dead
<1>1. PoolTypeOK'
  BY DEF PoolTypeOK
<1>2. Hands'
  BY DEF PoolTypeOK, Hands
<1>3. Account'
  <2>1. CASE ~closed
    <3>1. x \in Counted /\ Counted' = Counted \ {x}
      BY <2>1 DEF PoolTypeOK, Hands, Counted
    <3>2. Cardinality(Counted)' = Cardinality(Counted) - 1
      BY <3>1, PlaceGivenBack
    <3>3. created > 0
      BY <2>1, <3>1, CountedFinite, LenProperties DEF PoolTypeOK, Account
    <3>. QED
      BY <2>1, <3>1, <3>2, <3>3, CountedFinite, LenProperties DEF PoolTypeOK, Account
  <2>2. CASE closed
    BY <2>2 DEF Account
  <2>. QED
    BY <2>1, <2>2
<1>4. Distinct'
  BY NilNotIdle DEF PoolTypeOK, Distinct
<1>. QED
  BY <1>1, <1>2, <1>3, <1>4

\* The steps between Do and the end of put.
Pass(x) == DoReturned(x) \/ PutCheck(x)

\* Do returns, and put looks whether the client is alive.
LEMMA PassStep ==
  ASSUME PoolInv, NEW x \in Callers, Pass(x)
  PROVE  PoolInv'
<1>. USE ClientPoolAssumption, PoolInv DEF PoolInv, At, Goto, Pass, DoReturned, PutCheck
<1>1. PoolTypeOK'
  BY DEF PoolTypeOK
<1>2. Hands'
  BY DEF PoolTypeOK, Hands
<1>3. Account'
  <2>1. Counted' = Counted
    BY DEF PoolTypeOK, Hands, Counted
  <2>. QED
    BY <2>1 DEF Account
<1>4. Distinct'
  BY DEF PoolTypeOK, Distinct
<1>. QED
  BY <1>1, <1>2, <1>3, <1>4

\* A client that is not alive is forgotten and its place given back.
LEMMA PutDropsStep ==
  ASSUME PoolInv, NEW x \in Callers, PutDrops(x)
  PROVE  PoolInv'
<1>. USE ClientPoolAssumption, PoolInv DEF PoolInv, At, Goto, PutDrops
<1>1. PoolTypeOK'
  BY DEF PoolTypeOK
<1>2. Hands'
  BY DEF PoolTypeOK, Hands
<1>3. Account'
  <2>1. CASE ~closed
    <3>1. x \in Counted /\ Counted' = Counted \ {x}
      BY <2>1 DEF PoolTypeOK, Hands, Counted
    <3>2. Cardinality(Counted)' = Cardinality(Counted) - 1
      BY <3>1, PlaceGivenBack
    <3>3. created > 0
      BY <2>1, <3>1, CountedFinite, LenProperties DEF PoolTypeOK, Account
    <3>. QED
      BY <2>1, <3>1, <3>2, <3>3, CountedFinite, LenProperties DEF PoolTypeOK, Account
  <2>2. CASE closed
    BY <2>2 DEF Account
  <2>. QED
    BY <2>1, <2>2
<1>4. Distinct'
  BY NilNotIdle DEF PoolTypeOK, Distinct
<1>. QED
  BY <1>1, <1>2, <1>3, <1>4

\* A client goes back to the channel, and its place with it.
LEMMA PutSendStep ==
  ASSUME PoolInv, NEW x \in Callers, PutSend(x)
  PROVE  PoolInv'
<1>. USE ClientPoolAssumption, PoolInv DEF PoolInv, At, Goto, PutSend
<1>a. /\ Append(idle, has[x]) \in Seq(Clients) /\ Len(Append(idle, has[x])) = Len(idle) + 1
      /\ Range(Append(idle, has[x])) = Range(idle) \cup {has[x]}
      /\ IsInjective(Append(idle, has[x]))
  <2>1. has[x] \in Clients /\ has[x] \notin Range(idle) /\ IsInjective(idle) /\ idle \in Seq(Clients)
    BY DEF PoolTypeOK, Hands, Distinct
  <2>. QED
    BY <2>1, AppendQueue, AppendProperties
<1>1. PoolTypeOK'
  BY <1>a DEF PoolTypeOK
<1>2. Hands'
  BY DEF PoolTypeOK, Hands
<1>3. Account'
  <2>1. x \in Counted /\ Counted' = Counted \ {x}
    BY DEF PoolTypeOK, Hands, Counted
  <2>2. Cardinality(Counted)' = Cardinality(Counted) - 1
    BY <2>1, PlaceGivenBack
  <2>. QED
    BY <1>a, <2>2, CountedFinite, LenProperties DEF PoolTypeOK, Account
<1>4. Distinct'
  <2>1. NoClient \notin Range(idle) \cup {has[x]}
    BY NilNotIdle DEF PoolTypeOK, Hands
  <2>2. \A y \in Callers : y # x => has[y] # has[x]
    BY DEF Hands, Distinct
  <2>. QED
    BY <1>a, <2>1, <2>2 DEF PoolTypeOK, Distinct
<1>. QED
  BY <1>1, <1>2, <1>3, <1>4

\* Close empties the channel for good.
LEMMA CloseStep ==
  ASSUME PoolInv, PoolClose
  PROVE  PoolInv'
<1>. USE PoolInv DEF PoolInv, PoolClose
<1>1. PoolTypeOK'
  <2>1. idle' \in Seq(Clients)
    OBVIOUS
  <2>2. alive' \subseteq Clients
    BY DEF PoolTypeOK
  <2>. QED
    BY <2>1, <2>2, Zenon DEF PoolTypeOK
<1>2. Hands' /\ Account'
  BY DEF Hands, Account
<1>3. Distinct'
  BY EmptyQueue DEF Distinct
<1>. QED
  BY <1>1, <1>2, <1>3

\* The steps of ClientRead, a send on the closed channel, and steps of nothing here.
LEMMA ConnStep ==
  ASSUME PoolInv, \/ \E c \in Clients : ConnDrops(c) \/ Reconnects(c)
                  \/ \E x \in Callers : PutPanics(x)
                  \/ UNCHANGED poolVars
  PROVE  PoolInv'
<1>. USE PoolInv DEF PoolInv, ConnDrops, Reconnects, PutPanics, poolVars
<1>1. UNCHANGED <<created, idle, pc, has, calls, closed>>
  OBVIOUS
<1>2. alive' \subseteq Clients
  BY DEF PoolTypeOK
<1>3. crashed' \in BOOLEAN
  BY DEF PoolTypeOK
<1>4. PoolTypeOK'
  BY <1>1, <1>2, <1>3, Zenon DEF PoolTypeOK
<1>5. Counted' = Counted
  BY <1>1 DEF Counted
<1>6. Hands' /\ Account' /\ Distinct'
  BY <1>1, <1>5 DEF Hands, Account, Distinct
<1>. QED
  BY <1>4, <1>6

\* The invariant is inductive.
LEMMA NextPool ==
  ASSUME PoolInv, [PoolNext]_poolVars
  PROVE  PoolInv'
<1>1. CASE \E x \in Callers : Do(x) \/ Reserve(x) \/ DialOk(x) \/ DialFails(x) \/ Recv(x) \/ Dead(x)
  BY <1>1, DoBegins, ReserveStep, DialOkStep, DialFailsStep, RecvStep, DeadStep
<1>2. CASE \E x \in Callers : DoReturned(x) \/ PutCheck(x) \/ PutDrops(x) \/ PutSend(x)
  BY <1>2, PassStep, PutDropsStep, PutSendStep DEF Pass
<1>3. CASE PoolClose
  BY <1>3, CloseStep
<1>4. CASE \/ \E c \in Clients : ConnDrops(c) \/ Reconnects(c)
           \/ \E x \in Callers : PutPanics(x)
           \/ UNCHANGED poolVars
  BY <1>4, ConnStep
<1>. QED
  BY <1>1, <1>2, <1>3, <1>4 DEF PoolNext, CallStep

\* The inductive invariant holds in every behaviour of the pool.
THEOREM PoolInvariance == PoolSpec => []PoolInv
<1>1. PoolInit => PoolInv
  BY InitPool
<1>2. PoolInv /\ [PoolNext]_poolVars => PoolInv'
  BY NextPool
<1>. QED
  BY <1>1, <1>2, PTL DEF PoolSpec

\* getOrCreate and put: the account is exact until Close, at most poolSize requests are
\* in flight, put finds room, and a client has one user, for any callers and pool size.
THEOREM PlacesAreExact == PoolSpec => []PlacesExact
<1>1. ASSUME PoolInv PROVE PlacesExact
  <2>. USE <1>1, ClientPoolAssumption DEF PoolInv
  <2>1. CreatedExact
    BY DEF Account, Counted, CreatedExact
  <2>2. Len(idle) \in Nat /\ created \in Int
    BY LenProperties DEF PoolTypeOK
  <2>3. ~closed => Cardinality({x \in Callers : pc[x] = "use"}) <= PoolSize
    <3>. DEFINE U == {x \in Callers : pc[x] = "use"}
    <3>1. U \in SUBSET Counted
      BY DEF Hands, Counted
    <3>2. IsFiniteSet(U) /\ Cardinality(U) <= Cardinality(Counted)
      BY <3>1, CountedFinite, FS_Subset
    <3>3. Cardinality(U) \in Nat
      BY <3>2, FS_CardinalityType
    <3>. QED
      BY <2>2, <3>2, <3>3, CountedFinite DEF Account
  <2>4. ASSUME NEW x \in Callers, At(x, "send"), ~closed PROVE Len(idle) < PoolSize
    <3>1. x \in Counted
      BY <2>4 DEF At, Hands, Counted
    <3>. QED
      BY <2>2, <2>4, <3>1, CountedFinite DEF Account
  <2>5. \A x, y \in Callers : has[x] = has[y] /\ has[x] # NoClient => x = y
    BY DEF Distinct
  <2>6. Borrowed \cap ToSet(idle) = {}
    BY ToSetIsRange DEF Borrowed, Distinct
  <2>7. Cardinality(ToSet(idle)) = Len(idle)
    BY ToSetIsRange, QueueCount DEF PoolTypeOK, Distinct
  <2>8. ExclusiveUse
    BY <2>3, <2>4, <2>5, <2>6, <2>7, Zenon DEF ExclusiveUse
  <2>. QED
    BY <2>1, <2>8 DEF PlacesExact
<1>. QED
  BY <1>1, PoolInvariance, PTL
=============================================================================
