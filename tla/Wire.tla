-------------------------------- MODULE Wire --------------------------------
(***************************************************************************)
(* The wire codec and framing: src/core/wire.c over the cursors of         *)
(* src/core/wire_cursor.h, and osal_send_frame / osal_recv_frame of        *)
(* src/osal/osal_ipc.c.  A message is encoded field by field into the      *)
(* sender's buffer, framed, perhaps damaged, received into the receiver's  *)
(* buffer and decoded field by field.                                      *)
(*                                                                         *)
(* Every encoder and every decoder is a list of fields of its own, taken   *)
(* from its own code; widths are the code's.  A value is the name of its   *)
(* field, so a decoder that reads at another place than the encoder wrote  *)
(* gets Junk; only element counts are numbers.                             *)
(***************************************************************************)
EXTENDS Integers, Sequences, Functions

CONSTANTS Junk,      \* what is read where no such field was written
          ApiBuffer, \* the caller's buffer for messages no process sends
          Storage,   \* the caller's storage for the payload of an event
          Number     \* numbers a count may be, besides its limits

ASSUME WireConstants == ApiBuffer \in Nat /\ Storage \in Nat /\ Number \subseteq Nat

\* It holds a checkpoint with full arrays, and an event that fits the storage.
ASSUME ApiBufferIsEnough == ApiBuffer >= 1184 /\ ApiBuffer >= 28 + Storage

\* OBICALL_WIRE_MAX_PAYLOAD
MaxPayload == 1048576

\* A field of n bytes; one the decoder reads and drops; a count, refused above
\* cap; the elements of an array, n^power of them for a count n, each of so
\* many bytes; and as many bytes as a count says, copied to the caller's storage.
Field(name, n) == [op |-> "field", name |-> name, width |-> n]
Dropped(name, n) == [op |-> "dropped", name |-> name, width |-> n]
Count(name, cap) == [op |-> "count", name |-> name, width |-> 4, cap |-> cap]
Each(name, of, power, n) ==
    [op |-> "array", name |-> name, of |-> of, power |-> power, width |-> n]
Blob(name, of) == [op |-> "blob", name |-> name, of |-> of, power |-> 1, width |-> 1]
U32(name) == Field(name, 4)
U64(name) == Field(name, 8)
Id(name) == Field(name, 32)
Digest(name) == Field(name, 32)

-----------------------------------------------------------------------------
\* obicall_wire_encode_* and obicall_wire_decode_*: the fields in the order
\* each writes and reads them.

EncodeObservation ==
    <<U32("size"), U32("schema"), Id("sensor"), U64("boot"), U64("sequence"),
      U64("sampled"), U64("arrived"), U32("clock"), U64("uncertainty"), U32("frame"),
      U32("units"), U32("calibration"), U32("shape"),
      Count("payloads", 6), Each("payload", "payloads", 1, 8),
      Count("covs", 36), Each("cov", "covs", 1, 8)>>
DecodeObservation ==
    <<Dropped("size", 4), U32("schema"), Id("sensor"), U64("boot"), U64("sequence"),
      U64("sampled"), U64("arrived"), U32("clock"), U64("uncertainty"), U32("frame"),
      U32("units"), U32("calibration"), U32("shape"),
      Count("payloads", 6), Each("payload", "payloads", 1, 8),
      Count("covs", 36), Each("cov", "covs", 1, 8)>>

EncodeResult ==
    <<U32("size"), U32("schema"), Id("pipeline"), U64("window"), U32("broker"),
      U64("epoch"), U32("status"), U32("shape"),
      Count("payloads", 6), Each("payload", "payloads", 1, 8),
      Count("covs", 36), Each("cov", "covs", 1, 8),
      Digest("input"), Digest("config"), U64("produced"), U64("valid_until"),
      Count("sources", 8), Each("source", "sources", 1, 32), U32("action")>>
DecodeResult ==
    <<Dropped("size", 4), U32("schema"), Id("pipeline"), U64("window"), U32("broker"),
      U64("epoch"), U32("status"), U32("shape"),
      Count("payloads", 6), Each("payload", "payloads", 1, 8),
      Count("covs", 36), Each("cov", "covs", 1, 8),
      Digest("input"), Digest("config"), U64("produced"), U64("valid_until"),
      Count("sources", 8), Each("source", "sources", 1, 32), U32("action")>>

EncodeCheckpoint ==
    <<U32("size"), U32("schema"), Id("pipeline"), U64("window"), U32("mode"),
      Count("dim", 6), Each("mean", "dim", 1, 8), Each("stateCov", "dim", 2, 8),
      U32("calibration"), U32("policy"), U32("action"),
      Count("tracked", 16), Each("position", "tracked", 1, 48), U64("created")>>
DecodeCheckpoint ==
    <<Dropped("size", 4), U32("schema"), Id("pipeline"), U64("window"), U32("mode"),
      Count("dim", 6), Each("mean", "dim", 1, 8), Each("stateCov", "dim", 2, 8),
      U32("calibration"), U32("policy"), U32("action"),
      Count("tracked", 16), Each("position", "tracked", 1, 48), U64("created")>>

EncodeEvent ==
    <<U32("size"), U32("schema"), U32("type"), U32("reserved"), U64("time"),
      Count("len", MaxPayload), Blob("bytes", "len")>>
DecodeEvent ==
    <<Dropped("size", 4), U32("schema"), U32("type"), U32("reserved"), U64("time"),
      Count("len", MaxPayload), Blob("bytes", "len")>>

EncodeAuthHello ==
    <<U32("protocol"), U32("role"), Field("token", 32)>>
DecodeAuthHello ==
    <<U32("protocol"), U32("role"), Field("token", 32)>>

EncodeHeartbeat ==
    <<U32("broker"), U64("epoch"), U64("window"), Digest("config"), U32("schema"),
      U32("healthy"), U64("sent")>>

\* Mutant of DecodeHeartbeat: two fields in the order of the readiness report.
DecodeHeartbeat_ReportOrder ==
    <<U32("broker"), U64("epoch"), Digest("config"), U64("window"), U32("schema"),
      U32("healthy"), U64("sent")>>

DecodeHeartbeat ==
    <<U32("broker"), U64("epoch"), U64("window"), Digest("config"), U32("schema"),
      U32("healthy"), U64("sent")>>

EncodeEpochGrant ==
    <<U64("epoch"), U32("to"), U64("granted")>>
DecodeEpochGrant ==
    <<U64("epoch"), U32("to"), U64("granted")>>

EncodeEpochRevoke ==
    <<U64("epoch"), U32("from"), U64("revoked"), U32("reason")>>
DecodeEpochRevoke ==
    <<U64("epoch"), U32("from"), U64("revoked"), U32("reason")>>

EncodeReadinessReport ==
    <<U32("broker"), Digest("config"), U32("schema"), U64("window"), U32("healthy")>>
DecodeReadinessReport ==
    <<U32("broker"), Digest("config"), U32("schema"), U64("window"), U32("healthy")>>

EncodeReplayRequest ==
    <<Id("pipeline"), U64("from")>>
DecodeReplayRequest ==
    <<Id("pipeline"), U64("from")>>

EncodeAdmissionDecision ==
    <<Id("pipeline"), U64("window"), Id("sensor"), U64("sequence"), U32("admitted"),
      U32("reason"), U64("decided")>>
DecodeAdmissionDecision ==
    <<Id("pipeline"), U64("window"), Id("sensor"), U64("sequence"), U32("admitted"),
      U32("reason"), U64("decided")>>

EncodeResultAck ==
    <<Id("pipeline"), U64("window"), U32("accepted"), U32("reject")>>
DecodeResultAck ==
    <<Id("pipeline"), U64("window"), U32("accepted"), U32("reject")>>

EncodeStatusReply ==
    <<U32("running"), U64("epoch"), U32("owner"), U64("window"), U64("uptime")>>
DecodeStatusReply ==
    <<U32("running"), U64("epoch"), U32("owner"), U64("window"), U64("uptime")>>

\* The codecs by message.
Encoder == [
    observation |-> EncodeObservation,
     result |-> EncodeResult, checkpoint |-> EncodeCheckpoint,
     event |-> EncodeEvent, auth_hello |-> EncodeAuthHello,
     heartbeat |-> EncodeHeartbeat, epoch_grant |-> EncodeEpochGrant,
     epoch_revoke |-> EncodeEpochRevoke,
     readiness_report |-> EncodeReadinessReport,
     replay_request |-> EncodeReplayRequest,
     admission_decision |-> EncodeAdmissionDecision,
     result_ack |-> EncodeResultAck, status_reply |-> EncodeStatusReply]

Decoder == [
    observation |-> DecodeObservation,
     result |-> DecodeResult, checkpoint |-> DecodeCheckpoint,
     event |-> DecodeEvent, auth_hello |-> DecodeAuthHello,
     heartbeat |-> DecodeHeartbeat, epoch_grant |-> DecodeEpochGrant,
     epoch_revoke |-> DecodeEpochRevoke,
     readiness_report |-> DecodeReadinessReport,
     replay_request |-> DecodeReplayRequest,
     admission_decision |-> DecodeAdmissionDecision,
     result_ack |-> DecodeResultAck, status_reply |-> DecodeStatusReply]

Kind == DOMAIN Encoder

\* Where a message travels: the buffer it is encoded into and the one it is
\* received into; the others are encoded and decoded in memory.
Hops == [
    observation |-> {<<1200, 2048>>}, admission_decision |-> {<<256, 2048>>},
    replay_request |-> {<<128, 2048>>}, auth_hello |-> {<<64, 256>>},
    result |-> {<<2048, 4096>>, <<1024, 4096>>}, heartbeat |-> {<<128, 4096>>},
    result_ack |-> {<<128, 64>>}, status_reply |-> {<<64, 64>>}]

Framed == DOMAIN Hops

Buffers(k) == IF k \in Framed THEN Hops[k] ELSE {<<ApiBuffer, ApiBuffer>>}

\* The arrays of the native structures, in elements.
Capacity == [payload |-> 6, cov |-> 36, source |-> 8, mean |-> 6, stateCov |-> 36,
             position |-> 16, bytes |-> Storage]

-----------------------------------------------------------------------------
\* The frame around a payload of n bytes.  The magic, the version and the
\* length are those of its header; the checksum stands for the bytes it is of,
\* so that no others have it.  Type and flags are under no check and no damage.

HeaderLen == 16

\* obicall_wire_encode_header, as osal_send_frame fills the header in.
EncodeHeader(n) ==
    [magic |-> "OBWF", version |-> 1, len |-> n, crc |-> [bytes |-> "sent", len |-> n]]

\* obicall_wire_decode_header, with the first check that fails.
DecodeHeader(h) ==
    IF h.magic # "OBWF" THEN "malformed"
    ELSE IF h.version # 1 THEN "version_unsupported"
    ELSE IF h.len > MaxPayload THEN "too_large" ELSE "ok"

\* What may become of a header, and of the bytes behind it, on the link: one
\* field is another; some bytes are others, the last ones do not arrive in time
\* or another frame follows at once.
Headers(n) ==
    LET h == EncodeHeader(n)
    IN  {h, [h EXCEPT !.magic = "other"], [h EXCEPT !.version = 2],
         [h EXCEPT !.crc.bytes = "other"]}
          \cup {[h EXCEPT !.len = m] : m \in {n - 1, n + 1, MaxPayload + 1}}

Streams(n) ==
    [bytes : {"sent", "altered"},
     len : {HeaderLen - 1} \cup (HeaderLen + n - 1) .. (HeaderLen + n + 1)]

\* Mutant of ReceiveFrame: the checksum is not compared.
ReceiveFrame_NoCrc(h, s, cap) ==
    /\ HeaderLen <= s.len /\ DecodeHeader(h) = "ok"
    /\ h.len <= cap /\ HeaderLen + h.len <= s.len

\* osal_recv_frame returns 0, given room for cap bytes.
ReceiveFrame(h, s, cap) ==
    /\ HeaderLen <= s.len /\ DecodeHeader(h) = "ok"
    /\ h.len <= cap /\ HeaderLen + h.len <= s.len
    /\ h.crc = [bytes |-> s.bytes, len |-> h.len]

-----------------------------------------------------------------------------
VARIABLES msg,     \* the message: its kind, its counts, the two buffers
          phase,   \* "idle", "encode", "framed", "sent", "decode" or "done"
          at,      \* the next field
          off, ok, \* the cursor
          cells,   \* the fields written: offset -> name, bytes and number
          len,     \* bytes the decoder is given
          damage,  \* what happened on the way
          counts,  \* the counts decoded
          got,     \* what was decoded: pairs of field and value
          verdict  \* how it ended

wireVars == <<msg, phase, at, off, ok, cells, len, damage, counts, got, verdict>>

\* Counts worth trying: none, one, the limits and one more, and any Number.
Tries(f) == {0, 1, f.cap, f.cap + 1} \cup Number
                \cup IF f.name = "len" THEN {Storage, Storage + 1} ELSE {}

CountsOf(list) == {list[i] : i \in {j \in DOMAIN list : list[j].op = "count"}}

\* The counts of a message, each one worth trying.
Numbers(k) ==
    LET fields == CountsOf(Encoder[k])
    IN  {n \in [{f.name : f \in fields} -> UNION {Tries(f) : f \in fields}] :
           \A f \in fields : n[f.name] \in Tries(f)}

Elements(f, n) == IF f.power = 1 THEN n[f.of] ELSE n[f.of] * n[f.of]

\* The bytes of a field, given the counts.
Size(f, n) == IF f.op \in {"array", "blob"} THEN Elements(f, n) * f.width ELSE f.width

WireInit ==
    /\ msg = [kind |-> "none"] /\ phase = "idle"
    /\ at = 1 /\ off = 0 /\ ok = TRUE /\ cells = << >> /\ len = 0
    /\ damage = "none" /\ counts = << >> /\ got = {} /\ verdict = "none"

\* A caller hands over a structure.  Every encoder first refuses a count above
\* its array's capacity.
Choose ==
    /\ phase = "idle"
    /\ \E k \in Kind : \E b \in Buffers(k), n \in Numbers(k) :
          msg' = [kind |-> k, tx |-> b[1], rx |-> b[2], n |-> n]
    /\ LET over == \E f \in CountsOf(Encoder[msg'.kind]) : msg'.n[f.name] > f.cap
       IN  /\ phase' = IF over THEN "done" ELSE "encode"
           /\ verdict' = IF ~over THEN "none"
                         ELSE IF msg'.kind = "event" THEN "too_large" ELSE "malformed"
    /\ at' = 1 /\ off' = 0 /\ ok' = TRUE /\ cells' = << >> /\ len' = 0
    /\ damage' = "none" /\ counts' = << >> /\ got' = {}

\* wc_bytes: nothing is written, now or later, once a field does not fit.  The
\* elements of an array are taken together.
EncodeField ==
    /\ phase = "encode" /\ at <= Len(Encoder[msg.kind])
    /\ LET f == Encoder[msg.kind][at]
           size == Size(f, msg.n)
           fits == ok /\ size <= msg.tx - off
       IN  /\ ok' = fits
           /\ off' = IF fits THEN off + size ELSE off
           /\ cells' = IF fits
                       THEN Append(cells, [at |-> off, name |-> f.name, size |-> size,
                                           n |-> IF f.op = "count" THEN msg.n[f.name] ELSE 0])
                       ELSE cells
    /\ at' = at + 1
    /\ UNCHANGED <<msg, phase, len, damage, counts, got, verdict>>

Finish(v) == phase' = "done" /\ verdict' = v

EncodeEnd ==
    /\ phase = "encode" /\ at > Len(Encoder[msg.kind])
    /\ IF ok THEN phase' = "framed" /\ len' = off /\ UNCHANGED verdict
             ELSE Finish("too_small") /\ UNCHANGED len
    /\ UNCHANGED <<msg, at, off, ok, cells, damage, counts, got>>

\* The decoder is called on n bytes, once their frame arrived if they are framed.
Handed(d, n) == /\ phase' = IF msg.kind \in Framed THEN "sent" ELSE "decode"
                /\ damage' = d /\ len' = n /\ at' = 1 /\ off' = 0 /\ ok' = TRUE

\* The bytes a decoder gets to see are those that were written; or those of
\* another encoder: with more behind them, cut within a field, or with another
\* number in one count.
HandOver ==
    /\ phase = "framed"
    /\ \/ Handed("none", len) /\ UNCHANGED cells
       \/ Handed("longer", len + 1) /\ UNCHANGED cells
       \/ \E i \in {j \in DOMAIN cells : cells[j].size > 0} :
             Handed("cut", cells[i].at + cells[i].size - 1) /\ UNCHANGED cells
       \/ \E f \in CountsOf(Encoder[msg.kind]) : \E n \in Tries(f) \ {msg.n[f.name]} :
             /\ Handed("count", len)
             /\ cells' = [i \in DOMAIN cells |->
                            IF cells[i].name = f.name THEN [cells[i] EXCEPT !.n = n] ELSE cells[i]]
    /\ UNCHANGED <<msg, counts, got, verdict>>

\* Whether a frame arrives as it was sent.
Intact(h, s) == h = EncodeHeader(len) /\ s.bytes = "sent" /\ HeaderLen + len <= s.len

\* osal_recv_frame on what became of the frame; altered bytes are no field's.
Receive ==
    /\ phase = "sent"
    /\ \E h \in Headers(len), s \in Streams(len) :
          /\ damage' = IF Intact(h, s) THEN damage ELSE "frame"
          /\ \/ /\ ReceiveFrame(h, s, msg.rx)
                /\ phase' = "decode" /\ len' = h.len /\ UNCHANGED verdict
                /\ cells' = [i \in DOMAIN cells |->
                               IF s.bytes = "sent" THEN cells[i] ELSE [cells[i] EXCEPT !.name = Junk]]
             \/ /\ ~ReceiveFrame(h, s, msg.rx)
                /\ Finish("dropped") /\ UNCHANGED <<len, cells>>
    /\ UNCHANGED <<msg, at, off, ok, counts, got>>

\* rc_bytes: what lies at the cursor, if a field of that extent was written
\* there; a number that is none is any number.
Found(f, size) ==
    LET here == {i \in DOMAIN cells : cells[i].at = off /\ cells[i].size = size}
        named == {i \in here : cells[i].name = f.name}
    IN  IF size = 0 THEN {f.name}
        ELSE IF f.op = "count"
             THEN IF named = {} THEN Tries(f) ELSE {cells[i].n : i \in named}
             ELSE IF here = {} THEN {Junk} ELSE {cells[i].name : i \in here}

\* Mutant of Accepts: a count one above the capacity passes.
Accepts_OneMore(f, v) == v <= f.cap + 1

\* The check every decoder makes of a count before it fills the array.
Accepts(f, v) == v <= f.cap

DecodeField ==
    /\ phase = "decode" /\ at <= Len(Decoder[msg.kind])
    /\ LET f == Decoder[msg.kind][at]
           size == Size(f, counts)
           fits == ok /\ size <= len - off
       IN  \/ /\ f.op = "count" /\ fits
              /\ \E v \in Found(f, size) :
                    \/ /\ Accepts(f, v)
                       /\ counts' = [c \in DOMAIN counts \cup {f.name} |->
                                       IF c = f.name THEN v ELSE counts[c]]
                       /\ got' = got \cup {<<f.name, v>>}
                       /\ at' = at + 1 /\ off' = off + size
                       /\ UNCHANGED <<phase, verdict, ok>>
                    \/ /\ ~Accepts(f, v)
                       /\ Finish("malformed") /\ UNCHANGED <<counts, got, at, off, ok>>
           \/ /\ f.op = "count" /\ ~fits
              /\ Finish("malformed") /\ UNCHANGED <<counts, got, at, off, ok>>
           \/ /\ f.op = "blob" /\ Elements(f, counts) > Storage
              /\ Finish("too_small") /\ UNCHANGED <<counts, got, at, off, ok>>
           \/ /\ f.op # "count" /\ ~(f.op = "blob" /\ Elements(f, counts) > Storage)
              /\ at' = at + 1 /\ ok' = fits
              /\ off' = IF fits THEN off + size ELSE off
              /\ IF fits /\ f.op # "dropped"
                 THEN \E v \in Found(f, size) : got' = got \cup {<<f.name, v>>}
                 ELSE UNCHANGED got
              /\ UNCHANGED <<phase, verdict, counts>>
    /\ UNCHANGED <<msg, cells, len, damage>>

DecodeEnd ==
    /\ phase = "decode" /\ at > Len(Decoder[msg.kind])
    /\ Finish(IF ok THEN "ok" ELSE "malformed")
    /\ UNCHANGED <<msg, at, off, ok, cells, len, damage, counts, got>>

WireNext == Choose \/ EncodeField \/ EncodeEnd \/ HandOver \/ Receive \/ DecodeField \/ DecodeEnd

WireSpec == WireInit /\ [][WireNext]_wireVars

-----------------------------------------------------------------------------
\* The values a decoded message must have; struct_size is the receiver's own.
Sent == {<<f.name, IF f.op = "count" THEN msg.n[f.name] ELSE f.name>> :
           f \in {g \in Range(Encoder[msg.kind]) : g.name # "size"}}

\* Whether the message is one its callers must get through: within its arrays
\* and, for an event, within the storage the caller offers.
Sendable == /\ \A f \in CountsOf(Encoder[msg.kind]) : msg.n[f.name] <= f.cap
            /\ msg.kind = "event" => msg.n["len"] <= Storage

\* Every message, with arrays as full as they can be, fits the buffer of its
\* sender and of its receiver and decodes to the values that were encoded; and
\* nothing else decodes, neither a message cut anywhere nor one whose frame was
\* damaged on the link.  (A wrong count within its limit cannot be noticed; for
\* the bytes behind a message see "longer".)
DecodesWhatWasSent ==
    phase = "done" /\ damage \notin {"count", "longer"} =>
        /\ verdict = "ok" <=> damage = "none" /\ Sendable
        /\ verdict = "ok" => got = Sent

\* "All reject malformed/oversized input [...] rather than reading out of
\* bounds" (wire.h:86): whatever a count says, the cursor stays within the bytes
\* that arrived and the elements stored within the arrays of the structure, also
\* those stored after the bytes ran out.
StaysInBounds ==
    phase = "decode" =>
        /\ off <= len
        /\ \A i \in 1..(at - 1) :
              LET f == Decoder[msg.kind][i]
              IN  f.op \in {"array", "blob"} => Elements(f, counts) <= Capacity[f.name]
=============================================================================
