-------------------------------- MODULE Wire --------------------------------
(***************************************************************************)
(* The bytes of a message: the frames of codec/ss and the requests and     *)
(* responses of rpc.  A byte is a number below Base (256) and the fields   *)
(* are as many bytes wide as the constants say; what a codec outside the   *)
(* repository makes of a protobuf message, an argument or a result is a    *)
(* sequence of bytes.                                                      *)
(***************************************************************************)
EXTENDS Integers, Sequences

CONSTANTS
    Base,           \* values of a byte (256)
    sizeLen,        \* bytes of the length prefix (4)
    sizeAddr,       \* bytes of an address (4; sizeToAndFrom is 8)
    sizeCmd,        \* bytes of a command (2)
    lenSeq,         \* bytes of a sequence number (8)
    lenPart,        \* bytes of a length in an RPC message (2)
    MaxPacketSize,  \* the largest frame (4096)
    PbIds           \* ids of the registered protobuf types

Byte == 0..(Base - 1)

-----------------------------------------------------------------------------
(* Writing and reading numbers and parts *)

\* A number shifted to the right by 0, 1, ..., width bytes.
Shifted(width, v) ==
    LET by[i \in 0..width] == IF i = 0 THEN v ELSE by[i - 1] \div Base
    IN by

\* Big endian, as many bytes as the field has.
Put(width, v) == [i \in 1..width |-> Shifted(width, v)[width - i] % Base]

\* The values that a field of this width can hold.
Field(width) == {v \in Nat : Shifted(width, v)[width] = 0}

\* The numbers that the first 0, 1, ... bytes make.
Numbers(bs) ==
    LET upTo[i \in 0..Len(bs)] == IF i = 0 THEN 0 ELSE upTo[i - 1] * Base + bs[i]
    IN upTo

Value(bs) == Numbers(bs)[Len(bs)]

\* What cannot be decoded.
Invalid == [kind |-> "error"]

Bit(b) == IF b THEN 1 ELSE 0

\* The longest part that is not cut off.
maxPart == Base^lenPart

WriteBytes(v) ==
    LET size == IF Len(v) > maxPart THEN maxPart ELSE Len(v)
    IN Put(lenPart, size) \o SubSeq(v, 1, size)

\* The length is patched in after the body is appended; nil has no body.
WriteMessage(v) == Put(lenPart, Len(v)) \o v

\* BytesReader: the part at i, and where the next one starts; what is not there is
\* beyond the end.
Missing(bs, i) == i + lenPart > Len(bs) + 1
End(bs, i) ==
    IF Missing(bs, i) THEN Len(bs) + 2 ELSE i + lenPart + Value(SubSeq(bs, i, i + lenPart - 1))
ReadBytes(bs, i) == SubSeq(bs, i + lenPart, End(bs, i) - 1)

-----------------------------------------------------------------------------
(* Requests and responses *)

EncodeRequest(m) ==
    Put(lenSeq, m.seq) \o <<Bit(m.oneway)>> \o WriteBytes(m.method)
        \o WriteBytes(m.userdata) \o WriteMessage(m.arg)

DecodeRequest(to, from, bs) ==
    LET method == lenSeq + 2
        userdata == End(bs, method)
        arg == End(bs, userdata)
    IN IF End(bs, arg) > Len(bs) + 1 THEN Invalid
       ELSE [kind |-> "req", to |-> to, from |-> from, seq |-> Value(SubSeq(bs, 1, lenSeq)),
             oneway |-> bs[lenSeq + 1] = 1, method |-> ReadBytes(bs, method),
             userdata |-> ReadBytes(bs, userdata), arg |-> ReadBytes(bs, arg)]

\* An error has a code other than 0 and a text.
EncodeResponse(m) ==
    Put(lenSeq, m.seq) \o WriteBytes(m.userdata)
        \o Put(lenPart, m.code) \o (IF m.code # 0 THEN WriteBytes(m.text) ELSE <<>>)
        \o WriteMessage(m.ret)

DecodeResponse(to, from, bs) ==
    LET code == End(bs, lenSeq + 1)
        ok == ~Missing(bs, code) /\ Value(SubSeq(bs, code, code + lenPart - 1)) = 0
        text == code + lenPart
        ret == IF ok THEN text ELSE End(bs, text)
    IN IF End(bs, ret) > Len(bs) + 1 THEN Invalid
       ELSE [kind |-> "resp", to |-> to, from |-> from, seq |-> Value(SubSeq(bs, 1, lenSeq)),
             userdata |-> ReadBytes(bs, lenSeq + 1),
             code |-> Value(SubSeq(bs, code, code + lenPart - 1)),
             text |-> IF ok THEN <<>> ELSE ReadBytes(bs, text), ret |-> ReadBytes(bs, ret)]

-----------------------------------------------------------------------------
(* Frames *)

MsgType(kind) ==
    CASE kind = "pb" -> 1 [] kind = "bin" -> 2 [] kind = "req" -> 3 [] kind = "resp" -> 4

getMsgType(flag) == flag % 8

minSize == sizeLen + 1 + 2 * sizeAddr

Header(m) == <<MsgType(m.kind)>> \o Put(sizeAddr, m.to) \o Put(sizeAddr, m.from)

Body(m) ==
    CASE m.kind \in {"bin", "pb"} -> Put(sizeCmd, m.cmd) \o m.data
      [] m.kind = "req" -> EncodeRequest(m)
      [] m.kind = "resp" -> EncodeResponse(m)

\* The length is patched in; what is too large is taken back.
finalizeFrame(bs) ==
    IF sizeLen + Len(bs) > MaxPacketSize THEN <<>> ELSE Put(sizeLen, Len(bs)) \o bs

\* What cannot be encoded adds nothing.
Encode(m) ==
    IF m.kind = "relay" THEN m.frame
    ELSE IF (m.kind = "bin" /\ m.data = <<>>) \/ (m.kind = "pb" /\ m.cmd \notin PbIds) THEN <<>>
    ELSE finalizeFrame(Header(m) \o Body(m))

\* BufferReader: a field that is not there is 0 and takes nothing.
GetUint(bs, width) == IF Len(bs) < width THEN 0 ELSE Value(SubSeq(bs, 1, width))
After(bs, width) == IF Len(bs) < width THEN bs ELSE SubSeq(bs, width + 1, Len(bs))

\* Mutant: the payload is kept as it came, without its length.
NewRelayMessage_Bare(to, from, payload) ==
    [kind |-> "relay", to |-> to, from |-> from, frame |-> payload]

NewRelayMessage(to, from, payload) ==
    [kind |-> "relay", to |-> to, from |-> from, frame |-> Put(sizeLen, Len(payload)) \o payload]

\* SSCodec.Decode at the node whose address is self.
Decode(self, payload) ==
    LET flag == GetUint(payload, 1)
        b1 == After(payload, 1)
        to == GetUint(b1, sizeAddr)
        b2 == After(b1, sizeAddr)
        from == GetUint(b2, sizeAddr)
        b3 == After(b2, sizeAddr)
        type == getMsgType(flag)
        cmd == GetUint(b3, sizeCmd)
    IN CASE to # self -> NewRelayMessage(to, from, payload)
         [] to = self /\ (type = 2 \/ (type = 1 /\ cmd \in PbIds)) ->
              [kind |-> IF type = 2 THEN "bin" ELSE "pb", to |-> to, from |-> from,
               cmd |-> cmd, data |-> After(b3, sizeCmd)]
         [] to = self /\ type = 3 -> DecodeRequest(to, from, b3)
         [] to = self /\ type = 4 -> DecodeResponse(to, from, b3)
         [] OTHER -> Invalid

\* RelayMessage.GetRpcRequest, by which a harbor answers what it cannot route.
GetRpcRequest(m) ==
    IF Len(m.frame) < minSize \/ getMsgType(m.frame[sizeLen + 1]) # 3 THEN Invalid
    ELSE DecodeRequest(m.to, m.from, SubSeq(m.frame, minSize + 1, Len(m.frame)))

-----------------------------------------------------------------------------
(* What can be sent *)

PlainMessages ==
    [kind : {"bin", "pb"}, to : Field(sizeAddr), from : Field(sizeAddr), cmd : Field(sizeCmd),
     data : Seq(Byte)]

Requests ==
    [kind : {"req"}, to : Field(sizeAddr), from : Field(sizeAddr), seq : Field(lenSeq),
     oneway : BOOLEAN, method : Seq(Byte), userdata : Seq(Byte), arg : Seq(Byte)]

\* Only an error has a text.
Responses ==
    {m \in [kind : {"resp"}, to : Field(sizeAddr), from : Field(sizeAddr), seq : Field(lenSeq),
             userdata : Seq(Byte), code : Field(lenPart), text : Seq(Byte), ret : Seq(Byte)] :
        m.code = 0 => m.text = <<>>}

Sendable == PlainMessages \union Requests \union Responses

\* Bytes of a message.
Size(m) ==
    minSize + CASE m.kind \in {"bin", "pb"} -> sizeCmd + Len(m.data)
                [] m.kind = "req" -> lenSeq + 1 + 3 * lenPart + Len(m.method) + Len(m.userdata) + Len(m.arg)
                [] m.kind = "resp" -> lenSeq + 3 * lenPart + Len(m.userdata) + Len(m.ret)
                                          + IF m.code = 0 THEN 0 ELSE lenPart + Len(m.text)

\* A message that is not empty, of an unknown type or too large.
Encodable(m) ==
    /\ Size(m) <= MaxPacketSize
    /\ m.kind = "bin" => m.data # <<>>
    /\ m.kind = "pb" => m.cmd \in PbIds

\* A byte tells the types of messages apart, and the length of whatever fits in a
\* packet can be written in front of it.
ASSUME WireAssumption ==
    /\ Base \in Nat /\ Base > 4
    /\ {sizeLen, sizeAddr, sizeCmd, lenSeq, lenPart} \subseteq Nat \ {0}
    /\ MaxPacketSize \in Nat /\ maxPart \in Nat
    /\ 0..MaxPacketSize \subseteq Field(sizeLen)
    /\ LET most == MaxPacketSize - minSize - lenSeq - 3 * lenPart
       IN most < maxPart /\ 0..most \subseteq Field(lenPart)
=============================================================================
