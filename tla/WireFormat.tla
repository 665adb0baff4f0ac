----------------------------- MODULE WireFormat -----------------------------
(***************************************************************************)
(* The wire records of the storage protocol (storage.h) and of the secure  *)
(* keymaster port (interface/keymaster/keymaster.h).  A record is the      *)
(* memory image of its C struct, laid out by the compiler of the ABI that  *)
(* sends it, little-endian, with padding bytes left uninitialised.  One    *)
(* channel carries one message at a time from a sender compiled for one    *)
(* ABI to a receiver compiled for another, which finds the payload format  *)
(* from the command code and reads the fields at its own offsets.          *)
(***************************************************************************)
EXTENDS Integers, Sequences, SequencesExt, Bitwise

CONSTANTS
    ABIs,       \* ABIs the ends may be compiled for, within {"arm64","arm32","i386"}
    PadBytes,   \* values an uninitialised padding byte may hold
    NONE

----------------------------------------------------------------------------
(* C scalar types and the ABIs' alignment rules (the compiler, not code of *)
(* this repository).  A flexible array member "x[0]" has size 0.  i386     *)
(* aligns a 64-bit member to 4; AAPCS (arm32) and LP64 (arm64) to 8.       *)

SizeOfType(t) == CASE t = "u8" -> 1 [] t = "u32" -> 4 [] t = "i32" -> 4
                   [] t = "u64" -> 8 [] t = "flex" -> 0

AlignOfType(abi, t) ==
    CASE t = "flex" -> 1
      [] t = "u64" /\ abi = "i386" -> 4
      [] OTHER -> SizeOfType(t)

AlignUp(o, a) == ((o + a - 1) \div a) * a

F(n, t) == [name |-> n, type |-> t]

----------------------------------------------------------------------------
(* storage.h: command codes, errors and flags.                             *)

STORAGE_REQ_SHIFT == 1
STORAGE_RESP_BIT == 1
STORAGE_RESP_MSG_ERR == STORAGE_RESP_BIT

storage_cmd ==
    [STORAGE_FILE_DELETE     |-> 1 * 2^STORAGE_REQ_SHIFT,
     STORAGE_FILE_OPEN       |-> 2 * 2^STORAGE_REQ_SHIFT,
     STORAGE_FILE_CLOSE      |-> 3 * 2^STORAGE_REQ_SHIFT,
     STORAGE_FILE_READ       |-> 4 * 2^STORAGE_REQ_SHIFT,
     STORAGE_FILE_WRITE      |-> 5 * 2^STORAGE_REQ_SHIFT,
     STORAGE_FILE_GET_SIZE   |-> 6 * 2^STORAGE_REQ_SHIFT,
     STORAGE_FILE_SET_SIZE   |-> 7 * 2^STORAGE_REQ_SHIFT,
     STORAGE_RPMB_SEND       |-> 8 * 2^STORAGE_REQ_SHIFT,
     STORAGE_END_TRANSACTION |-> 9 * 2^STORAGE_REQ_SHIFT,
     STORAGE_FILE_MOVE       |-> 10 * 2^STORAGE_REQ_SHIFT,
     STORAGE_FILE_LIST       |-> 11 * 2^STORAGE_REQ_SHIFT]

storage_err ==
    [STORAGE_NO_ERROR |-> 0, STORAGE_ERR_GENERIC |-> 1,
     STORAGE_ERR_NOT_VALID |-> 2, STORAGE_ERR_UNIMPLEMENTED |-> 3,
     STORAGE_ERR_ACCESS |-> 4, STORAGE_ERR_NOT_FOUND |-> 5,
     STORAGE_ERR_EXIST |-> 6, STORAGE_ERR_TRANSACT |-> 7]

\* A mask is the bitwise or of the flags it names.
OrOf(S) == FoldSet(LAMBDA a, b : a | b, 0, S)

STORAGE_FILE_DELETE_MASK == 0

STORAGE_FILE_MOVE_MASK == OrOf({2^0, 2^1, 2^2})

STORAGE_FILE_OPEN_MASK == OrOf({2^0, 2^2, 2^1})

storage_file_list_flag ==
    [STORAGE_FILE_LIST_START |-> 0, STORAGE_FILE_LIST_END |-> 1,
     STORAGE_FILE_LIST_COMMITTED |-> 2, STORAGE_FILE_LIST_ADDED |-> 3,
     STORAGE_FILE_LIST_REMOVED |-> 4, STORAGE_FILE_LIST_STATE_MASK |-> 7]

storage_msg_flag ==
    [STORAGE_MSG_FLAG_BATCH |-> 1, STORAGE_MSG_FLAG_PRE_COMMIT |-> 2,
     STORAGE_MSG_FLAG_POST_COMMIT |-> 4, STORAGE_MSG_FLAG_TRANSACT_COMPLETE |-> 4]

----------------------------------------------------------------------------
(* storage.h: the structs, member by member, in declaration order.         *)

storage_file_delete_req == << F("flags", "u32"), F("name", "flex") >>

storage_file_move_req ==
    << F("flags", "u32"), F("handle", "u32"), F("old_name_len", "u32"),
       F("old_new_name", "flex") >>

storage_file_open_req == << F("flags", "u32"), F("name", "flex") >>

storage_file_open_resp == << F("handle", "u32") >>

storage_file_close_req == << F("handle", "u32") >>

storage_file_read_req ==
    << F("handle", "u32"), F("size", "u32"), F("offset", "u64") >>

storage_file_read_resp == << F("data", "flex") >>

storage_file_write_req ==
    << F("offset", "u64"), F("handle", "u32"), F("__reserved", "u32"),
       F("data", "flex") >>

storage_file_list_req ==
    << F("max_count", "u8"), F("flags", "u8"), F("name", "flex") >>

storage_file_list_resp == << F("flags", "u8"), F("name", "flex") >>

storage_file_get_size_req == << F("handle", "u32") >>

storage_file_get_size_resp == << F("size", "u64") >>

storage_file_set_size_req == << F("size", "u64"), F("handle", "u32") >>

storage_rpmb_send_req ==
    << F("reliable_write_size", "u32"), F("write_size", "u32"),
       F("read_size", "u32"), F("__reserved", "u32"), F("payload", "flex") >>

storage_rpmb_send_resp == << F("data", "flex") >>

storage_msg ==
    << F("cmd", "u32"), F("op_id", "u32"), F("flags", "u32"), F("size", "u32"),
       F("result", "i32"), F("__reserved", "u32"), F("payload", "flex") >>

(* Which struct follows the header, from the structs' comments ("request *)
(* format for STORAGE_FILE_X", "response format for ...").  The open       *)
(* response's handle is "only present on success".                        *)

ReqFormat ==
    [STORAGE_FILE_DELETE |-> storage_file_delete_req,
     STORAGE_FILE_OPEN |-> storage_file_open_req,
     STORAGE_FILE_CLOSE |-> storage_file_close_req,
     STORAGE_FILE_READ |-> storage_file_read_req,
     STORAGE_FILE_WRITE |-> storage_file_write_req,
     STORAGE_FILE_GET_SIZE |-> storage_file_get_size_req,
     STORAGE_FILE_SET_SIZE |-> storage_file_set_size_req,
     STORAGE_RPMB_SEND |-> storage_rpmb_send_req,
     STORAGE_END_TRANSACTION |-> << >>,
     STORAGE_FILE_MOVE |-> storage_file_move_req,
     STORAGE_FILE_LIST |-> storage_file_list_req]

RespFormat ==
    [c \in DOMAIN storage_cmd |->
        CASE c = "STORAGE_FILE_OPEN" -> storage_file_open_resp
          [] c = "STORAGE_FILE_READ" -> storage_file_read_resp
          [] c = "STORAGE_FILE_GET_SIZE" -> storage_file_get_size_resp
          [] c = "STORAGE_RPMB_SEND" -> storage_rpmb_send_resp
          [] c = "STORAGE_FILE_LIST" -> storage_file_list_resp
          [] OTHER -> << >>]

Format(c, resp, result) ==
    CASE c = "STORAGE_RESP_MSG_ERR" -> << >>
      [] ~resp -> ReqFormat[c]
      [] c = "STORAGE_FILE_OPEN" /\ result # storage_err.STORAGE_NO_ERROR -> << >>
      [] OTHER -> RespFormat[c]

(* Member values.  TLC's integers are 32-bit, so an unsigned member's     *)
(* value is held as its base-256 digits, least significant first; a        *)
(* signed int32 is held as an integer.  Unsigned(t, n) is the value n < 2^31 *)
(* in a member of type t.                                                  *)
Unsigned(t, n) ==
    [k \in 1..SizeOfType(t) |-> IF k > 4 THEN 0 ELSE (n \div 256^(k - 1)) % 256]

AllOnes(t) == [k \in 1..SizeOfType(t) |-> 255]

ValuesOf(t) ==
    CASE t = "u64" -> {(5 :> 1) @@ Unsigned(t, 0), AllOnes(t)}
      [] OTHER -> {Unsigned(t, 0), AllOnes(t)}

\* The values a conforming sender puts in a member: reserved members and
\* the delete flags are 0, other flags are within their masks.
FieldDomain(c, f) ==
    CASE f.name = "__reserved" -> {Unsigned(f.type, 0)}
      [] f.name = "flags" /\ c = "STORAGE_FILE_DELETE" ->
            {Unsigned(f.type, STORAGE_FILE_DELETE_MASK)}
      [] f.name = "flags" /\ c = "STORAGE_FILE_MOVE" ->
            {Unsigned(f.type, 0), Unsigned(f.type, STORAGE_FILE_MOVE_MASK)}
      [] f.name = "flags" /\ c = "STORAGE_FILE_OPEN" ->
            {Unsigned(f.type, 0), Unsigned(f.type, STORAGE_FILE_OPEN_MASK)}
      [] f.name = "flags" /\ c = "STORAGE_FILE_LIST" ->
            {Unsigned(f.type, storage_file_list_flag.STORAGE_FILE_LIST_START),
             Unsigned(f.type, storage_file_list_flag.STORAGE_FILE_LIST_REMOVED)}
      [] OTHER -> ValuesOf(f.type)

----------------------------------------------------------------------------
(* interface/keymaster/keymaster.h                                         *)

KM_RESP_BIT == 1
KM_STOP_BIT == 2
Mutant_KM_REQ_SHIFT == 1
KM_REQ_SHIFT == 2

keymaster_command ==
    [KM_GET_AUTH_TOKEN_KEY |-> 0 * 2^KM_REQ_SHIFT,
     KM_GET_DEVICE_INFO |-> 1 * 2^KM_REQ_SHIFT,
     KM_SET_ATTESTATION_IDS_SECURE |-> 49152 * 2^KM_REQ_SHIFT]

keymaster_message == << F("cmd", "u32"), F("payload", "flex") >>

----------------------------------------------------------------------------
(* Layout.  Members are placed in order, each at the next offset aligned   *)
(* for its type; sizeof rounds the end up to the largest alignment.  In    *)
(* every struct here a flexible member starts at sizeof, so its bytes      *)
(* follow the fixed part.                                                  *)

RECURSIVE OffsetsFrom(_, _, _, _)
OffsetsFrom(abi, fs, i, o) ==
    IF i > Len(fs) THEN << >>
    ELSE LET at == AlignUp(o, AlignOfType(abi, fs[i].type))
         IN << at >> \o OffsetsFrom(abi, fs, i + 1, at + SizeOfType(fs[i].type))

Offsets(abi, fs) == OffsetsFrom(abi, fs, 1, 0)

StructAlign(abi, fs) ==
    FoldLeft(LAMBDA a, f : IF AlignOfType(abi, f.type) > a
                           THEN AlignOfType(abi, f.type) ELSE a, 1, fs)

SizeOf(abi, fs) ==
    IF fs = << >> THEN 0
    ELSE AlignUp(Offsets(abi, fs)[Len(fs)] + SizeOfType(fs[Len(fs)].type),
                 StructAlign(abi, fs))

HasFlex(fs) == \E i \in DOMAIN fs : fs[i].type = "flex"

Scalars(fs) == SelectSeq(fs, LAMBDA f : f.type # "flex")

\* Little-endian bytes of a member: an int32 in two's complement (floor
\* division makes the digits of a negative value its complement).
LE(t, v) ==
    IF t = "i32" THEN [k \in 1..4 |-> (v \div 256^(k - 1)) % 256] ELSE v

FromLE(t, bs) ==
    IF t = "i32"
    THEN bs[1] + 256 * bs[2] + 65536 * bs[3]
           + 16777216 * (IF bs[4] >= 128 THEN bs[4] - 256 ELSE bs[4])
    ELSE bs

\* The number held in a small unsigned member (a command code).
NatOf(bs) == FoldRight(LAMBDA b, acc : b + 256 * acc, bs, 0)

\* The memory image of a struct: member bytes, and pad where no member is.
Encode(abi, fs, vals, pad) ==
    LET o == Offsets(abi, fs)
        Covers(i, q) == fs[i].type # "flex" /\ o[i] <= q /\ q < o[i] + SizeOfType(fs[i].type)
    IN [p \in 1..SizeOf(abi, fs) |->
          IF \E i \in DOMAIN fs : Covers(i, p - 1)
          THEN LET i == CHOOSE i \in DOMAIN fs : Covers(i, p - 1)
               IN LE(fs[i].type, vals[fs[i].name])[p - o[i]]
          ELSE pad]

\* The members of a struct read at this ABI's offsets.
Decode(abi, fs, bs) ==
    LET o == Offsets(abi, fs)
        sc == {i \in DOMAIN fs : fs[i].type # "flex"}
    IN [n \in {fs[i].name : i \in sc} |->
          LET i == CHOOSE i \in sc : fs[i].name = n
          IN FromLE(fs[i].type, SubSeq(bs, o[i] + 1, o[i] + SizeOfType(fs[i].type)))]

RECURSIVE ValueChoices(_, _)
ValueChoices(c, sc) ==
    IF sc = << >> THEN {[n \in {} |-> 0]}
    ELSE {(Head(sc).name :> v) @@ rest :
            v \in FieldDomain(c, Head(sc)), rest \in ValueChoices(c, Tail(sc))}

----------------------------------------------------------------------------
(* Messages.  A storage message is the storage_msg header ("size: total    *)
(* size of the message including this header") followed by the payload     *)
(* struct of its command and the variable part (a name or data).  A       *)
(* response carries the request's code with STORAGE_RESP_BIT set;          *)
(* STORAGE_RESP_MSG_ERR is the code of a response to an unparsable request. *)
(* A keymaster message is its cmd, with KM_RESP_BIT and KM_STOP_BIT, and   *)
(* a serialised payload.                                                   *)

\* What a receiver makes of a message it cannot parse.
Rejected(why) == [proto |-> "rejected", why |-> why]

StorageCode(m) ==
    IF m.cmd = "STORAGE_RESP_MSG_ERR" THEN STORAGE_RESP_MSG_ERR
    ELSE storage_cmd[m.cmd] | (IF m.resp THEN STORAGE_RESP_BIT ELSE 0)

EncodeStorage(abi, m, pad) ==
    Encode(abi, storage_msg,
           [cmd |-> Unsigned("u32", StorageCode(m)), op_id |-> m.op_id,
            flags |-> m.flags, size |-> m.size, result |-> m.result,
            __reserved |-> Unsigned("u32", 0)], pad)
    \o Encode(abi, Format(m.cmd, m.resp, m.result), m.req, pad)
    \o m.tail

DecodeStorage(abi, w) ==
    LET hs == SizeOf(abi, storage_msg)
        h == Decode(abi, storage_msg, w)
        code == NatOf(h.cmd)
        resp == (code & STORAGE_RESP_BIT) # 0
        base == IF resp THEN code - STORAGE_RESP_BIT ELSE code
        named == {n \in DOMAIN storage_cmd : storage_cmd[n] = base}
        c == CASE resp /\ base = 0 -> "STORAGE_RESP_MSG_ERR"
               [] named # {} -> CHOOSE n \in named : TRUE
               [] OTHER -> "unknown"
        fmt == Format(c, resp, h.result)
        body == SubSeq(w, hs + 1, Len(w))
    IN CASE Len(w) < hs -> Rejected("short")
         [] c = "unknown" -> Rejected("unknown command")
         [] Len(body) < SizeOf(abi, fmt) -> Rejected("short")
         [] OTHER ->
              [proto |-> "storage", cmd |-> c, resp |-> resp, op_id |-> h.op_id,
               flags |-> h.flags, size |-> h.size, result |-> h.result,
               req |-> Decode(abi, fmt, body),
               tail |-> SubSeq(body, SizeOf(abi, fmt) + 1, Len(body))]

KmCode(m) ==
    keymaster_command[m.cmd] | (IF m.resp THEN KM_RESP_BIT ELSE 0)
                             | (IF m.stop THEN KM_STOP_BIT ELSE 0)

EncodeKm(abi, m, pad) ==
    Encode(abi, keymaster_message, [cmd |-> Unsigned("u32", KmCode(m))], pad) \o m.tail

DecodeKm(abi, w) ==
    LET code == NatOf(Decode(abi, keymaster_message, w).cmd)
        named == {n \in DOMAIN keymaster_command :
                    shiftR(keymaster_command[n], KM_REQ_SHIFT) = shiftR(code, KM_REQ_SHIFT)}
    IN CASE Len(w) < SizeOf(abi, keymaster_message) -> Rejected("short")
         [] named = {} -> Rejected("unknown command")
         [] OTHER ->
              [proto |-> "km", cmd |-> CHOOSE n \in named : TRUE,
               resp |-> (code & KM_RESP_BIT) # 0, stop |-> (code & KM_STOP_BIT) # 0,
               tail |-> SubSeq(w, SizeOf(abi, keymaster_message) + 1, Len(w))]

Encoded(abi, m, pad) ==
    IF m.proto = "storage" THEN EncodeStorage(abi, m, pad) ELSE EncodeKm(abi, m, pad)

----------------------------------------------------------------------------
(* One message on one channel: a sender built for txAbi encodes sent into  *)
(* wire; a receiver built for rxAbi decodes wire into got, then takes the  *)
(* next message.  The port the message arrives on tells its protocol.      *)

VARIABLES txAbi, rxAbi, sent, wire, got

vars == << txAbi, rxAbi, sent, wire, got >>

\* The variable part of a struct with a flexible member: empty or one byte.
Tails(fs) == IF HasFlex(fs) THEN {<< >>, << 47 >>} ELSE {<< >>}

Init == txAbi = NONE /\ rxAbi = NONE /\ sent = NONE /\ wire = NONE /\ got = NONE

SendStorage ==
    /\ sent = NONE
    /\ \E abi \in ABIs, c \in DOMAIN storage_cmd \cup {"STORAGE_RESP_MSG_ERR"},
          resp \in BOOLEAN, id \in ValuesOf("u32"),
          fl \in {Unsigned("u32", 0), Unsigned("u32", OrOf({1, 2, 4}))},
          res \in {storage_err.STORAGE_NO_ERROR, storage_err.STORAGE_ERR_TRANSACT},
          pad \in PadBytes :
         /\ c = "STORAGE_RESP_MSG_ERR" => resp
         /\ LET fmt == Format(c, resp, res)
            IN \E v \in ValueChoices(c, Scalars(fmt)), t \in Tails(fmt) :
                 LET m == [proto |-> "storage", cmd |-> c, resp |-> resp,
                           op_id |-> id, flags |-> fl, result |-> res, req |-> v,
                           tail |-> t,
                           size |-> Unsigned("u32", SizeOf(abi, storage_msg)
                                                    + SizeOf(abi, fmt) + Len(t))]
                 IN /\ sent' = m
                    /\ wire' = EncodeStorage(abi, m, pad)
                    /\ txAbi' = abi
    /\ UNCHANGED << rxAbi, got >>

SendKm ==
    /\ sent = NONE
    /\ \E abi \in ABIs, c \in DOMAIN keymaster_command, resp, stop \in BOOLEAN,
          t \in Tails(keymaster_message), pad \in PadBytes :
         LET m == [proto |-> "km", cmd |-> c, resp |-> resp, stop |-> stop, tail |-> t]
         IN /\ sent' = m
            /\ wire' = EncodeKm(abi, m, pad)
            /\ txAbi' = abi
    /\ UNCHANGED << rxAbi, got >>

Receive ==
    /\ wire # NONE /\ got = NONE
    /\ \E abi \in ABIs :
         /\ rxAbi' = abi
         /\ got' = IF sent.proto = "storage" THEN DecodeStorage(abi, wire)
                   ELSE DecodeKm(abi, wire)
    /\ UNCHANGED << txAbi, sent, wire >>

Consume ==
    /\ got # NONE
    /\ txAbi' = NONE /\ rxAbi' = NONE /\ sent' = NONE /\ wire' = NONE /\ got' = NONE

Next == SendStorage \/ SendKm \/ Receive \/ Consume

Spec == Init /\ [][Next]_vars

----------------------------------------------------------------------------
(* Properties.                                                             *)

\* Round trip (spec section 8): a message decoded by a receiver built for
\* the sender's ABI is the message sent, every header field, the payload
\* struct chosen by the command code and the variable part included.  It
\* rests on the command codes of storage_cmd and keymaster_command being
\* told apart from each other and from the response and stop bits.
RoundTrip == got # NONE /\ rxAbi = txAbi => got = sent

\* The records are fixed-layout, with no implicit padding beyond natural
\* alignment (spec section 6): the bytes a sender puts on the wire are
\* determined by the message alone, the same whatever ABI the sender is
\* built for and whatever its memory held in the struct's padding.
FixedLayout == wire # NONE => \A a \in ABIs : wire = Encoded(a, sent, 0)

====
