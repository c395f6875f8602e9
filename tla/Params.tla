-------------------------------- MODULE Params --------------------------------
(***************************************************************************)
(* The parameter block of a transaction (src/transaction/params.rs): a     *)
(* 16-bit count, then for every parameter its 16-bit field, its 16-bit     *)
(* length and its bytes. A block is a sequence of bytes; a parameter is a  *)
(* pair <<field, bytes>>. The two conversions between field numbers and    *)
(* FieldId are inverse tables, so a field is its number and the table      *)
(* names the ones the server asks for.                                     *)
(*                                                                         *)
(* A result is a record: "ok" with a value, "none", or "error". Callers do *)
(* not tell the errors apart.                                              *)
(***************************************************************************)
EXTENDS Integers, Sequences

LOCAL INSTANCE SequencesExt

Ok(v) == [is |-> "ok", value |-> v]
Nothing == [is |-> "none"]
Error == [is |-> "error"]

-----------------------------------------------------------------------------
(* Numbers in network order.                                               *)

to_be_bytes(n) == <<n \div 256, n % 256>>

(* The 16-bit number at buf[at], counted from 0 as in the code.            *)
read_u16(buf, at) == buf[at + 1] * 256 + buf[at + 2]

FieldId ==
    [Data |-> 101, Name |-> 102, UserId |-> 103, IconId |-> 104, Login |-> 105,
     Password |-> 106, UserAccess |-> 110, UserFlags |-> 112, Options |-> 113,
     ChatSubject |-> 115, Version |-> 160, BannerId |-> 161, ServerName |-> 162,
     FileName |-> 200, AutoResponse |-> 215, UserNameWithInfo |-> 300, NewsArticle |-> 321,
     NewsCategory |-> 323, NewsPath |-> 325, NewsArticleId |-> 326, NewsDataFlavor |-> 327,
     NewsTitle |-> 328, NewsPoster |-> 329, NewsDate |-> 330, NewsPrevId |-> 331,
     NewsNextId |-> 332, NewsArticleData |-> 333, NewsArticleFlags |-> 334,
     NewsParentId |-> 335, NewsFirstChildId |-> 336]

(* The two conversions are inverse: no number stands for two fields.       *)
ASSUME FieldIdsDistinct == IsInjective(FieldId)

-----------------------------------------------------------------------------
(* Reading a block.                                                        *)

(* DuplicateContext is the flag userNames: may field 300 be repeated?      *)
duplicate_allowed(fid, userNames) ==
    \/ fid \in {FieldId.NewsCategory, FieldId.NewsArticle, FieldId.FileName}
    \/ fid = FieldId.UserNameWithInfo /\ userNames

(* ParamIter::next: the offset after the parameter at offset o. Past the   *)
(* end of the block there is no way back.                                  *)
Advance(buf, o) == IF o + 4 > Len(buf) THEN Len(buf) + 1 ELSE o + 4 + read_u16(buf, o + 2)

(* iter_params, run to its end: the number of parameters and the offsets   *)
(* at which they end.                                                      *)
ParamCount(buf) == IF buf = <<>> THEN 0 ELSE read_u16(buf, 0)

Offsets(buf) ==
    LET offset[k \in 0..ParamCount(buf)] ==
            IF k = 0 THEN (IF buf = <<>> THEN 0 ELSE 2) ELSE Advance(buf, offset[k - 1])
    IN  offset

FieldAt(buf, k) == read_u16(buf, Offsets(buf)[k - 1])

ParamAt(buf, k) ==
    <<FieldAt(buf, k), SubSeq(buf, Offsets(buf)[k - 1] + 5, Offsets(buf)[k])>>

MutIterates(buf, userNames) ==
    /\ Len(buf) # 1
    /\ Offsets(buf)[ParamCount(buf)] <= Len(buf)
    /\ \A j, k \in 1..ParamCount(buf) :
          j < k /\ FieldAt(buf, j) = FieldAt(buf, k) => duplicate_allowed(FieldAt(buf, k), userNames)

(* No step of the iterator failed, and finish found every byte used.       *)
Iterates(buf, userNames) ==
    /\ Len(buf) # 1
    /\ Offsets(buf)[ParamCount(buf)] = Len(buf)
    /\ \A j, k \in 1..ParamCount(buf) :
          j < k /\ FieldAt(buf, j) = FieldAt(buf, k) => duplicate_allowed(FieldAt(buf, k), userNames)

decode_params(buf) ==
    IF Iterates(buf, TRUE) THEN Ok([k \in 1..ParamCount(buf) |-> ParamAt(buf, k)]) ELSE Error

(* validate_payload of a request: the types that bypass decoding are not   *)
(* looked into. (total_size agrees with the payload once it is framed.)    *)
validate_payload(bypasses, buf) ==
    buf = <<>> \/ bypasses \/ Iterates(buf, FALSE)

encode_params(params) ==
    FoldLeft(LAMBDA buf, p : buf \o to_be_bytes(p[1]) \o to_be_bytes(Len(p[2])) \o p[2],
             to_be_bytes(Len(params)), params)

-----------------------------------------------------------------------------
(* Looking up parameters. decode_params_map keeps the order of the values  *)
(* of a field, and only the first is ever asked for.                       *)

FirstIndex(params, field) == SelectInSeq(params, LAMBDA p : p[1] = field)

first_value(params, field) ==
    IF FirstIndex(params, field) = 0 THEN Nothing ELSE Ok(params[FirstIndex(params, field)][2])

(* std::str::from_utf8, for the bytes used here: ASCII, or 255, which no   *)
(* UTF-8 text contains.                                                    *)
from_utf8(bytes) == \A i \in DOMAIN bytes : bytes[i] < 128

first_param_string(params, field) ==
    LET v == first_value(params, field)
    IN  IF v.is = "ok" /\ ~from_utf8(v.value) THEN Error ELSE v

(* The required_ forms turn a missing field into an error.                 *)
Required(result) == IF result.is = "none" THEN Error ELSE result

(* An i32 is kept as its four bytes.                                       *)
first_param_i32(params, field) ==
    LET v == first_value(params, field)
    IN  IF v.is = "ok" /\ Len(v.value) # 4 THEN Error ELSE v

(* A u32 is kept as its four bytes; it may be sent in two.                 *)
first_param_u32(params, field) ==
    LET v == first_value(params, field)
    IN  CASE v.is = "ok" /\ Len(v.value) = 2 -> Ok(<<0, 0>> \o v.value)
          [] v.is = "ok" /\ Len(v.value) \notin {2, 4} -> Error
          [] OTHER -> v

LeadingZeros(bytes, n) == \A i \in 1..n : bytes[i] = 0

(* try_from of a u32: the bytes beyond the smaller type's are zero, and an *)
(* i32 has no sign bit.                                                    *)
Narrow(result, fits, value) ==
    CASE result.is = "ok" /\ fits -> Ok(value)
      [] result.is = "ok" /\ ~fits -> Error
      [] OTHER -> result

as_i32(result) == Narrow(result, result.value[1] < 128, result.value)

as_u16(result) == Narrow(result, LeadingZeros(result.value, 2), read_u16(result.value, 2))

as_u8(result) == Narrow(result, LeadingZeros(result.value, 3), result.value[4])
==============================================================================
