----------------------------- MODULE Signature -----------------------------
(***************************************************************************)
(* The bytes and hex digits of src/src/crypto.rs.  A byte is a number, a   *)
(* text a sequence of character codes, an Option an empty or a one-element *)
(* set.  The digest itself (HMAC-SHA256, a library) is a parameter of the  *)
(* module that uses these.                                                 *)
(***************************************************************************)
EXTENDS Integers, Sequences

Byte == 0..255

(* from_hex_char: digits, small and capital letters. *)
FromHexChar(c) ==
  IF c \in 48..57 THEN {c - 48}
  ELSE IF c \in 97..102 THEN {c - 97 + 10}
  ELSE IF c \in 65..70 THEN {c - 65 + 10}
  ELSE {}

(* HEX_CHARS[v]: small letters only. *)
HexChar(v) == IF v < 10 THEN 48 + v ELSE 97 + v - 10

HexEncode(data) ==
  [k \in 1..(2 * Len(data)) |->
     IF k % 2 = 1 THEN HexChar(data[(k + 1) \div 2] \div 16)
                  ELSE HexChar(data[k \div 2] % 16)]

(* hex_decode: None for an odd length or a character that is no digit. *)
HexDecode(s) ==
  IF Len(s) % 2 # 0 \/ \E i \in DOMAIN s : FromHexChar(s[i]) = {} THEN {}
  ELSE LET digit(i) == CHOOSE v \in FromHexChar(s[i]) : TRUE IN
       {[k \in 1..(Len(s) \div 2) |-> digit(2 * k - 1) * 16 + digit(2 * k)]}

(* constant_time_eq: the fold of xor is 0 just for equal bytes. *)
ConstantTimeEq(a, b) ==
  /\ Len(a) = Len(b)
  /\ \A i \in DOMAIN a : a[i] = b[i]

(* A header's value is accepted for a digest.  A missing header is the     *)
(* empty text, which decodes to no bytes.                                  *)
Accepts(digest, header) == \E bytes \in HexDecode(header) : ConstantTimeEq(digest, bytes)
=============================================================================
